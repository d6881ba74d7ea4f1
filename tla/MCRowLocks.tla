----------------------------- MODULE MCRowLocks -----------------------------
(* RowLocks on a small instance.                                           *)
EXTENDS RowLocks

CONSTANTS t1, t2, t3, u1

(* All sessions belong to one account.                                     *)
OneOwner == [s \in SessionIds |-> u1]

(* One of each group; every kind occurs, and the flush twice.              *)
KindsInFlight ==
    [t \in Transactions |->
        CASE t = t1 -> {"signIn", "reset", "rejected", "password", "email",
                        "block", "deleteUser", "deleteOwn", "register"}
          [] t = t2 -> {"oneUser", "oneSession", "revokeAll", "cleanup",
                        "flush"}
          [] t = t3 -> {"reset", "flush"}]
=============================================================================
