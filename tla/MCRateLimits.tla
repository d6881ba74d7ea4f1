---------------------------- MODULE MCRateLimits ----------------------------
(* RateLimits on a small instance.                                         *)
EXTENDS RateLimits

(* One request of a session or for a code is admitted; one failure of a    *)
(* login is answered, the second is refused.                               *)
Limits == [s \in Scopes |-> IF s \in {"public", "session"} THEN 1 ELSE 2]
Windows == [s \in Scopes |-> IF s \in {"email", "ip"} THEN 2 ELSE 1]
=============================================================================
