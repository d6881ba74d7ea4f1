----------------------------- MODULE MCSessions -----------------------------
(* Sessions on a small instance.                                           *)
EXTENDS Sessions, TLC

(* Requests in flight, session uuids and accounts are interchangeable.     *)
Symmetry == Permutations(Requests) \cup Permutations(SessionIds)
              \cup Permutations(Users)

=============================================================================
