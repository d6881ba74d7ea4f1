------------------------- MODULE MCVerificationCodes -------------------------
(* VerificationCodes on a small instance.                                  *)
EXTENDS VerificationCodes, TLC

(* Codes, requests, confirmations and subjects are interchangeable.        *)
Symmetry == Permutations(Codes) \cup Permutations(Issues)
              \cup Permutations(Confirms) \cup Permutations(Subjects)
=============================================================================
