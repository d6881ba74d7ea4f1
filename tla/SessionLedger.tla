--------------------------- MODULE SessionLedger ---------------------------
(***************************************************************************)
(* What the session model of the backend promises a client, with no locks, *)
(* transactions or requests: a session is opened once for one account,     *)
(* exchanges each of its refresh tokens at most once and only while it is  *)
(* open, is closed for good, and is purged in the end.  One step closes    *)
(* sessions of one account only.                                           *)
(***************************************************************************)
CONSTANTS Users, SessionIds, Nobody

VARIABLES
  phase,      \* where each session is in its life
  holder,     \* the account it was opened for
  exchanged   \* the refresh tokens, <<session, generation>>, already exchanged

ledger == <<phase, holder, exchanged>>

OpenOf(a) == {s \in SessionIds : phase[s] = "open" /\ holder[s] = a}

Move(S, to) == [s \in SessionIds |-> IF s \in S THEN to ELSE phase[s]]

Init ==
  /\ phase = [s \in SessionIds |-> "unused"]
  /\ holder = [s \in SessionIds |-> Nobody]
  /\ exchanged = {}

(* Opening a session may close older ones of the same account.             *)
Open(a, s) ==
  /\ phase[s] = "unused"
  /\ \E S \in SUBSET OpenOf(a) : phase' = [Move(S, "closed") EXCEPT ![s] = "open"]
  /\ holder' = [holder EXCEPT ![s] = a]
  /\ UNCHANGED exchanged

Exchange(s) ==
  /\ phase[s] = "open"
  /\ \E t \in exchanged' \ exchanged : t[1] = s /\ exchanged' = exchanged \cup {t}
  /\ UNCHANGED <<phase, holder>>

Close(a) ==
  /\ \E S \in SUBSET OpenOf(a) : phase' = Move(S, "closed")
  /\ UNCHANGED <<holder, exchanged>>

Purge(S) ==
  /\ \A s \in S : phase[s] \in {"open", "closed"}
  /\ phase' = Move(S, "purged")
  /\ holder' = [s \in SessionIds |-> IF s \in S THEN Nobody ELSE holder[s]]
  /\ UNCHANGED exchanged

Next ==
  \/ \E a \in Users : Close(a) \/ \E s \in SessionIds : Open(a, s)
  \/ \E s \in SessionIds : Exchange(s)
  \/ \E S \in SUBSET SessionIds : Purge(S)

Spec == Init /\ [][Next]_ledger

=============================================================================
