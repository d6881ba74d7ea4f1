---------------------------- MODULE LedgerProofs ----------------------------
(***************************************************************************)
(* Sessions implements SessionLedger: every commit, with all the steps and *)
(* locks that led to it, is one step of the ledger, and everything else is *)
(* none.                                                                   *)
(***************************************************************************)
EXTENDS SessionsProofs

(* The variables of the ledger, as Ledger substitutes them.                *)
PhaseOf == [s \in SessionIds |-> Phase(s)]
HolderOf == [s \in SessionIds |-> session[s].owner]
LedgerOf == <<PhaseOf, HolderOf, spent>>

(* What a step makes of the ledger.                                        *)
LedgerStep == Ledger!Next \/ UNCHANGED LedgerOf

(* The four phases are the four states of a row.                           *)
LEMMA PhaseOfRow ==
  ASSUME TypeOK, NEW s \in SessionIds
  PROVE  /\ session[s].status = "unused" <=> Phase(s) = "unused"
         /\ session[s].status = "unrevoked" <=> Phase(s) = "open"
         /\ session[s].status = "revoked" <=> Phase(s) = "closed"
         /\ session[s].status = "deleted" <=> Phase(s) = "purged"
  <1>1. session[s].status \in {"unused", "unrevoked", "revoked", "deleted"}
    BY DEF TypeOK, Session
  <1> QED BY <1>1 DEF Phase

(* A step that leaves the rows and the exchanged tokens alone is none of   *)
(* the ledger.                                                             *)
LEMMA RowsUnchangedStutters ==
  ASSUME session' = session, spent' = spent
  PROVE  LedgerStep
  BY DEF LedgerStep, LedgerOf, PhaseOf, HolderOf, Phase

(* A step that closes open rows of one account, and changes nothing else   *)
(* that the ledger knows of, is Close.                                     *)
LEMMA ClosingIsClose ==
  ASSUME TypeOK, TypeOK', spent' = spent, NEW u \in Users,
         NEW S \in SUBSET SessionIds,
         \A s \in S : session[s].owner = u /\ session[s].status = "unrevoked",
         \A s \in SessionIds :
           /\ session'[s].owner = session[s].owner
           /\ session'[s].status = IF s \in S THEN "revoked" ELSE session[s].status
  PROVE  LedgerStep
  <1>1. S \in SUBSET Ledger!OpenOf(u)
    BY PhaseOfRow DEF Ledger!OpenOf
  <1>2. ASSUME NEW s \in SessionIds
        PROVE  Phase(s)' = IF s \in S THEN "closed" ELSE Phase(s)
    <2>1. session'[s].status \in {"unused", "unrevoked", "revoked", "deleted"}
      BY DEF TypeOK, Session
    <2> QED BY <2>1 DEF Phase
  <1>3. PhaseOf' = Ledger!Move(S, "closed")
    BY <1>2 DEF PhaseOf, Ledger!Move
  <1>4. HolderOf' = HolderOf
    BY DEF HolderOf
  <1>5. Ledger!Close(u)
    BY <1>1, <1>3, <1>4 DEF Ledger!Close, PhaseOf, HolderOf
  <1> QED BY <1>5 DEF LedgerStep, Ledger!Next

(* A commit that revokes the rows it holds closes those of them that were  *)
(* open, and they all belong to its account.                               *)
LEMMA RevokingIsClose ==
  ASSUME TypeOK, TypeOK', LockInv, NEW p \in Requests, NEW reason,
         request[p].user \in Users,
         session' = HeldRevoked(p, reason), spent' = spent
  PROVE  LedgerStep
  <1> DEFINE S == {s \in Held(p) : session[s].status = "unrevoked"}
  <1>1. HeldIsOwned
    BY DEF LockInv
  <1>2. \A s \in Held(p) : /\ session[s].owner = request[p].user
                           /\ session[s].status \in {"unrevoked", "revoked"}
    BY <1>1, SessionsAssumption DEF Held, HeldIsOwned, TypeOK
  <1>3. \A s \in SessionIds :
           /\ session'[s].owner = session[s].owner
           /\ session'[s].status = IF s \in S THEN "revoked" ELSE session[s].status
    BY <1>1, <1>2, CommitRevokes
  <1>4. S \in SUBSET SessionIds
    BY DEF Held
  <1> QED BY <1>2, <1>3, <1>4, ClosingIsClose

(* A step that empties rows in use, and changes nothing else, is Purge.    *)
LEMMA EmptyingIsPurge ==
  ASSUME TypeOK, spent' = spent, NEW S \in SUBSET SessionIds,
         \A s \in S : session[s].status \in {"unrevoked", "revoked"},
         \A s \in SessionIds :
           IF s \in S THEN /\ session'[s].status = "deleted"
                           /\ session'[s].owner = Nobody
                      ELSE session'[s] = session[s]
  PROVE  LedgerStep
  <1>1. \A s \in S : PhaseOf[s] \in {"open", "closed"}
    BY PhaseOfRow DEF PhaseOf
  <1>2. ASSUME NEW s \in SessionIds
        PROVE  Phase(s)' = IF s \in S THEN "purged" ELSE Phase(s)
    <2>1. CASE s \in S
      BY <2>1 DEF Phase
    <2>2. CASE s \notin S
      <3>1. /\ session'[s] = session[s]
            /\ session[s].status \in {"unused", "unrevoked", "revoked", "deleted"}
        BY <2>2 DEF TypeOK, Session
      <3> QED BY <2>2, <3>1 DEF Phase
    <2> QED BY <2>1, <2>2
  <1>3. PhaseOf' = Ledger!Move(S, "purged")
    BY <1>2 DEF PhaseOf, Ledger!Move
  <1>4. HolderOf' = [s \in SessionIds |-> IF s \in S THEN Nobody ELSE HolderOf[s]]
    BY DEF HolderOf
  <1>5. Ledger!Purge(S)
    BY <1>1, <1>3, <1>4 DEF Ledger!Purge, PhaseOf, HolderOf
  <1> QED BY <1>5 DEF LedgerStep, Ledger!Next

(* A sign-in opens one session and closes those over the limit.            *)
LEMMA SignInIsOpen ==
  ASSUME TypeOK, TypeOK', LockInv, NEW p \in Requests, CommitSignIn(p)
  PROVE  LedgerStep
  <1> DEFINE u == request[p].user
             S == {s \in Held(p) : session[s].status = "unrevoked"}
  <1>1. HeldIsOwned /\ u \in Users
    BY DEF LockInv, CommitSignIn, Ready, RequestShape
  <1>2. \A s \in Held(p) : /\ session[s].owner = u
                           /\ session[s].status \in {"unrevoked", "revoked"}
    BY <1>1, SessionsAssumption DEF Held, HeldIsOwned, TypeOK
  <1>3. PICK new \in SessionIds :
           /\ session[new].status = "unused"
           /\ session'[new].status = "unrevoked"
           /\ session'[new].owner = u
           /\ \A s \in SessionIds \ {new} :
                /\ session'[s].owner = session[s].owner
                /\ session'[s].status =
                     IF s \in Held(p) THEN "revoked" ELSE session[s].status
    BY <1>1, SignInCommits
  <1>4. S \in SUBSET Ledger!OpenOf(u)
    BY <1>2, PhaseOfRow DEF Ledger!OpenOf, Held
  <1>5. ASSUME NEW s \in SessionIds \ {new}
        PROVE  Phase(s)' = IF s \in S THEN "closed" ELSE Phase(s)
    <2>1. /\ session'[s].status \in {"unused", "unrevoked", "revoked", "deleted"}
          /\ session'[s].status = IF s \in S THEN "revoked" ELSE session[s].status
      BY <1>2, <1>3 DEF TypeOK, Session
    <2> QED BY <2>1 DEF Phase
  <1>6. Phase(new)' = "open"
    BY <1>3 DEF Phase
  <1>7. PhaseOf' = [Ledger!Move(S, "closed") EXCEPT ![new] = "open"]
    BY <1>5, <1>6 DEF PhaseOf, Ledger!Move
  <1>8. HolderOf' = [HolderOf EXCEPT ![new] = u]
    BY <1>3 DEF HolderOf
  <1>9. PhaseOf[new] = "unused" /\ spent' = spent
    BY <1>3, PhaseOfRow DEF PhaseOf, CommitSignIn
  <1>10. Ledger!Open(u, new)
    BY <1>4, <1>7, <1>8, <1>9 DEF Ledger!Open, PhaseOf, HolderOf
  <1> QED BY <1>1, <1>10 DEF LedgerStep, Ledger!Next

(* A rotation exchanges a token of an open session that was not exchanged  *)
(* before: the one whose hash is stored.                                   *)
LEMMA RotationIsExchange ==
  ASSUME TypeOK, LockInv, NEW p \in Requests, Rotate(p)
  PROVE  LedgerStep
  <1> DEFINE s == request[p].sid
             t == <<s, request[p].generation>>
  <1>1. s \in SessionIds /\ session[s].status = "unrevoked"
    BY DEF LockInv, RequestShape, DecisionHolds, Rotate
  <1>2. /\ request[p].generation = session[s].generation
        /\ session[s].generation \in Nat
    BY <1>1 DEF LockInv, DecisionHolds, Rotate, TypeOK, Session
  <1>3. t \notin spent
    BY <1>1, <1>2 DEF LockInv, SpentIsPast
  <1>4. /\ spent' = spent \cup {t}
        /\ t \in spent' \ spent /\ t[1] = s
    BY <1>3 DEF Rotate
  <1>5. \A r \in SessionIds : /\ session'[r].owner = session[r].owner
                              /\ session'[r].status = session[r].status
    BY RotateCommits DEF LockInv
  <1>6. PhaseOf' = PhaseOf /\ HolderOf' = HolderOf
    <2>1. ASSUME NEW r \in SessionIds PROVE Phase(r)' = Phase(r)
      BY <1>5 DEF Phase
    <2> QED BY <1>5, <2>1 DEF PhaseOf, HolderOf
  <1>7. PhaseOf[s] = "open"
    BY <1>1, PhaseOfRow DEF PhaseOf
  <1>8. Ledger!Exchange(s)
    BY <1>4, <1>6, <1>7 DEF Ledger!Exchange, PhaseOf, HolderOf
  <1> QED BY <1>1, <1>8 DEF LedgerStep, Ledger!Next

(* Every step of the program is a step of the ledger or none.              *)
LEMMA NextIsLedgerStep ==
  ASSUME TypeOK, LockInv, [Next]_vars
  PROVE  LedgerStep
  <1>0. TypeOK' /\ RequestShape /\ HeldIsOwned /\ RowsHaveOwners
    BY NextIsTyped DEF LockInv
  <1>1. ASSUME NEW p \in Requests, Arrive(p) PROVE LedgerStep
    BY <1>1, BeginKeepsRows, RowsUnchangedStutters
  <1>2. ASSUME NEW p \in Requests, CommitDelete(p) PROVE LedgerStep
    <2>1. Held(p) \in SUBSET SessionIds /\ spent' = spent
      BY <1>2 DEF Held, CommitDelete, history
    <2> QED BY <1>0, <1>2, <2>1, DeleteCommits, EmptyingIsPurge
  <1>3. ASSUME NEW p \in Requests, RevokeReused(p) PROVE LedgerStep
    BY <1>0, <1>3, RevokingIsClose DEF RevokeReused, RequestShape, history
  <1>4. ASSUME NEW p \in Requests, CommitRevokeAll(p) PROVE LedgerStep
    BY <1>0, <1>4, RevokingIsClose DEF CommitRevokeAll, Ready, RequestShape, history
  <1>5. ASSUME NEW p \in Requests, CommitReset(p) PROVE LedgerStep
    BY <1>0, <1>5, RevokingIsClose DEF CommitReset, Ready, RequestShape, history
  <1>6. ASSUME NEW p \in Requests, CommitChange(p) PROVE LedgerStep
    BY <1>0, <1>6, RevokingIsClose DEF CommitChange, Ready, RequestShape, history
  <1>7. ASSUME NEW p \in Requests, CommitBlock(p) PROVE LedgerStep
    BY <1>0, <1>7, RevokingIsClose DEF CommitBlock, Ready, RequestShape, history
  <1>8. ASSUME NEW p \in Requests, Proceed(p) PROVE LedgerStep
    <2>1. CASE session' = session /\ spent' = spent
      BY <2>1, RowsUnchangedStutters
    <2>2. CASE CommitSignIn(p)
      BY <1>0, <2>2, SignInIsOpen
    <2>3. CASE Rotate(p)
      BY <2>3, RotationIsExchange
    <2> QED BY <1>2, <1>3, <1>4, <1>5, <1>6, <1>7, <1>8, <2>1, <2>2, <2>3
            DEF Proceed, LockUser, Select, VisitRow, LockRow, BeginRecovery, history
  <1>9. ASSUME NEW p \in Requests, Abort(p) PROVE LedgerStep
    BY <1>9, RowsUnchangedStutters DEF Abort, history
  <1>10. ASSUME NEW s \in SessionIds, RevokeSession(s) PROVE LedgerStep
    <2>1. session[s].status = "unrevoked" /\ session[s].owner \in Users
      BY <1>0, <1>10 DEF RevokeSession, RowsHaveOwners
    <2>2. \A r \in SessionIds :
             /\ session'[r].owner = session[r].owner
             /\ session'[r].status = IF r \in {s} THEN "revoked" ELSE session[r].status
      BY <1>10, RevokedFields DEF RevokeSession, TypeOK
    <2>3. spent' = spent
      BY <1>10 DEF RevokeSession, history
    <2> DEFINE S == {s}
    <2>4. S \in SUBSET SessionIds
      OBVIOUS
    <2>5. \A r \in S : session[r].owner = session[s].owner /\ session[r].status = "unrevoked"
      BY <2>1
    <2>6. \A r \in SessionIds :
             /\ session'[r].owner = session[r].owner
             /\ session'[r].status = IF r \in S THEN "revoked" ELSE session[r].status
      BY <2>2
    <2> HIDE DEF S
    <2> QED BY <1>0, <2>1, <2>3, <2>4, <2>5, <2>6, ClosingIsClose
  <1>11. ASSUME NEW s \in SessionIds, Cleanup(s) PROVE LedgerStep
    <2>1. session[s].status \in {"unrevoked", "revoked"} /\ spent' = spent
      BY <1>11 DEF Cleanup, Stale, history
    <2>2. \A r \in SessionIds :
             IF r \in {s} THEN /\ session'[r].status = "deleted"
                               /\ session'[r].owner = Nobody
                          ELSE session'[r] = session[r]
      BY <1>11 DEF Cleanup, Unused, TypeOK
    <2> QED BY <2>1, <2>2, EmptyingIsPurge
  <1>12. ASSUME NEW u \in Users, Unblock(u) PROVE LedgerStep
    BY <1>12, RowsUnchangedStutters DEF Unblock, history
  <1>13. CASE Tick \/ UNCHANGED vars
    BY <1>13, RowsUnchangedStutters DEF Tick, vars, history
  <1> QED BY <1>1, <1>8, <1>9, <1>10, <1>11, <1>12, <1>13 DEF Next

(* The rows start as an empty ledger.                                      *)
LEMMA InitIsLedgerInit ==
  ASSUME Init
  PROVE  Ledger!Init
  BY DEF Init, Ledger!Init, Phase, Unused

(* The program keeps the promises of the ledger, whatever requests         *)
(* overlap: sessions go from unused to open, closed and purged, a token is *)
(* exchanged while its session is open and at most once, and one commit    *)
(* closes sessions of one account only.                                    *)
THEOREM SessionsImplementLedger == Spec => ImplementsLedger
  <1>1. Init => Ledger!Init
    BY InitIsLedgerInit
  <1>2. TypeOK /\ LockInv /\ [Next]_vars => [Ledger!Next]_(Ledger!ledger)
    BY NextIsLedgerStep
       DEF LedgerStep, LedgerOf, PhaseOf, HolderOf, Ledger!ledger
  <1> QED BY <1>1, <1>2, TypeCorrect, LocksCorrect, PTL
          DEF Spec, ImplementsLedger, Ledger!Spec
=============================================================================
