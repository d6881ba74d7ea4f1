--------------------------- MODULE SessionsProofs ---------------------------
(***************************************************************************)
(* Theorems about Sessions, for every value of its constants.              *)
(***************************************************************************)
EXTENDS Sessions, FiniteSetTheorems, TLAPS

(* The records of an empty slot and of an unused row.                      *)
LEMMA IdleIsRequest == Idle \in Request
  BY DEF Idle, Request, Kinds, Steps

(* The record of an unused row is a row.                                   *)
LEMMA UnusedIsSession == Unused \in Session
  BY DEF Unused, Session, Reasons

(* A row that is revoked is a row.                                         *)
LEMMA RevokedRowIsSession ==
  ASSUME TypeOK, NEW s \in SessionIds, NEW reason \in Reasons
  PROVE  Revoked(s, reason) \in Session
  <1> DEFINE row == session[s]
             locked == [row EXCEPT !.status = "revoked"]
             dated == [locked EXCEPT !.revokedAt = now]
  <1>1. row \in Session /\ now \in Nat
    BY DEF TypeOK
  <1>2. locked \in Session
    BY <1>1 DEF Session
  <1>3. dated \in Session
    BY <1>1, <1>2 DEF Session
  <1>4. [dated EXCEPT !.reason = reason] \in Session
    <2> HIDE DEF dated
    <2> QED BY <1>3 DEF Session
  <1> QED BY <1>4 DEF Revoked

(* What a commit leaves of the rows are rows.                              *)
LEMMA RevokedIsSession ==
  ASSUME TypeOK, NEW p \in Requests, NEW reason \in Reasons
  PROVE  HeldRevoked(p, reason) \in [SessionIds -> Session]
  BY RevokedRowIsSession DEF HeldRevoked, TypeOK

(* A request that is over leaves locks and requests with their types.      *)
LEMMA FinishIsTyped ==
  ASSUME TypeOK, NEW p \in Requests, Finish(p)
  PROVE  /\ userLock' \in [Users -> Requests \cup {Nobody}]
         /\ rowLock' \in [SessionIds -> Requests \cup {Nobody}]
         /\ request' \in [Requests -> Request]
  BY IdleIsRequest DEF Finish, Release, TypeOK

(* A request that arrives is a request.                                    *)
LEMMA BeginIsTyped ==
  ASSUME TypeOK, NEW p \in Requests, NEW kind \in Kinds, NEW at \in Steps,
         NEW u \in Users \cup {Nobody}, NEW s \in SessionIds \cup {NoSession},
         NEW g \in Nat, Begin(p, kind, at, u, s, g)
  PROVE  TypeOK'
  BY DEF Begin, TypeOK, Request, locks, history

(* Any request that arrives keeps the types: each kind begins a request.   *)
LEMMA ArriveIsTyped ==
  ASSUME TypeOK, NEW p \in Requests, Arrive(p)
  PROVE  TypeOK'
  <1> USE BeginIsTyped DEF Kinds, Steps
  <1>1. ASSUME NEW u \in Users, BeginLogin(p, u) PROVE TypeOK'
    BY <1>1 DEF BeginLogin
  <1>2. ASSUME NEW u \in Users, BeginRevokeAll(p, u) PROVE TypeOK'
    BY <1>2 DEF BeginRevokeAll
  <1>3. ASSUME NEW u \in Users, BeginReset(p, u) PROVE TypeOK'
    BY <1>3 DEF BeginReset
  <1>4. ASSUME NEW u \in Users, BeginBlock(p, u) PROVE TypeOK'
    BY <1>4 DEF BeginBlock
  <1>5. ASSUME NEW u \in Users, BeginDelete(p, u) PROVE TypeOK'
    BY <1>5 DEF BeginDelete
  <1>6. ASSUME NEW t \in issued, BeginRefresh(p, t) PROVE TypeOK'
    <2>1. t.sid \in SessionIds /\ t.generation \in Nat
      BY DEF TypeOK, Token
    <2>2. session[t.sid].owner \in Users \cup {Nobody}
      BY <2>1 DEF TypeOK, Session
    <2> QED BY <1>6, <2>1, <2>2 DEF BeginRefresh
  <1>7. ASSUME NEW kind \in {"passwordChange", "emailChange"},
               NEW s \in SessionIds, BeginChange(p, kind, s)
        PROVE  TypeOK'
    <2>1. session[s].owner \in Users \cup {Nobody}
      BY DEF TypeOK, Session
    <2> QED BY <1>7, <2>1 DEF BeginChange
  <1> QED BY <1>1, <1>2, <1>3, <1>4, <1>5, <1>6, <1>7 DEF Arrive

(* The type of the variables is kept with the shape of the requests: a     *)
(* refresh that has decided must know its session.                         *)
LEMMA ProceedIsTyped ==
  ASSUME TypeOK, RequestShape, NEW p \in Requests, Proceed(p)
  PROVE  TypeOK'
  <1> USE DEF history, locks
  <1>1. request[p] \in Request
    BY DEF TypeOK
  <1>2. CASE LockUser(p)
    BY <1>1, <1>2 DEF LockUser, TypeOK, Request, Steps
  <1>3. CASE Select(p)
    <2>1. PICK rows \in Selections(p) :
            request' = [request EXCEPT ![p] = [@ EXCEPT !.at = "update", !.todo = rows]]
      BY <1>3 DEF Select
    <2>2. rows \subseteq SessionIds
      BY <2>1 DEF Selections, Overflow, Active, Unrevoked, Rows
    <2> QED BY <1>1, <1>3, <2>1, <2>2 DEF Select, TypeOK, Request, Steps
  <1>4. ASSUME NEW s \in SessionIds, VisitRow(p, s) PROVE TypeOK'
    BY <1>1, <1>4 DEF VisitRow, TypeOK, Request
  <1>5. CASE CommitSignIn(p)
    <2>1. HeldRevoked(p, "session_limit") \in [SessionIds -> Session]
      BY RevokedIsSession DEF Reasons
    <2>2. request[p].began \in Nat /\ request[p].user \in Users \cup {Nobody}
      BY <1>1 DEF Request
    <2>3. NewSession(request[p].user, request[p].began) \in Session
      BY <2>2, SessionsAssumption DEF NewSession, Session, Reasons, TypeOK
    <2>4. session' \in [SessionIds -> Session]
      BY <1>5, <2>1, <2>3 DEF CommitSignIn
    <2>5. issued' \subseteq Token
      BY <1>5, SessionsAssumption DEF CommitSignIn, TypeOK, Token
    <2> QED BY <1>5, <2>4, <2>5, FinishIsTyped DEF CommitSignIn, TypeOK
  <1>6. CASE LockRow(p)
    BY <1>1, <1>6 DEF LockRow, TypeOK, Request, Steps
  <1>7. CASE Rotate(p)
    <2> DEFINE s == request[p].sid
               next == session[s].generation + 1
    <2>1. s \in SessionIds /\ request[p].generation \in Nat
      BY <1>1, <1>7 DEF Rotate, RequestShape, Request
    <2>2. session[s] \in Session
      BY <2>1 DEF TypeOK
    <2>3. next \in Nat /\ now + Lifetime \in Nat
      BY <2>2, SessionsAssumption DEF Session, TypeOK
    <2>4. session' \in [SessionIds -> Session]
      BY <1>7, <2>1, <2>2, <2>3 DEF Rotate, TypeOK, Session
    <2>5. issued' \subseteq Token
      BY <1>7, <2>1, <2>3 DEF Rotate, TypeOK, Token
    <2>6. spent' \subseteq SessionIds \X Nat /\ revived' \subseteq SessionIds
      BY <1>7, <2>1 DEF Rotate, TypeOK
    <2> QED BY <1>7, <2>4, <2>5, <2>6, FinishIsTyped DEF Rotate, TypeOK
  <1>8. CASE RevokeReused(p)
    <2>1. HeldRevoked(p, "refresh_reuse") \in [SessionIds -> Session]
      BY RevokedIsSession DEF Reasons
    <2> QED BY <1>8, <2>1, FinishIsTyped DEF RevokeReused, TypeOK
  <1>9. CASE CommitRevokeAll(p)
    <2>1. HeldRevoked(p, "logout_all") \in [SessionIds -> Session]
      BY RevokedIsSession DEF Reasons
    <2> QED BY <1>9, <2>1, FinishIsTyped DEF CommitRevokeAll, TypeOK
  <1>10. CASE CommitReset(p)
    <2> DEFINE u == request[p].user
    <2>1. HeldRevoked(p, "password_reset") \in [SessionIds -> Session]
      BY RevokedIsSession DEF Reasons
    <2>2. u \in Users /\ user[u] \in User
      BY <1>10 DEF CommitReset, Ready, RequestShape, TypeOK
    <2>3. user' \in [Users -> User]
      BY <1>10, <2>2 DEF CommitReset, TypeOK, User
    <2>4. user[u].credential + 1 \in Nat
      BY <2>2 DEF User
    <2>5. request' \in [Requests -> Request]
      BY <1>1, <1>10, <2>4 DEF CommitReset, TypeOK, Request, Steps
    <2> QED BY <1>10, <2>1, <2>3, <2>5 DEF CommitReset, Release, TypeOK
  <1>11. CASE BeginRecovery(p)
    BY <1>1, <1>11 DEF BeginRecovery, TypeOK, Request, Kinds, Steps
  <1>12. CASE CommitChange(p)
    <2>1. HeldRevoked(p, "credentials_changed") \in [SessionIds -> Session]
      BY RevokedIsSession DEF Reasons
    <2>2. request[p].user \in Users
      BY <1>12 DEF CommitChange, Ready, RequestShape
    <2>3. user' \in [Users -> User]
      BY <1>12, <2>2 DEF CommitChange, TypeOK, User
    <2> QED BY <1>12, <2>1, <2>3, FinishIsTyped DEF CommitChange, TypeOK
  <1>13. CASE CommitBlock(p)
    <2>1. HeldRevoked(p, "account_blocked") \in [SessionIds -> Session]
      BY RevokedIsSession DEF Reasons
    <2>2. user' \in [Users -> User]
      BY <1>13 DEF CommitBlock, TypeOK, User
    <2> QED BY <1>13, <2>1, <2>2, FinishIsTyped DEF CommitBlock, TypeOK
  <1>14. CASE CommitDelete(p)
    <2>1. user' \in [Users -> User]
      BY <1>14 DEF CommitDelete, TypeOK, User
    <2>2. session' \in [SessionIds -> Session]
      BY <1>14, UnusedIsSession DEF CommitDelete, TypeOK, Session
    <2> QED BY <1>14, <2>1, <2>2, FinishIsTyped DEF CommitDelete, TypeOK
  <1> QED BY <1>2, <1>3, <1>4, <1>5, <1>6, <1>7, <1>8, <1>9, <1>10, <1>11, <1>12,
             <1>13, <1>14 DEF Proceed

(* Every step of the system keeps the types.                               *)
LEMMA NextIsTyped ==
  ASSUME TypeOK, RequestShape, [Next]_vars
  PROVE  TypeOK'
  <1>1. ASSUME NEW p \in Requests, Abort(p) PROVE TypeOK'
    BY <1>1, FinishIsTyped DEF Abort, TypeOK, history
  <1>2. ASSUME NEW s \in SessionIds, RevokeSession(s) PROVE TypeOK'
    <2>1. Revoked(s, "user_revoked") \in Session
      BY RevokedRowIsSession DEF Reasons
    <2>2. session' \in [SessionIds -> Session]
      BY <1>2, <2>1 DEF RevokeSession, TypeOK
    <2> QED BY <1>2, <2>2 DEF RevokeSession, TypeOK, locks, history
  <1>3. ASSUME NEW s \in SessionIds, Cleanup(s) PROVE TypeOK'
    BY <1>3, UnusedIsSession DEF Cleanup, TypeOK, Session, locks, history
  <1>4. ASSUME NEW u \in Users, Unblock(u) PROVE TypeOK'
    BY <1>4 DEF Unblock, TypeOK, User, locks, history
  <1>5. CASE Tick
    BY <1>5 DEF Tick, TypeOK, locks, history
  <1>6. CASE UNCHANGED vars
    BY <1>6 DEF vars, TypeOK
  <1> QED BY <1>1, <1>2, <1>3, <1>4, <1>5, <1>6, ArriveIsTyped,
      ProceedIsTyped DEF Next

(* Every step keeps the shape of the requests.                             *)
LEMMA BeginKeepsShape ==
  ASSUME TypeOK, RequestShape, NEW p \in Requests, NEW kind, NEW at,
         NEW u \in Users, NEW s, NEW g, Begin(p, kind, at, u, s, g),
         \/ at = "lockUser" /\ kind \in LockingKinds
         \/ at = "select" /\ kind \in LockingKinds \cup {"revokeAll"}
         \/ at = "lockRow" /\ kind = "refresh" /\ s \in SessionIds
  PROVE  RequestShape'
  BY DEF Begin, RequestShape, TypeOK

(* The slot of a request that is over has the shape of an idle one.        *)
LEMMA FinishKeepsShape ==
  ASSUME TypeOK, RequestShape, NEW p \in Requests, Finish(p)
  PROVE  RequestShape'
  BY DEF Finish, RequestShape, TypeOK, Idle

(* A request that arrives is at the first step of its kind and names rows  *)
(* of its own account.                                                     *)
LEMMA ArriveKeepsShape ==
  ASSUME TypeOK, RequestShape, RowsHaveOwners, NEW p \in Requests, Arrive(p)
  PROVE  RequestShape'
  <1> USE BeginKeepsShape DEF Kinds, LockingKinds
  <1>1. ASSUME NEW u \in Users, BeginLogin(p, u) PROVE RequestShape'
    BY <1>1 DEF BeginLogin
  <1>2. ASSUME NEW u \in Users, BeginRevokeAll(p, u) PROVE RequestShape'
    BY <1>2 DEF BeginRevokeAll
  <1>3. ASSUME NEW u \in Users, BeginReset(p, u) PROVE RequestShape'
    BY <1>3 DEF BeginReset
  <1>4. ASSUME NEW u \in Users, BeginBlock(p, u) PROVE RequestShape'
    BY <1>4 DEF BeginBlock
  <1>5. ASSUME NEW u \in Users, BeginDelete(p, u) PROVE RequestShape'
    BY <1>5 DEF BeginDelete
  <1>6. ASSUME NEW t \in issued, BeginRefresh(p, t) PROVE RequestShape'
    <2>1. t.sid \in SessionIds
      BY DEF TypeOK, Token
    <2>2. session[t.sid].owner \in Users
      BY <1>6, <2>1 DEF BeginRefresh, Valid, RowsHaveOwners
    <2> QED BY <1>6, <2>1, <2>2 DEF BeginRefresh
  <1>7. ASSUME NEW kind \in {"passwordChange", "emailChange"},
               NEW s \in SessionIds, BeginChange(p, kind, s)
        PROVE  RequestShape'
    <2>1. session[s].owner \in Users
      BY <1>7 DEF BeginChange, Valid, RowsHaveOwners
    <2> QED BY <1>7, <2>1 DEF BeginChange
  <1> QED BY <1>1, <1>2, <1>3, <1>4, <1>5, <1>6, <1>7 DEF Arrive

(* A request that goes on moves to a step of its kind; a refresh that      *)
(* decides knows its session.                                              *)
LEMMA ProceedKeepsShape ==
  ASSUME TypeOK, RequestShape, NEW p \in Requests, Proceed(p)
  PROVE  RequestShape'
  <1>1. CASE LockUser(p)
    BY <1>1 DEF LockUser, RequestShape, TypeOK, Request, Ready, LockingKinds, Kinds
  <1>2. CASE Select(p)
    BY <1>2 DEF Select, RequestShape, TypeOK, Request, Ready, LockingKinds, Kinds
  <1>3. ASSUME NEW s \in SessionIds, VisitRow(p, s) PROVE RequestShape'
    BY <1>3 DEF VisitRow, RequestShape, TypeOK, Request
  <1>4. CASE CommitSignIn(p)
    BY <1>4, FinishKeepsShape DEF CommitSignIn
  <1>5. CASE LockRow(p)
    BY <1>5 DEF LockRow, RequestShape, TypeOK, Request, Ready, LockingKinds, Kinds
  <1>6. CASE Rotate(p)
    BY <1>6, FinishKeepsShape DEF Rotate
  <1>7. CASE RevokeReused(p)
    BY <1>7, FinishKeepsShape DEF RevokeReused
  <1>8. CASE CommitRevokeAll(p)
    BY <1>8, FinishKeepsShape DEF CommitRevokeAll
  <1>9. CASE CommitReset(p)
    BY <1>9 DEF CommitReset, RequestShape, TypeOK, Request, Ready, LockingKinds,
        Kinds
  <1>10. CASE BeginRecovery(p)
    BY <1>10 DEF BeginRecovery, RequestShape, TypeOK, Request, Ready,
        LockingKinds, Kinds
  <1>11. CASE CommitChange(p)
    BY <1>11, FinishKeepsShape DEF CommitChange
  <1>12. CASE CommitBlock(p)
    BY <1>12, FinishKeepsShape DEF CommitBlock
  <1>13. CASE CommitDelete(p)
    BY <1>13, FinishKeepsShape DEF CommitDelete
  <1> QED BY <1>1, <1>2, <1>3, <1>4, <1>5, <1>6, <1>7, <1>8, <1>9, <1>10, <1>11,
      <1>12, <1>13 DEF Proceed

(* What a step does to the rows, whoever takes it.                         *)
LEMMA RevokedFields ==
  ASSUME TypeOK, NEW s \in SessionIds, NEW reason
  PROVE  /\ Revoked(s, reason).status = "revoked"
         /\ Revoked(s, reason).reason = reason
         /\ Revoked(s, reason).owner = session[s].owner
         /\ Revoked(s, reason).generation = session[s].generation
  BY DEF Revoked, TypeOK, Session

(* What a commit that revokes the rows it holds leaves: their status is    *)
(* revoked, everything else about the rows stays.                          *)
LEMMA CommitRevokes ==
  ASSUME TypeOK, HeldIsOwned, NEW p \in Requests, NEW reason,
         session' = HeldRevoked(p, reason)
  PROVE  \A s \in SessionIds :
           /\ session'[s].owner = session[s].owner
           /\ session'[s].generation = session[s].generation
           /\ s \in Held(p) => session[s].status \in {"unrevoked", "revoked"}
           /\ session'[s].status = IF s \in Held(p) THEN "revoked" ELSE session[s].status
           /\ s \notin Held(p) => session'[s] = session[s]
  BY RevokedFields, SessionsAssumption DEF HeldRevoked, HeldIsOwned, Held, TypeOK

(* Arriving changes nothing but the slot of the request.                   *)
LEMMA BeginKeepsRows ==
  ASSUME NEW p, Arrive(p)
  PROVE  UNCHANGED <<user, session, userLock, rowLock, now, issued, spent, revived>>
  BY DEF Arrive, BeginLogin, BeginRevokeAll, BeginReset, BeginBlock, BeginDelete,
         BeginRefresh, BeginChange, Begin, locks, history

(* The fields of the row that a sign-in inserts.                           *)
LEMMA NewSessionFields ==
  ASSUME NEW u, NEW began
  PROVE  /\ NewSession(u, began).status = "unrevoked"
         /\ NewSession(u, began).owner = u
         /\ NewSession(u, began).generation = 0
  BY DEF NewSession

(* A sign-in takes one unused row for its account and revokes the rows it  *)
(* holds; nothing else changes.                                            *)
LEMMA SignInCommits ==
  ASSUME TypeOK, HeldIsOwned, NEW p \in Requests, CommitSignIn(p)
  PROVE  \E new \in SessionIds :
           /\ session[new].status = "unused"
           /\ session'[new].status = "unrevoked"
           /\ session'[new].owner = request[p].user
           /\ session'[new].generation = 0
           /\ \A s \in SessionIds \ {new} :
                /\ session'[s].owner = session[s].owner
                /\ session'[s].generation = session[s].generation
                /\ s \in Held(p) => session[s].status \in {"unrevoked", "revoked"}
                /\ session'[s].status =
                     IF s \in Held(p) THEN "revoked" ELSE session[s].status
                /\ s \notin Held(p) => session'[s] = session[s]
  <1> DEFINE u == request[p].user
             rows == HeldRevoked(p, "session_limit")
             row == NewSession(u, request[p].began)
  <1>1. PICK new \in SessionIds : /\ session[new].status = "unused"
                                  /\ session' = [rows EXCEPT ![new] = row]
    BY DEF CommitSignIn
  <1>2. session'[new] = row
    BY <1>1 DEF HeldRevoked
  <1>3. \A s \in SessionIds \ {new} :
          session'[s] = IF s \in Held(p) THEN Revoked(s, "session_limit") ELSE session[s]
    BY <1>1 DEF HeldRevoked
  <1>4. \A s \in Held(p) : session[s].status \in {"unrevoked", "revoked"}
    BY SessionsAssumption DEF Held, HeldIsOwned, TypeOK
  <1>5. \A s \in SessionIds \ {new} :
           /\ session'[s].owner = session[s].owner
           /\ session'[s].generation = session[s].generation
           /\ session'[s].status = IF s \in Held(p) THEN "revoked" ELSE session[s].status
    BY <1>3, RevokedFields
  <1> QED BY <1>1, <1>2, <1>3, <1>4, <1>5, NewSessionFields

(* A rotation moves one session to its next token and touches no other row.*)
LEMMA RotateCommits ==
  ASSUME TypeOK, RequestShape, NEW p \in Requests, Rotate(p)
  PROVE  /\ request[p].sid \in SessionIds
         /\ session'[request[p].sid].generation = session[request[p].sid].generation + 1
         /\ \A s \in SessionIds :
              /\ session'[s].owner = session[s].owner
              /\ session'[s].status = session[s].status
              /\ s # request[p].sid => session'[s] = session[s]
  <1>1. request[p].sid \in SessionIds
    BY DEF Rotate, RequestShape
  <1>2. session[request[p].sid] \in Session
    BY <1>1 DEF TypeOK
  <1> QED BY <1>1, <1>2 DEF Rotate, TypeOK, Session

(* A deletion empties the rows it holds and leaves the others alone.       *)
LEMMA DeleteCommits ==
  ASSUME TypeOK, HeldIsOwned, NEW p \in Requests, CommitDelete(p)
  PROVE  \A s \in SessionIds :
           IF s \in Held(p)
           THEN /\ session[s].status \in {"unrevoked", "revoked"}
                /\ session'[s].status = "deleted"
                /\ session'[s].owner = Nobody
                /\ session'[s].generation = 0
           ELSE session'[s] = session[s]
  BY SessionsAssumption DEF CommitDelete, Held, HeldIsOwned, TypeOK, Unused

(* An unrevoked or revoked row names its account, and no other row does.   *)
LEMMA NextKeepsOwners ==
  ASSUME TypeOK, LockInv, [Next]_vars
  PROVE  RowsHaveOwners'
  <1> USE SessionsAssumption DEF LockInv
  <1>1. ASSUME NEW p \in Requests, Arrive(p) PROVE RowsHaveOwners'
    BY <1>1, BeginKeepsRows DEF RowsHaveOwners
  <1>2. ASSUME NEW p \in Requests, LockUser(p) PROVE RowsHaveOwners'
    BY <1>2 DEF LockUser, RowsHaveOwners
  <1>3. ASSUME NEW p \in Requests, Select(p) PROVE RowsHaveOwners'
    BY <1>3 DEF Select, RowsHaveOwners
  <1>4. ASSUME NEW p \in Requests, NEW s \in SessionIds, VisitRow(p, s)
        PROVE  RowsHaveOwners'
    BY <1>4 DEF VisitRow, RowsHaveOwners
  <1>5. ASSUME NEW p \in Requests, CommitSignIn(p) PROVE RowsHaveOwners'
    <2>1. request[p].user \in Users
      BY <1>5 DEF CommitSignIn, Ready, RequestShape
    <2>2. PICK new \in SessionIds :
            /\ session'[new].status = "unrevoked"
            /\ session'[new].owner = request[p].user
            /\ \A s \in SessionIds \ {new} :
                 /\ session'[s].owner = session[s].owner
                 /\ s \in Held(p) => session[s].status \in {"unrevoked", "revoked"}
                 /\ session'[s].status =
                      IF s \in Held(p) THEN "revoked" ELSE session[s].status
      BY <1>5, SignInCommits
    <2> QED BY <2>1, <2>2 DEF RowsHaveOwners
  <1>6. ASSUME NEW p \in Requests, LockRow(p) PROVE RowsHaveOwners'
    BY <1>6 DEF LockRow, RowsHaveOwners
  <1>7. ASSUME NEW p \in Requests, Rotate(p) PROVE RowsHaveOwners'
    BY <1>7, RotateCommits DEF RowsHaveOwners
  <1>8. ASSUME NEW p \in Requests, RevokeReused(p) PROVE RowsHaveOwners'
    BY <1>8, CommitRevokes DEF RevokeReused, RowsHaveOwners
  <1>9. ASSUME NEW p \in Requests, CommitRevokeAll(p) PROVE RowsHaveOwners'
    BY <1>9, CommitRevokes DEF CommitRevokeAll, RowsHaveOwners
  <1>10. ASSUME NEW p \in Requests, CommitReset(p) PROVE RowsHaveOwners'
    BY <1>10, CommitRevokes DEF CommitReset, RowsHaveOwners
  <1>11. ASSUME NEW p \in Requests, BeginRecovery(p) PROVE RowsHaveOwners'
    BY <1>11 DEF BeginRecovery, RowsHaveOwners
  <1>12. ASSUME NEW p \in Requests, CommitChange(p) PROVE RowsHaveOwners'
    BY <1>12, CommitRevokes DEF CommitChange, RowsHaveOwners
  <1>13. ASSUME NEW p \in Requests, CommitBlock(p) PROVE RowsHaveOwners'
    BY <1>13, CommitRevokes DEF CommitBlock, RowsHaveOwners
  <1>14. ASSUME NEW p \in Requests, CommitDelete(p) PROVE RowsHaveOwners'
    BY <1>14, DeleteCommits DEF RowsHaveOwners
  <1>15. ASSUME NEW p \in Requests, Abort(p) PROVE RowsHaveOwners'
    BY <1>15 DEF Abort, RowsHaveOwners
  <1>16. ASSUME NEW s \in SessionIds, RevokeSession(s) PROVE RowsHaveOwners'
    BY <1>16, RevokedFields DEF RevokeSession, TypeOK, RowsHaveOwners
  <1>17. ASSUME NEW s \in SessionIds, Cleanup(s) PROVE RowsHaveOwners'
    BY <1>17, SessionsAssumption DEF Cleanup, Stale, Unused, TypeOK, RowsHaveOwners
  <1>18. ASSUME NEW u \in Users, Unblock(u) PROVE RowsHaveOwners'
    BY <1>18 DEF Unblock, RowsHaveOwners
  <1>19. CASE Tick
    BY <1>19 DEF Tick, RowsHaveOwners
  <1>20. CASE UNCHANGED vars
    BY <1>20 DEF vars, RowsHaveOwners
  <1> QED BY <1>1, <1>2, <1>3, <1>4, <1>5, <1>6, <1>7, <1>8, <1>9, <1>10,
             <1>11, <1>12, <1>13, <1>14, <1>15, <1>16, <1>17, <1>18, <1>19,
             <1>20 DEF Next, Proceed

(* What an arriving and a finished request leave of the requests.          *)
ArrivesAt(p) ==
  /\ request[p] = Idle
  /\ \A q \in Requests \ {p} : request'[q] = request[q]
  /\ request'[p].todo = {}
  /\ \/ request'[p].at \in {"lockUser", "lockRow"}
     \/ request'[p].at = "select" /\ request'[p].kind = "revokeAll"

(* Where a request that arrives is: at the beginning, with nothing left to *)
(* visit.                                                                  *)
LEMMA ArriveEffect ==
  ASSUME TypeOK, NEW p \in Requests, Arrive(p)
  PROVE  ArrivesAt(p)
  BY DEF Arrive, BeginLogin, BeginRevokeAll, BeginReset, BeginBlock, BeginDelete,
         BeginRefresh, BeginChange, Begin, ArrivesAt, TypeOK

(* The fields of an idle slot.                                             *)
LEMMA IdleFields == Idle.at = "idle" /\ Idle.todo = {}
  BY DEF Idle

(* Reading the snapshot changes the one request: it has rows to visit, a   *)
(* selection of its kind.                                                  *)
LEMMA SelectEffect ==
  ASSUME TypeOK, NEW p \in Requests, Select(p)
  PROVE  /\ \A q \in Requests \ {p} : request'[q] = request[q]
         /\ request[p].at = "select"
         /\ request'[p].at = "update"
         /\ request'[p].kind = request[p].kind
         /\ request'[p].user = request[p].user
         /\ request'[p].sid = request[p].sid
         /\ request'[p].todo \in Selections(p)
  <1>1. PICK rows \in Selections(p) :
          request' = [request EXCEPT ![p] = [@ EXCEPT !.at = "update", !.todo = rows]]
    BY DEF Select
  <1>2. request[p] \in Request
    BY DEF TypeOK
  <1> QED BY <1>1, <1>2 DEF Select, TypeOK, Request

(* A request that is over is idle and holds no lock; every other lock      *)
(* stays.                                                                  *)
LEMMA FinishEffect ==
  ASSUME TypeOK, NEW p \in Requests, Finish(p)
  PROVE  /\ request'[p] = Idle
         /\ \A q \in Requests \ {p} : request'[q] = request[q]
         /\ \A u \in Users : userLock[u] # p => userLock'[u] = userLock[u]
         /\ \A s \in SessionIds :
              rowLock'[s] = IF rowLock[s] = p THEN Nobody ELSE rowLock[s]
  BY DEF Finish, Release, TypeOK

(* A transaction at work holds the lock of its user, who exists.           *)
LEMMA NextKeepsUserLocks ==
  ASSUME TypeOK, LockInv, [Next]_vars
  PROVE  UserLockIsHeld'
  <1> USE SessionsAssumption DEF LockInv
  <1>1. ASSUME NEW p \in Requests, Arrive(p) PROVE UserLockIsHeld'
    BY <1>1, ArriveEffect, BeginKeepsRows DEF ArrivesAt, UserLockIsHeld,
        InTransaction
  <1>2. ASSUME NEW p \in Requests, LockUser(p) PROVE UserLockIsHeld'
    BY <1>2 DEF LockUser, RequestShape, TypeOK, Request, PassesUnderLock,
        UserFree, UserLockIsHeld, InTransaction
  <1>3. ASSUME NEW p \in Requests, Select(p) PROVE UserLockIsHeld'
    <2>1. UNCHANGED <<user, userLock>>
      BY <1>3 DEF Select, locks
    <2> QED BY <1>3, <2>1, SelectEffect DEF UserLockIsHeld, InTransaction

  <1>4. ASSUME NEW p \in Requests, NEW s \in SessionIds, VisitRow(p, s)
        PROVE  UserLockIsHeld'
    BY <1>4 DEF VisitRow, RequestShape, TypeOK, Request, PassesUnderLock,
        UserFree, UserLockIsHeld, InTransaction
  <1>5. ASSUME NEW p \in Requests, CommitSignIn(p) PROVE UserLockIsHeld'
    BY <1>5, FinishEffect, IdleFields DEF CommitSignIn, RequestShape, TypeOK,
        UserLockIsHeld, InTransaction
  <1>6. ASSUME NEW p \in Requests, LockRow(p) PROVE UserLockIsHeld'
    BY <1>6 DEF LockRow, RequestShape, TypeOK, Request, PassesUnderLock, UserFree,
        UserLockIsHeld, InTransaction
  <1>7. ASSUME NEW p \in Requests, Rotate(p) PROVE UserLockIsHeld'
    BY <1>7, FinishEffect, IdleFields DEF Rotate, RequestShape, TypeOK,
        UserLockIsHeld, InTransaction
  <1>8. ASSUME NEW p \in Requests, RevokeReused(p) PROVE UserLockIsHeld'
    BY <1>8, FinishEffect, IdleFields DEF RevokeReused, RequestShape, TypeOK,
        UserLockIsHeld, InTransaction
  <1>9. ASSUME NEW p \in Requests, CommitRevokeAll(p) PROVE UserLockIsHeld'
    BY <1>9, FinishEffect, IdleFields DEF CommitRevokeAll, RequestShape, TypeOK,
        UserLockIsHeld, InTransaction
  <1>10. ASSUME NEW p \in Requests, CommitReset(p) PROVE UserLockIsHeld'
    BY <1>10 DEF CommitReset, Ready, Release, RequestShape, TypeOK, Request,
        UserLockIsHeld, InTransaction
  <1>11. ASSUME NEW p \in Requests, BeginRecovery(p) PROVE UserLockIsHeld'
    <2>1. request[p] \in Request
      BY DEF TypeOK
    <2>2. /\ request'[p].at = "lockUser"
          /\ \A q \in Requests \ {p} : request'[q] = request[q]
      BY <1>11, <2>1 DEF BeginRecovery, TypeOK, Request
    <2>3. UNCHANGED <<user, userLock>>
      BY <1>11 DEF BeginRecovery, locks
    <2> QED BY <2>2, <2>3 DEF UserLockIsHeld, InTransaction
  <1>12. ASSUME NEW p \in Requests, CommitChange(p) PROVE UserLockIsHeld'
    BY <1>12, FinishEffect, IdleFields DEF CommitChange, RequestShape, TypeOK,
        UserLockIsHeld, InTransaction
  <1>13. ASSUME NEW p \in Requests, CommitBlock(p) PROVE UserLockIsHeld'
    BY <1>13, FinishEffect, IdleFields DEF CommitBlock, RequestShape, TypeOK,
        UserLockIsHeld, InTransaction
  <1>14. ASSUME NEW p \in Requests, CommitDelete(p) PROVE UserLockIsHeld'
    <2>1. userLock[request[p].user] = p
      BY <1>14 DEF CommitDelete, Ready, UserLockIsHeld, InTransaction
    <2>2. \A u \in Users \ {request[p].user} : user'[u] = user[u]
      BY <1>14 DEF CommitDelete, TypeOK
    <2> QED BY <1>14, <2>1, <2>2, FinishEffect, IdleFields
            DEF CommitDelete, RequestShape, TypeOK, UserLockIsHeld, InTransaction
  <1>15. ASSUME NEW p \in Requests, Abort(p) PROVE UserLockIsHeld'
    BY <1>15, FinishEffect, IdleFields DEF Abort, RequestShape, TypeOK,
        UserLockIsHeld, InTransaction
  <1>16. ASSUME NEW s \in SessionIds, RevokeSession(s) PROVE UserLockIsHeld'
    BY <1>16 DEF RevokeSession, RequestShape, TypeOK, locks, UserLockIsHeld,
        InTransaction
  <1>17. ASSUME NEW s \in SessionIds, Cleanup(s) PROVE UserLockIsHeld'
    BY <1>17 DEF Cleanup, RequestShape, TypeOK, locks, UserLockIsHeld, InTransaction
  <1>18. ASSUME NEW u \in Users, Unblock(u) PROVE UserLockIsHeld'
    BY <1>18 DEF Unblock, RequestShape, TypeOK, locks, UserLockIsHeld, InTransaction
  <1>19. CASE Tick
    BY <1>19 DEF Tick, RequestShape, TypeOK, locks, UserLockIsHeld, InTransaction
  <1>20. CASE UNCHANGED vars
    BY <1>20 DEF vars, RequestShape, TypeOK, locks, UserLockIsHeld, InTransaction
  <1> QED BY <1>1, <1>2, <1>3, <1>4, <1>5, <1>6, <1>7, <1>8, <1>9, <1>10,
             <1>11, <1>12, <1>13, <1>14, <1>15, <1>16, <1>17, <1>18, <1>19,
             <1>20 DEF Next, Proceed

(* A row keeps its account until it is deleted, and is deleted for good.   *)
RowsMove ==
  \A s \in SessionIds :
    /\ session[s].status = "deleted" => session'[s].status = "deleted"
    /\ session[s].status # "unused" =>
         \/ session'[s].owner = session[s].owner
         \/ session'[s].status = "deleted"

(* A deleted row stays deleted, and a used row keeps its account until it  *)
(* is deleted.                                                             *)
LEMMA NextMovesRows ==
  ASSUME TypeOK, LockInv, [Next]_vars
  PROVE  RowsMove
  <1> USE SessionsAssumption DEF LockInv
  <1>1. ASSUME NEW p \in Requests, Arrive(p) PROVE RowsMove
    BY <1>1, BeginKeepsRows DEF RowsMove
  <1>2. ASSUME NEW p \in Requests, LockUser(p) PROVE RowsMove
    BY <1>2 DEF LockUser, RowsMove
  <1>3. ASSUME NEW p \in Requests, Select(p) PROVE RowsMove
    BY <1>3 DEF Select, RowsMove
  <1>4. ASSUME NEW p \in Requests, NEW s \in SessionIds, VisitRow(p, s)
        PROVE  RowsMove
    BY <1>4 DEF VisitRow, RowsMove
  <1>5. ASSUME NEW p \in Requests, CommitSignIn(p) PROVE RowsMove
    BY <1>5, SignInCommits DEF RowsMove
  <1>6. ASSUME NEW p \in Requests, LockRow(p) PROVE RowsMove
    BY <1>6 DEF LockRow, RowsMove
  <1>7. ASSUME NEW p \in Requests, Rotate(p) PROVE RowsMove
    BY <1>7, RotateCommits DEF RowsMove
  <1>8. ASSUME NEW p \in Requests, RevokeReused(p) PROVE RowsMove
    BY <1>8, CommitRevokes DEF RevokeReused, RowsMove
  <1>9. ASSUME NEW p \in Requests, CommitRevokeAll(p) PROVE RowsMove
    BY <1>9, CommitRevokes DEF CommitRevokeAll, RowsMove
  <1>10. ASSUME NEW p \in Requests, CommitReset(p) PROVE RowsMove
    BY <1>10, CommitRevokes DEF CommitReset, RowsMove
  <1>11. ASSUME NEW p \in Requests, BeginRecovery(p) PROVE RowsMove
    BY <1>11 DEF BeginRecovery, RowsMove
  <1>12. ASSUME NEW p \in Requests, CommitChange(p) PROVE RowsMove
    BY <1>12, CommitRevokes DEF CommitChange, RowsMove
  <1>13. ASSUME NEW p \in Requests, CommitBlock(p) PROVE RowsMove
    BY <1>13, CommitRevokes DEF CommitBlock, RowsMove
  <1>14. ASSUME NEW p \in Requests, CommitDelete(p) PROVE RowsMove
    BY <1>14, DeleteCommits DEF RowsMove
  <1>15. ASSUME NEW p \in Requests, Abort(p) PROVE RowsMove
    BY <1>15 DEF Abort, RowsMove
  <1>16. ASSUME NEW s \in SessionIds, RevokeSession(s) PROVE RowsMove
    BY <1>16, RevokedFields DEF RevokeSession, TypeOK, RowsMove
  <1>17. ASSUME NEW s \in SessionIds, Cleanup(s) PROVE RowsMove
    BY <1>17, SessionsAssumption DEF Cleanup, Stale, Unused, TypeOK, RowsMove
  <1>18. ASSUME NEW u \in Users, Unblock(u) PROVE RowsMove
    BY <1>18 DEF Unblock, RowsMove
  <1>19. CASE Tick
    BY <1>19 DEF Tick, RowsMove
  <1>20. CASE UNCHANGED vars
    BY <1>20 DEF vars, RowsMove
  <1> QED BY <1>1, <1>2, <1>3, <1>4, <1>5, <1>6, <1>7, <1>8, <1>9, <1>10,
             <1>11, <1>12, <1>13, <1>14, <1>15, <1>16, <1>17, <1>18, <1>19,
             <1>20 DEF Next, Proceed

(* The rows a request has still to visit are its user's, or are gone.      *)
LEMMA NextKeepsTodo ==
  ASSUME TypeOK, LockInv, [Next]_vars
  PROVE  TodoIsOwned'
  <1>0. RowsMove /\ \A p \in Requests : \A s \in request[p].todo :
          session'[s].status = "deleted" \/ session'[s].owner = request[p].user
    <2>1. \A p \in Requests : \A s \in request[p].todo :
            s \in SessionIds /\ request[p].user \in Users
      BY DEF TypeOK, Request, LockInv, RequestShape
    <2> QED BY <2>1, NextMovesRows DEF RowsMove, LockInv, TodoIsOwned,
        RowsHaveOwners
  <1> USE <1>0, SessionsAssumption
  <1>1. ASSUME NEW p \in Requests, Arrive(p) PROVE TodoIsOwned'
    BY <1>1, ArriveEffect DEF ArrivesAt, TodoIsOwned
  <1>2. ASSUME NEW p \in Requests, LockUser(p) PROVE TodoIsOwned'
    BY <1>2 DEF LockUser, TypeOK, Request, TodoIsOwned
  <1>3. ASSUME NEW p \in Requests, Select(p) PROVE TodoIsOwned'
    <2>1. ASSUME NEW s \in request'[p].todo
          PROVE  session[s].owner = request'[p].user /\ session' = session
      <3>1. /\ request'[p].todo \in Selections(p)
            /\ request'[p].user = request[p].user
            /\ session' = session
        BY <1>3, SelectEffect DEF Select
      <3>2. \A rows \in Selections(p) : rows \subseteq Rows(request[p].user)
        BY DEF Selections, Overflow, Active, Unrevoked, Rows
      <3> QED BY <2>1, <3>1, <3>2 DEF Rows
    <2> QED BY <1>3, <2>1, SelectEffect DEF TodoIsOwned
  <1>4. ASSUME NEW p \in Requests, NEW s \in SessionIds, VisitRow(p, s)
        PROVE  TodoIsOwned'
    BY <1>4 DEF VisitRow, TypeOK, Request, TodoIsOwned
  <1>5. ASSUME NEW p \in Requests, CommitSignIn(p) PROVE TodoIsOwned'
    BY <1>5, FinishEffect, IdleFields DEF CommitSignIn, TodoIsOwned
  <1>6. ASSUME NEW p \in Requests, LockRow(p) PROVE TodoIsOwned'
    BY <1>6 DEF LockRow, TypeOK, Request, TodoIsOwned
  <1>7. ASSUME NEW p \in Requests, Rotate(p) PROVE TodoIsOwned'
    <2>1. Finish(p)
      BY <1>7 DEF Rotate
    <2> QED BY <2>1, FinishEffect, IdleFields DEF TodoIsOwned
  <1>8. ASSUME NEW p \in Requests, RevokeReused(p) PROVE TodoIsOwned'
    BY <1>8, FinishEffect, IdleFields DEF RevokeReused, TodoIsOwned
  <1>9. ASSUME NEW p \in Requests, CommitRevokeAll(p) PROVE TodoIsOwned'
    BY <1>9, FinishEffect, IdleFields DEF CommitRevokeAll, TodoIsOwned
  <1>10. ASSUME NEW p \in Requests, CommitReset(p) PROVE TodoIsOwned'
    BY <1>10 DEF CommitReset, TypeOK, Request, TodoIsOwned
  <1>11. ASSUME NEW p \in Requests, BeginRecovery(p) PROVE TodoIsOwned'
    BY <1>11 DEF BeginRecovery, TypeOK, Request, TodoIsOwned
  <1>12. ASSUME NEW p \in Requests, CommitChange(p) PROVE TodoIsOwned'
    BY <1>12, FinishEffect, IdleFields DEF CommitChange, TodoIsOwned
  <1>13. ASSUME NEW p \in Requests, CommitBlock(p) PROVE TodoIsOwned'
    BY <1>13, FinishEffect, IdleFields DEF CommitBlock, TodoIsOwned
  <1>14. ASSUME NEW p \in Requests, CommitDelete(p) PROVE TodoIsOwned'
    <2>1. Finish(p)
      BY <1>14 DEF CommitDelete
    <2> QED BY <2>1, FinishEffect, IdleFields DEF TodoIsOwned
  <1>15. ASSUME NEW p \in Requests, Abort(p) PROVE TodoIsOwned'
    BY <1>15, FinishEffect, IdleFields DEF Abort, TodoIsOwned
  <1>16. ASSUME NEW s \in SessionIds, RevokeSession(s) PROVE TodoIsOwned'
    BY <1>16 DEF RevokeSession, TodoIsOwned
  <1>17. ASSUME NEW s \in SessionIds, Cleanup(s) PROVE TodoIsOwned'
    BY <1>17 DEF Cleanup, TodoIsOwned
  <1>18. ASSUME NEW u \in Users, Unblock(u) PROVE TodoIsOwned'
    BY <1>18 DEF Unblock, TodoIsOwned
  <1>19. CASE Tick
    BY <1>19 DEF Tick, TodoIsOwned
  <1>20. CASE UNCHANGED vars
    BY <1>20 DEF vars, TodoIsOwned
  <1> QED BY <1>1, <1>2, <1>3, <1>4, <1>5, <1>6, <1>7, <1>8, <1>9, <1>10,
             <1>11, <1>12, <1>13, <1>14, <1>15, <1>16, <1>17, <1>18, <1>19,
             <1>20 DEF Next, Proceed

(* A locked row exists, and the request that holds it works for its user.  *)
LEMMA NextKeepsHeld ==
  ASSUME TypeOK, LockInv, [Next]_vars
  PROVE  HeldIsOwned'
  <1> USE SessionsAssumption DEF LockInv
  <1>1. ASSUME NEW p \in Requests, Arrive(p) PROVE HeldIsOwned'
    BY <1>1, ArriveEffect, BeginKeepsRows, IdleFields DEF ArrivesAt, TypeOK,
        HeldIsOwned
  <1>2. ASSUME NEW p \in Requests, LockUser(p) PROVE HeldIsOwned'
    BY <1>2 DEF LockUser, locks, TypeOK, Request, HeldIsOwned
  <1>3. ASSUME NEW p \in Requests, Select(p) PROVE HeldIsOwned'
    <2>1. UNCHANGED <<session, rowLock>>
      BY <1>3 DEF Select, locks
    <2> QED BY <1>3, <2>1, SelectEffect DEF HeldIsOwned, TypeOK
  <1>4. ASSUME NEW p \in Requests, NEW s \in SessionIds, VisitRow(p, s)
        PROVE  HeldIsOwned'
    <2>1. /\ request[p].at = "update" /\ s \in request[p].todo
          /\ request' = [request EXCEPT ![p].todo = @ \ {s}]
          /\ rowLock' = [rowLock EXCEPT ![s] = IF StillMatches(p, s) THEN p ELSE Nobody]
          /\ session' = session
      BY <1>4 DEF VisitRow
    <2>2. StillMatches(p, s) =>
            /\ session[s].status \in {"unrevoked", "revoked"}
            /\ session[s].owner = request[p].user
            /\ session[s].status = "revoked"
                 => request[p].kind \in SignIn \cup {"delete"}
      BY <2>1 DEF StillMatches, TodoIsOwned
    <2>3. \A q \in Requests : /\ request'[q].at = request[q].at
                              /\ request'[q].user = request[q].user
                              /\ request'[q].kind = request[q].kind
      BY <2>1 DEF TypeOK, Request
    <2>4. \A r \in SessionIds : rowLock'[r] = rowLock[r] \/ r = s
      BY <2>1 DEF TypeOK
    <2>5. rowLock'[s] = IF StillMatches(p, s) THEN p ELSE Nobody
      BY <1>4, <2>1 DEF TypeOK
    <2> DEFINE Owned(r) ==
          /\ request'[rowLock'[r]].at \in {"update", "decide"}
          /\ session[r].status \in {"unrevoked", "revoked"}
          /\ session[r].owner = request'[rowLock'[r]].user
          /\ session[r].status = "revoked"
               => request'[rowLock'[r]].kind \in SignIn \cup {"delete"}
    <2>6. ASSUME NEW r \in SessionIds, rowLock'[r] # Nobody, r # s PROVE Owned(r)
      <3>1. rowLock'[r] = rowLock[r] /\ rowLock[r] \in Requests
        BY <2>4, <2>6 DEF TypeOK
      <3> QED BY <2>3, <2>6, <3>1 DEF HeldIsOwned
    <2>7. ASSUME rowLock'[s] # Nobody PROVE Owned(s)
      <3>1. StillMatches(p, s) /\ rowLock'[s] = p
        BY <2>5, <2>7
      <3>2. /\ session[s].status \in {"unrevoked", "revoked"}
            /\ session[s].owner = request[p].user
            /\ session[s].status = "revoked"
                 => request[p].kind \in SignIn \cup {"delete"}
        BY <2>2, <3>1
      <3>3. /\ request'[p].at = "update"
            /\ request'[p].user = request[p].user
            /\ request'[p].kind = request[p].kind
        BY <2>1, <2>3
      <3> QED BY <3>1, <3>2, <3>3
    <2> QED BY <2>1, <2>6, <2>7 DEF HeldIsOwned
  <1>5. ASSUME NEW p \in Requests, CommitSignIn(p) PROVE HeldIsOwned'
    <2>1. Finish(p)
      BY <1>5 DEF CommitSignIn
    <2>2. PICK new \in SessionIds :
            /\ session[new].status = "unused"
            /\ \A s \in SessionIds \ {new} : s \notin Held(p) => session'[s] = session[s]
      BY <1>5, SignInCommits
    <2>3. rowLock[new] = Nobody
      BY <2>2 DEF HeldIsOwned
    <2> QED BY <2>1, <2>2, <2>3, FinishEffect DEF Held, HeldIsOwned, TypeOK
  <1>6. ASSUME NEW p \in Requests, LockRow(p) PROVE HeldIsOwned'
    <2>1. request[p].sid \in SessionIds /\ request[p].at = "lockRow"
      BY <1>6 DEF LockRow, RequestShape
    <2> QED BY <1>6, <2>1 DEF LockRow, Valid, HeldIsOwned, TypeOK, Request
  <1>7. ASSUME NEW p \in Requests, Rotate(p) PROVE HeldIsOwned'
    <2>1. Finish(p)
      BY <1>7 DEF Rotate
    <2> QED BY <1>7, <2>1, FinishEffect, RotateCommits DEF Held, HeldIsOwned, TypeOK
  <1>8. ASSUME NEW p \in Requests, RevokeReused(p) PROVE HeldIsOwned'
    <2>1. Finish(p)
      BY <1>8 DEF RevokeReused
    <2> QED BY <1>8, <2>1, FinishEffect, CommitRevokes DEF RevokeReused, Held,
        HeldIsOwned, TypeOK
  <1>9. ASSUME NEW p \in Requests, CommitRevokeAll(p) PROVE HeldIsOwned'
    <2>1. Finish(p)
      BY <1>9 DEF CommitRevokeAll
    <2> QED BY <1>9, <2>1, FinishEffect, CommitRevokes DEF CommitRevokeAll, Held,
        HeldIsOwned, TypeOK
  <1>10. ASSUME NEW p \in Requests, CommitReset(p) PROVE HeldIsOwned'
    <2>1. /\ \A q \in Requests \ {p} : request'[q] = request[q]
          /\ \A s \in SessionIds :
               rowLock'[s] = IF rowLock[s] = p THEN Nobody ELSE rowLock[s]
          /\ session' = HeldRevoked(p, "password_reset")
      BY <1>10 DEF CommitReset, Release, TypeOK
    <2> QED BY <2>1, CommitRevokes DEF Held, HeldIsOwned, TypeOK
  <1>11. ASSUME NEW p \in Requests, BeginRecovery(p) PROVE HeldIsOwned'
    BY <1>11 DEF BeginRecovery, locks, TypeOK, Request, HeldIsOwned
  <1>12. ASSUME NEW p \in Requests, CommitChange(p) PROVE HeldIsOwned'
    <2>1. Finish(p)
      BY <1>12 DEF CommitChange
    <2> QED BY <1>12, <2>1, FinishEffect, CommitRevokes DEF CommitChange, Held,
        HeldIsOwned, TypeOK
  <1>13. ASSUME NEW p \in Requests, CommitBlock(p) PROVE HeldIsOwned'
    <2>1. Finish(p)
      BY <1>13 DEF CommitBlock
    <2> QED BY <1>13, <2>1, FinishEffect, CommitRevokes DEF CommitBlock, Held,
        HeldIsOwned, TypeOK
  <1>14. ASSUME NEW p \in Requests, CommitDelete(p) PROVE HeldIsOwned'
    <2>1. Finish(p)
      BY <1>14 DEF CommitDelete
    <2> QED BY <1>14, <2>1, FinishEffect, DeleteCommits DEF Held, HeldIsOwned,
        TypeOK
  <1>15. ASSUME NEW p \in Requests, Abort(p) PROVE HeldIsOwned'
    <2>1. Finish(p)
      BY <1>15 DEF Abort
    <2> QED BY <1>15, <2>1, FinishEffect, IdleFields DEF Abort, Held, HeldIsOwned,
        TypeOK
  <1>16. ASSUME NEW s \in SessionIds, RevokeSession(s) PROVE HeldIsOwned'
    BY <1>16, RevokedFields DEF RevokeSession, RowFree, locks, TypeOK, HeldIsOwned
  <1>17. ASSUME NEW s \in SessionIds, Cleanup(s) PROVE HeldIsOwned'
    BY <1>17, RevokedFields DEF Cleanup, RowFree, locks, TypeOK, HeldIsOwned
  <1>18. ASSUME NEW u \in Users, Unblock(u) PROVE HeldIsOwned'
    BY <1>18 DEF Unblock, locks, HeldIsOwned
  <1>19. CASE Tick
    BY <1>19 DEF Tick, locks, HeldIsOwned
  <1>20. CASE UNCHANGED vars
    BY <1>20 DEF vars, locks, HeldIsOwned
  <1> QED BY <1>1, <1>2, <1>3, <1>4, <1>5, <1>6, <1>7, <1>8, <1>9, <1>10,
             <1>11, <1>12, <1>13, <1>14, <1>15, <1>16, <1>17, <1>18, <1>19,
             <1>20 DEF Next, Proceed

(* Only a sign-in adds a row, and it holds the lock of its user.           *)
OpensFor(u) == \E p \in Requests : CommitSignIn(p) /\ request[p].user = u

RowsShrink ==
  \A u \in Users : OpensFor(u) \/ /\ Rows(u)' \subseteq Rows(u)
                                  /\ Unrevoked(u)' \subseteq Unrevoked(u)

(* No step but a sign-in of the account adds to its rows, or to those that *)
(* are unrevoked.                                                          *)
LEMMA NextShrinksRows ==
  ASSUME TypeOK, LockInv, [Next]_vars
  PROVE  RowsShrink
  <1> USE SessionsAssumption DEF LockInv
  <1>1. ASSUME NEW p \in Requests, Arrive(p) PROVE RowsShrink
    BY <1>1, BeginKeepsRows DEF RowsShrink, OpensFor, Rows, Unrevoked
  <1>2. ASSUME NEW p \in Requests, LockUser(p) PROVE RowsShrink
    BY <1>2 DEF LockUser, RowsShrink, OpensFor, Rows, Unrevoked
  <1>3. ASSUME NEW p \in Requests, Select(p) PROVE RowsShrink
    BY <1>3 DEF Select, RowsShrink, OpensFor, Rows, Unrevoked
  <1>4. ASSUME NEW p \in Requests, NEW s \in SessionIds, VisitRow(p, s)
        PROVE  RowsShrink
    BY <1>4 DEF VisitRow, RowsShrink, OpensFor, Rows, Unrevoked
  <1>5. ASSUME NEW p \in Requests, CommitSignIn(p) PROVE RowsShrink
    BY <1>5, SignInCommits DEF RowsShrink, OpensFor, Rows, Unrevoked
  <1>6. ASSUME NEW p \in Requests, LockRow(p) PROVE RowsShrink
    BY <1>6 DEF LockRow, RowsShrink, OpensFor, Rows, Unrevoked
  <1>7. ASSUME NEW p \in Requests, Rotate(p) PROVE RowsShrink
    BY <1>7, RotateCommits DEF RowsShrink, OpensFor, Rows, Unrevoked
  <1>8. ASSUME NEW p \in Requests, RevokeReused(p) PROVE RowsShrink
    BY <1>8, CommitRevokes DEF RevokeReused, RowsShrink, OpensFor, Rows, Unrevoked
  <1>9. ASSUME NEW p \in Requests, CommitRevokeAll(p) PROVE RowsShrink
    BY <1>9, CommitRevokes DEF CommitRevokeAll, RowsShrink, OpensFor, Rows,
        Unrevoked
  <1>10. ASSUME NEW p \in Requests, CommitReset(p) PROVE RowsShrink
    BY <1>10, CommitRevokes DEF CommitReset, RowsShrink, OpensFor, Rows, Unrevoked
  <1>11. ASSUME NEW p \in Requests, BeginRecovery(p) PROVE RowsShrink
    BY <1>11 DEF BeginRecovery, RowsShrink, OpensFor, Rows, Unrevoked
  <1>12. ASSUME NEW p \in Requests, CommitChange(p) PROVE RowsShrink
    BY <1>12, CommitRevokes DEF CommitChange, RowsShrink, OpensFor, Rows, Unrevoked
  <1>13. ASSUME NEW p \in Requests, CommitBlock(p) PROVE RowsShrink
    BY <1>13, CommitRevokes DEF CommitBlock, RowsShrink, OpensFor, Rows, Unrevoked
  <1>14. ASSUME NEW p \in Requests, CommitDelete(p) PROVE RowsShrink
    BY <1>14, DeleteCommits DEF RowsShrink, OpensFor, Rows, Unrevoked
  <1>15. ASSUME NEW p \in Requests, Abort(p) PROVE RowsShrink
    BY <1>15 DEF Abort, RowsShrink, OpensFor, Rows, Unrevoked
  <1>16. ASSUME NEW s \in SessionIds, RevokeSession(s) PROVE RowsShrink
    BY <1>16, RevokedFields DEF RevokeSession, TypeOK, RowsShrink, OpensFor, Rows,
        Unrevoked
  <1>17. ASSUME NEW s \in SessionIds, Cleanup(s) PROVE RowsShrink
    BY <1>17 DEF Cleanup, Unused, TypeOK, RowsShrink, OpensFor, Rows, Unrevoked
  <1>18. ASSUME NEW u \in Users, Unblock(u) PROVE RowsShrink
    BY <1>18 DEF Unblock, RowsShrink, OpensFor, Rows, Unrevoked
  <1>19. CASE Tick
    BY <1>19 DEF Tick, RowsShrink, OpensFor, Rows, Unrevoked
  <1>20. CASE UNCHANGED vars
    BY <1>20 DEF vars, RowsShrink, OpensFor, Rows, Unrevoked
  <1> QED BY <1>1, <1>2, <1>3, <1>4, <1>5, <1>6, <1>7, <1>8, <1>9, <1>10,
             <1>11, <1>12, <1>13, <1>14, <1>15, <1>16, <1>17, <1>18, <1>19,
             <1>20 DEF Next, Proceed

(* While a request is at work, nothing that others do adds to the rows that*)
(* it must change.                                                         *)
LEMMA NoNewTargets ==
  ASSUME TypeOK, LockInv, [Next]_vars, NEW q \in Requests,
         request[q].at = "update", request'[q] = request[q]
  PROVE  Targets(q)' \subseteq Targets(q)
  <1> DEFINE u == request[q].user
  <1>1. u \in Users
    BY DEF LockInv, RequestShape
  <1>2. CASE request[q].kind \in {"reset", "block", "delete", "passwordChange", "emailChange"}
    <2>1. ~OpensFor(u)
      <3>1. userLock[u] = q
        BY <1>2 DEF LockInv, UserLockIsHeld, InTransaction
      <3>2. ASSUME NEW p \in Requests, CommitSignIn(p), request[p].user = u PROVE FALSE
        <4>1. request[p].kind \in SignIn /\ request[p].at = "update"
          BY <3>2 DEF CommitSignIn, Ready
        <4>2. userLock[u] = p
          BY <3>2, <4>1 DEF LockInv, UserLockIsHeld, InTransaction, SignIn
        <4> QED BY <1>2, <3>1, <4>1, <4>2 DEF SignIn
      <3> QED BY <3>2 DEF OpensFor
    <2>2. Rows(u)' \subseteq Rows(u) /\ Unrevoked(u)' \subseteq Unrevoked(u)
      BY <1>1, <2>1, NextShrinksRows DEF RowsShrink
    <2> QED BY <1>2, <2>2 DEF Targets
  <1>3. CASE request[q].kind \notin {"reset", "block", "delete", "passwordChange", "emailChange"}
    BY <1>3 DEF Targets
  <1> QED BY <1>2, <1>3

(* A request whose record and locks a step leaves alone.                   *)
Quiet(q) == request'[q] = request[q] /\ Held(q) \subseteq Held(q)'

(* A step of another leaves q alone, and one of its own leads out of the   *)
(* statement, or begins it, or visits a row.                               *)
Calm(q) ==
  \/ Quiet(q)
  \/ request'[q].at # "update"
  \/ Select(q)
  \/ \E s \in SessionIds : VisitRow(q, s)

(* Only its own steps touch a request and the rows it holds.               *)
LEMMA NextIsCalm ==
  ASSUME TypeOK, LockInv, [Next]_vars, NEW q \in Requests
  PROVE  Calm(q)
  <1> USE SessionsAssumption
  <1>1. ASSUME NEW p \in Requests, Arrive(p) PROVE Calm(q)
    BY <1>1, ArriveEffect, BeginKeepsRows DEF ArrivesAt, Calm, Quiet, Held
  <1>2. ASSUME NEW p \in Requests, LockUser(p) PROVE Calm(q)
    BY <1>2 DEF LockUser, locks, TypeOK, Request, Calm, Quiet, Held
  <1>3. ASSUME NEW p \in Requests, Select(p) PROVE Calm(q)
    BY <1>3, SelectEffect DEF Select, locks, Calm, Quiet, Held
  <1>4. ASSUME NEW p \in Requests, NEW s \in SessionIds, VisitRow(p, s)
        PROVE  Calm(q)
    <2>1. CASE p = q
      BY <1>4, <2>1 DEF Calm
    <2>2. CASE p # q
      BY <1>4, <2>2 DEF VisitRow, RowFree, TypeOK, Calm, Quiet, Held
    <2> QED BY <2>1, <2>2
  <1>5. ASSUME NEW p \in Requests, CommitSignIn(p) PROVE Calm(q)
    <2>1. Finish(p)
      BY <1>5 DEF CommitSignIn
    <2> QED BY <2>1, FinishEffect, IdleFields DEF Calm, Quiet, Held
  <1>6. ASSUME NEW p \in Requests, LockRow(p) PROVE Calm(q)
    <2>1. request[p].sid \in SessionIds
      BY <1>6 DEF LockRow, LockInv, RequestShape
    <2> QED BY <1>6, <2>1 DEF LockRow, RowFree, TypeOK, Request, Calm, Quiet,
        Held
  <1>7. ASSUME NEW p \in Requests, Rotate(p) PROVE Calm(q)
    <2>1. Finish(p)
      BY <1>7 DEF Rotate
    <2> QED BY <2>1, FinishEffect, IdleFields DEF Calm, Quiet, Held
  <1>8. ASSUME NEW p \in Requests, RevokeReused(p) PROVE Calm(q)
    <2>1. Finish(p)
      BY <1>8 DEF RevokeReused
    <2> QED BY <2>1, FinishEffect, IdleFields DEF Calm, Quiet, Held
  <1>9. ASSUME NEW p \in Requests, CommitRevokeAll(p) PROVE Calm(q)
    <2>1. Finish(p)
      BY <1>9 DEF CommitRevokeAll
    <2> QED BY <2>1, FinishEffect, IdleFields DEF Calm, Quiet, Held
  <1>10. ASSUME NEW p \in Requests, CommitReset(p) PROVE Calm(q)
    <2>1. /\ request'[p].at = "verify"
          /\ \A r \in Requests \ {p} : request'[r] = request[r]
          /\ \A s \in SessionIds :
               rowLock'[s] = IF rowLock[s] = p THEN Nobody ELSE rowLock[s]
      BY <1>10 DEF CommitReset, Release, TypeOK, Request
    <2> QED BY <2>1 DEF Calm, Quiet, Held
  <1>11. ASSUME NEW p \in Requests, BeginRecovery(p) PROVE Calm(q)
    BY <1>11 DEF BeginRecovery, locks, TypeOK, Request, Calm, Quiet, Held
  <1>12. ASSUME NEW p \in Requests, CommitChange(p) PROVE Calm(q)
    <2>1. Finish(p)
      BY <1>12 DEF CommitChange
    <2> QED BY <2>1, FinishEffect, IdleFields DEF Calm, Quiet, Held
  <1>13. ASSUME NEW p \in Requests, CommitBlock(p) PROVE Calm(q)
    <2>1. Finish(p)
      BY <1>13 DEF CommitBlock
    <2> QED BY <2>1, FinishEffect, IdleFields DEF Calm, Quiet, Held
  <1>14. ASSUME NEW p \in Requests, CommitDelete(p) PROVE Calm(q)
    <2>1. Finish(p)
      BY <1>14 DEF CommitDelete
    <2> QED BY <2>1, FinishEffect, IdleFields DEF Calm, Quiet, Held
  <1>15. ASSUME NEW p \in Requests, Abort(p) PROVE Calm(q)
    <2>1. Finish(p)
      BY <1>15 DEF Abort
    <2> QED BY <2>1, FinishEffect, IdleFields DEF Calm, Quiet, Held
  <1>16. ASSUME NEW s \in SessionIds, RevokeSession(s) PROVE Calm(q)
    BY <1>16 DEF RevokeSession, locks, Calm, Quiet, Held
  <1>17. ASSUME NEW s \in SessionIds, Cleanup(s) PROVE Calm(q)
    BY <1>17 DEF Cleanup, locks, Calm, Quiet, Held
  <1>18. ASSUME NEW u \in Users, Unblock(u) PROVE Calm(q)
    BY <1>18 DEF Unblock, locks, Calm, Quiet, Held
  <1>19. CASE Tick
    BY <1>19 DEF Tick, locks, Calm, Quiet, Held
  <1>20. CASE UNCHANGED vars
    BY <1>20 DEF vars, locks, Calm, Quiet, Held
  <1> QED BY <1>1, <1>2, <1>3, <1>4, <1>5, <1>6, <1>7, <1>8, <1>9, <1>10,
             <1>11, <1>12, <1>13, <1>14, <1>15, <1>16, <1>17, <1>18, <1>19,
             <1>20 DEF Next, Proceed

Settled(q) == Targets(q)' \subseteq request'[q].todo \cup Held(q)'

(* The snapshot has all targets.                                           *)
LEMMA SelectSettles ==
  ASSUME TypeOK, NEW q \in Requests, Select(q)
  PROVE  Settled(q)
  <1>1. session' = session
    BY DEF Select
  <1>2. Targets(q) \subseteq request'[q].todo
    <2>1. request'[q].todo \in Selections(q)
      BY SelectEffect
    <2> QED BY <2>1 DEF Selections, Targets, SignIn
  <1>3. Targets(q)' = Targets(q)
    <2>1. /\ request'[q].kind = request[q].kind
          /\ request'[q].user = request[q].user
          /\ request'[q].sid = request[q].sid
      BY SelectEffect
    <2> QED BY <1>1, <2>1 DEF Targets, Rows, Unrevoked
  <1> QED BY <1>2, <1>3 DEF Settled

(* What a visit does: the row is no longer to be visited, and is held if   *)
(* it still matches.                                                       *)
LEMMA VisitEffect ==
  ASSUME TypeOK, NEW p \in Requests, NEW s \in SessionIds, VisitRow(p, s)
  PROVE  /\ UNCHANGED <<session, now, revived>>
         /\ request[p].at = "update"
         /\ request'[p].todo = request[p].todo \ {s}
         /\ request'[p].kind = request[p].kind
         /\ request'[p].user = request[p].user
         /\ request'[p].sid = request[p].sid
         /\ Held(p) \subseteq Held(p)'
         /\ StillMatches(p, s) => s \in Held(p)'
  <1>1. request[p] \in Request
    BY DEF TypeOK
  <1> QED BY <1>1, SessionsAssumption
          DEF VisitRow, RowFree, Held, TypeOK, Request, history

(* A visit leaves the other targets to be visited, and holds this one.     *)
LEMMA VisitSettles ==
  ASSUME TypeOK, LockInv, NEW q \in Requests, NEW s \in SessionIds, VisitRow(q, s)
  PROVE  Settled(q)
  <1>1. Targets(q) \subseteq request[q].todo \cup Held(q)
    BY VisitEffect DEF LockInv, TargetsAreCovered
  <1>2. s \in Targets(q) => StillMatches(q, s)
    BY DEF Targets, StillMatches, Rows, Unrevoked, SignIn
  <1>3. Targets(q)' = Targets(q)
    BY VisitEffect DEF Targets, Rows, Unrevoked
  <1> QED BY <1>1, <1>2, <1>3, VisitEffect DEF Settled

(* What a transaction has to revoke or delete, it has visited or will.     *)
LEMMA NextKeepsCovered ==
  ASSUME TypeOK, LockInv, [Next]_vars
  PROVE  TargetsAreCovered'
  <1> SUFFICES ASSUME NEW q \in Requests, request'[q].at = "update"
               PROVE  Targets(q)' \subseteq request'[q].todo \cup Held(q)'
    BY DEF TargetsAreCovered
  <1>1. CASE Quiet(q)
    <2>1. request[q].at = "update" /\ Targets(q)' \subseteq Targets(q)
      BY <1>1, NoNewTargets DEF Quiet
    <2>2. Targets(q) \subseteq request[q].todo \cup Held(q)
      BY <2>1 DEF LockInv, TargetsAreCovered
    <2> QED BY <1>1, <2>1, <2>2 DEF Quiet
  <1>2. CASE ~Quiet(q)
    BY <1>2, NextIsCalm, SelectSettles, VisitSettles DEF Calm, Settled
  <1> QED BY <1>1, <1>2

(* A session that counts for the limit: active, and not rotated after its  *)
(* expiry had passed.                                                      *)
Lasts(s) == Valid(s) /\ s \notin revived

Lasting(u) == Active(u) \ revived

(* Where a session that counts after a step comes from.                    *)
LastedOrOpened ==
  \A s \in SessionIds : Lasts(s)' =>
    \/ Lasts(s) /\ session'[s].owner = session[s].owner
    \/ \E p \in Requests : CommitSignIn(p) /\ request[p].user = session'[s].owner

(* Only a sign-in adds a session that counts: a rotation which revives an  *)
(* expired one is noted in revived, and time only takes sessions away.     *)
LEMMA NextOpensOnlyBySignIn ==
  ASSUME TypeOK, LockInv, [Next]_vars
  PROVE  LastedOrOpened
  <1> USE DEF LastedOrOpened, Lasts, Valid
  <1>0. /\ HeldIsOwned /\ RequestShape
        /\ \A s \in SessionIds : session[s].expires \in Nat /\ now \in Nat
    BY DEF LockInv, TypeOK, Session
  <1>1. CASE UNCHANGED <<session, now, revived>>
    BY <1>1
  <1>2. ASSUME NEW p \in Requests, CommitSignIn(p) PROVE LastedOrOpened
    <2>1. now' = now /\ revived' = revived
      BY <1>2 DEF CommitSignIn
    <2> QED BY <1>0, <1>2, <2>1, SignInCommits
  <1>3. ASSUME NEW p \in Requests, Rotate(p) PROVE LastedOrOpened
    <2>0. PICK s \in SessionIds : s = request[p].sid
      BY <1>0, <1>3, RotateCommits
    <2>1. now' = now /\ revived \subseteq revived'
      BY <1>3 DEF Rotate
    <2>2. \A r \in SessionIds \ {s} : session'[r] = session[r]
      BY <1>0, <1>3, <2>0, RotateCommits
    <2>3. ASSUME Lasts(s)' PROVE Lasts(s) /\ session'[s].owner = session[s].owner
      <3>1. session[s].expires > now
        BY <1>3, <2>0, <2>3 DEF Rotate
      <3>2. session'[s].owner = session[s].owner /\ session'[s].status = session[s].status
        BY <1>0, <1>3, RotateCommits
      <3> QED BY <1>0, <2>1, <2>3, <3>1, <3>2
    <2> QED BY <2>1, <2>2, <2>3
  <1>4. ASSUME NEW p \in Requests, NEW reason, session' = HeldRevoked(p, reason),
               UNCHANGED <<now, revived>>
        PROVE  LastedOrOpened
    BY <1>0, <1>4, CommitRevokes
  <1>5. ASSUME NEW p \in Requests, CommitDelete(p) PROVE LastedOrOpened
    <2>1. now' = now /\ revived' = revived
      BY <1>5 DEF CommitDelete, history
    <2> QED BY <1>0, <1>5, <2>1, DeleteCommits
  <1>6. ASSUME NEW s \in SessionIds, RevokeSession(s) PROVE LastedOrOpened
    BY <1>0, <1>6, RevokedFields DEF RevokeSession, TypeOK, history
  <1>7. ASSUME NEW s \in SessionIds, Cleanup(s) PROVE LastedOrOpened
    BY <1>0, <1>7 DEF Cleanup, Unused, TypeOK, history
  <1>8. ASSUME NEW p \in Requests, Proceed(p) PROVE LastedOrOpened
    BY <1>1, <1>2, <1>3, <1>4, <1>5, <1>8
       DEF Proceed, LockUser, Select, VisitRow, LockRow, RevokeReused, CommitRevokeAll,
           CommitReset, BeginRecovery, CommitChange, CommitBlock, history
  <1>9. ASSUME NEW p \in Requests, Arrive(p) PROVE LastedOrOpened
    BY <1>1, <1>9, BeginKeepsRows
  <1>10. ASSUME NEW p \in Requests, Abort(p) PROVE LastedOrOpened
    BY <1>1, <1>10 DEF Abort, history
  <1>11. ASSUME NEW u \in Users, Unblock(u) PROVE LastedOrOpened
    BY <1>1, <1>11 DEF Unblock, history
  <1>12. CASE UNCHANGED vars
    BY <1>1, <1>12 DEF vars
  <1>13. CASE Tick
    BY <1>0, <1>13 DEF Tick, history
  <1> QED BY <1>6, <1>7, <1>8, <1>9, <1>10, <1>11, <1>12, <1>13 DEF Next

(* The sessions that count for an account grow only by a sign-in to it.    *)
LEMMA NextShrinksLasting ==
  ASSUME TypeOK, LockInv, [Next]_vars, NEW u \in Users, ~OpensFor(u)
  PROVE  Lasting(u)' \subseteq Lasting(u)
  BY NextOpensOnlyBySignIn
     DEF LastedOrOpened, Lasts, Lasting, Active, Unrevoked, Valid, OpensFor

(* Any set of sessions is finite, and a subset of it is no larger.         *)
LEMMA FewerSessions ==
  ASSUME NEW S \in SUBSET SessionIds, NEW T \in SUBSET S
  PROVE  /\ IsFiniteSet(S) /\ IsFiniteSet(T)
         /\ Cardinality(S) \in Nat /\ Cardinality(T) \in Nat
         /\ Cardinality(T) <= Cardinality(S)
  BY SessionsAssumption, FS_Subset, FS_CardinalityType

(* The sessions that count and that a sign-in leaves as they are.          *)
Spared(q) == Lasting(request[q].user) \ (request[q].todo \cup Held(q))

(* There is room for one more next to those that a sign-in spares.         *)
HasRoom(q) == Cardinality(Spared(q)) < MaxActive

(* What the statement of a sign-in does not select leaves it room.         *)
LEMMA SelectMakesRoom ==
  ASSUME TypeOK, NEW q \in Requests, Select(q), request[q].kind \in SignIn
  PROVE  HasRoom(q)'
  <1> DEFINE u == request[q].user
             over == request'[q].todo
  <1>1. over \in Overflow(u)
    <2>1. Selections(q) = Overflow(u)
      BY DEF Selections, SignIn
    <2> QED BY <2>1, SelectEffect
  <1>2. Cardinality(Active(u) \ over) < MaxActive
    BY <1>1 DEF Overflow
  <1>3. /\ request'[q].user = u
        /\ UNCHANGED <<session, now, revived>>
    BY SelectEffect DEF Select, history
  <1>4. Spared(q)' \subseteq Active(u) \ over
    BY <1>3 DEF Spared, Lasting, Active, Unrevoked, Valid
  <1>5. Active(u) \ over \subseteq SessionIds
    BY DEF Active, Unrevoked
  <1> HIDE DEF u, over
  <1>6. Cardinality(Spared(q)') <= Cardinality(Active(u) \ over)
    BY <1>4, <1>5, FewerSessions
  <1>7. /\ Cardinality(Spared(q)') \in Nat
        /\ Cardinality(Active(u) \ over) \in Nat
    BY <1>4, <1>5, FewerSessions
  <1> QED BY <1>2, <1>6, <1>7, SessionsAssumption DEF HasRoom

(* No step of others, and no visit, adds to what a sign-in spares.         *)
LEMMA NextKeepsRoom ==
  ASSUME TypeOK, LockInv, [Next]_vars
  PROVE  RoomIsMade'
  <1> SUFFICES ASSUME NEW q \in Requests, request'[q].kind \in SignIn,
                      request'[q].at = "update"
               PROVE  HasRoom(q)'
    BY DEF RoomIsMade, HasRoom, Spared, Lasting
  <1>1. ASSUME request[q].kind \in SignIn, request[q].at = "update",
               Spared(q)' \subseteq Spared(q)
        PROVE  HasRoom(q)'
    <2>1. Cardinality(Spared(q)) < MaxActive
      BY <1>1 DEF LockInv, RoomIsMade, Spared, Lasting
    <2>2. Spared(q) \subseteq SessionIds
      BY DEF Spared, Lasting, Active, Unrevoked
    <2>3. /\ Cardinality(Spared(q)') <= Cardinality(Spared(q))
          /\ Cardinality(Spared(q)') \in Nat /\ Cardinality(Spared(q)) \in Nat
      BY <1>1, <2>2, FewerSessions
    <2> QED BY <2>1, <2>3, SessionsAssumption DEF HasRoom
  <1>2. CASE Quiet(q)
    <2>1. request'[q] = request[q]
      BY <1>2 DEF Quiet
    <2>2. PICK u \in Users : u = request[q].user /\ userLock[u] = q
      BY <2>1 DEF SignIn, LockInv, RequestShape, UserLockIsHeld, InTransaction
    <2>3. ~OpensFor(u)
      <3> SUFFICES ASSUME NEW p \in Requests, CommitSignIn(p), request[p].user = u
                   PROVE  FALSE
        BY DEF OpensFor
      <3>1. userLock[u] = p
        BY DEF CommitSignIn, Ready, SignIn, LockInv, UserLockIsHeld, InTransaction
      <3>2. request'[p].at = "idle"
        BY FinishEffect, IdleFields DEF CommitSignIn
      <3> QED BY <2>1, <2>2, <3>1, <3>2
    <2>4. Lasting(u)' \subseteq Lasting(u)
      BY <2>2, <2>3, NextShrinksLasting
    <2>5. Spared(q)' \subseteq Spared(q)
      BY <1>2, <2>1, <2>2, <2>4 DEF Spared, Quiet
    <2> QED BY <1>1, <2>1, <2>5
  <1>3. CASE Select(q)
    BY <1>3, SelectMakesRoom, SelectEffect
  <1>4. ASSUME NEW s \in SessionIds, VisitRow(q, s) PROVE HasRoom(q)'
    <2>1. StillMatches(q, s) \/ s \notin Lasting(request[q].user)
      BY DEF StillMatches, Lasting, Active, Unrevoked
    <2>2. /\ request[q].kind \in SignIn /\ request[q].at = "update"
          /\ request'[q].todo = request[q].todo \ {s}
          /\ request'[q].user = request[q].user
          /\ Held(q) \subseteq Held(q)'
          /\ StillMatches(q, s) => s \in Held(q)'
          /\ UNCHANGED <<session, now, revived>>
      BY <1>4, VisitEffect
    <2>3. Lasting(request[q].user)' = Lasting(request[q].user)
      BY <2>2 DEF Lasting, Active, Unrevoked, Valid
    <2>4. Spared(q)' \subseteq Spared(q)
      <3>1. Spared(q)' = Lasting(request[q].user)
                           \ ((request[q].todo \ {s}) \cup Held(q)')
        BY <2>2, <2>3 DEF Spared, Lasting, Active, Unrevoked, Valid
      <3> QED BY <2>1, <2>2, <3>1 DEF Spared
    <2> QED BY <1>1, <2>2, <2>4
  <1> QED BY <1>2, <1>3, <1>4, NextIsCalm DEF Calm

(* Nothing moves the row that a refresh has decided about but the refresh. *)
Decided(q) == request'[q].at = "decide" =>
  LET s == request'[q].sid IN
  /\ rowLock'[s] = q
  /\ session'[s].status = "unrevoked"
  /\ request'[q].matches => request'[q].generation = session'[s].generation

(* What a refresh has decided about its row and token stays true until it  *)
(* acts on it.                                                             *)
LEMMA NextKeepsDecisions ==
  ASSUME TypeOK, LockInv, [Next]_vars, NEW q \in Requests
  PROVE  Decided(q)
  <1> USE SessionsAssumption
  <1>0. request[q].at = "decide" =>
          /\ request[q].sid \in SessionIds
          /\ rowLock[request[q].sid] = q
          /\ session[request[q].sid].status = "unrevoked"
          /\ request[q].matches =>
               request[q].generation = session[request[q].sid].generation
    BY DEF LockInv, RequestShape, DecisionHolds
  <1>00. HeldIsOwned /\ RequestShape
    BY DEF LockInv
  <1> USE <1>00
  <1>1. ASSUME NEW p \in Requests, Arrive(p) PROVE Decided(q)
    <2>1. /\ request'[q] = request[q] \/ request'[q].at # "decide"
          /\ session' = session /\ rowLock' = rowLock
      BY <1>1, ArriveEffect, BeginKeepsRows DEF ArrivesAt
    <2> QED BY <1>0, <2>1 DEF Decided
  <1>2. ASSUME NEW p \in Requests, LockUser(p) PROVE Decided(q)
    BY <1>2, <1>0 DEF LockUser, locks, TypeOK, Request, Decided
  <1>3. ASSUME NEW p \in Requests, Select(p) PROVE Decided(q)
    <2>1. /\ request'[q] = request[q] \/ request'[q].at # "decide"
          /\ session' = session /\ rowLock' = rowLock
      BY <1>3, SelectEffect DEF Select, locks
    <2> QED BY <1>0, <2>1 DEF Decided
  <1>4. ASSUME NEW p \in Requests, NEW s \in SessionIds, VisitRow(p, s)
        PROVE  Decided(q)
    <2>1. /\ request[p].at = "update"
          /\ request' = [request EXCEPT ![p].todo = @ \ {s}]
          /\ rowLock[s] = Nobody
          /\ rowLock' = [rowLock EXCEPT ![s] = IF StillMatches(p, s) THEN p ELSE Nobody]
          /\ session' = session
      BY <1>4 DEF VisitRow, RowFree
    <2> QED BY <1>0, <2>1 DEF TypeOK, Request, Decided
  <1>5. ASSUME NEW p \in Requests, CommitSignIn(p) PROVE Decided(q)
    <2>1. Finish(p)
      BY <1>5 DEF CommitSignIn
    <2> QED BY <1>5, <1>0, <2>1, FinishEffect, IdleFields, SignInCommits DEF Held,
        Decided
  <1>6. ASSUME NEW p \in Requests, LockRow(p) PROVE Decided(q)
    <2>1. request[p].sid \in SessionIds /\ session' = session
      BY <1>6 DEF LockRow, LockInv, RequestShape
    <2>2. /\ request[p].at = "lockRow"
          /\ rowLock[request[p].sid] = Nobody
          /\ rowLock' = [rowLock EXCEPT ![request[p].sid] = p]
          /\ session[request[p].sid].status = "unrevoked"
          /\ request' = [request EXCEPT ![p] =
                 [@ EXCEPT !.at = "decide",
                           !.matches =
                              (request[p].generation = session[request[p].sid].generation)]]
      BY <1>6 DEF LockRow, RowFree, Valid
    <2>3. p # q => request'[q] = request[q]
      BY <2>2 DEF TypeOK
    <2>4. p = q => /\ request'[q].sid = request[q].sid
                   /\ request'[q].generation = request[q].generation
                   /\ request'[q].matches =
                       (request[q].generation = session[request[q].sid].generation)
      BY <2>2 DEF TypeOK, Request
    <2>5. CASE p = q
      BY <2>1, <2>2, <2>4, <2>5 DEF TypeOK, Decided
    <2>6. CASE p # q
      BY <1>0, <2>1, <2>2, <2>3, <2>6 DEF TypeOK, Decided
    <2> QED BY <2>5, <2>6
  <1>7. ASSUME NEW p \in Requests, Rotate(p) PROVE Decided(q)
    <2>1. Finish(p) /\ request[p].at = "decide"
      BY <1>7 DEF Rotate
    <2>2. request[p].sid \in SessionIds /\ rowLock[request[p].sid] = p
      BY <2>1 DEF LockInv, RequestShape, DecisionHolds
    <2> QED BY <1>7, <1>0, <2>1, <2>2, FinishEffect, IdleFields,
        RotateCommits DEF Decided
  <1>8. ASSUME NEW p \in Requests, RevokeReused(p) PROVE Decided(q)
    <2>1. Finish(p)
      BY <1>8 DEF RevokeReused
    <2> QED BY <1>8, <1>0, <2>1, FinishEffect, IdleFields, CommitRevokes
        DEF RevokeReused, Held, Decided
  <1>9. ASSUME NEW p \in Requests, CommitRevokeAll(p) PROVE Decided(q)
    <2>1. Finish(p)
      BY <1>9 DEF CommitRevokeAll
    <2> QED BY <1>9, <1>0, <2>1, FinishEffect, IdleFields, CommitRevokes
        DEF CommitRevokeAll, Held, Decided
  <1>10. ASSUME NEW p \in Requests, CommitReset(p) PROVE Decided(q)
    <2>1. /\ request'[p].at = "verify"
          /\ \A r \in Requests \ {p} : request'[r] = request[r]
          /\ \A s \in SessionIds :
               rowLock'[s] = IF rowLock[s] = p THEN Nobody ELSE rowLock[s]
          /\ session' = HeldRevoked(p, "password_reset")
      BY <1>10 DEF CommitReset, Release, TypeOK, Request
    <2> QED BY <1>0, <2>1, CommitRevokes DEF Held, Decided
  <1>11. ASSUME NEW p \in Requests, BeginRecovery(p) PROVE Decided(q)
    BY <1>11, <1>0 DEF BeginRecovery, locks, TypeOK, Request, Decided
  <1>12. ASSUME NEW p \in Requests, CommitChange(p) PROVE Decided(q)
    <2>1. Finish(p)
      BY <1>12 DEF CommitChange
    <2> QED BY <1>12, <1>0, <2>1, FinishEffect, IdleFields, CommitRevokes
        DEF CommitChange, Held, Decided
  <1>13. ASSUME NEW p \in Requests, CommitBlock(p) PROVE Decided(q)
    <2>1. Finish(p)
      BY <1>13 DEF CommitBlock
    <2> QED BY <1>13, <1>0, <2>1, FinishEffect, IdleFields, CommitRevokes
        DEF CommitBlock, Held, Decided
  <1>14. ASSUME NEW p \in Requests, CommitDelete(p) PROVE Decided(q)
    <2>1. Finish(p)
      BY <1>14 DEF CommitDelete
    <2> QED BY <1>14, <1>0, <2>1, FinishEffect, IdleFields, DeleteCommits
        DEF Held, Decided
  <1>15. ASSUME NEW p \in Requests, Abort(p) PROVE Decided(q)
    <2>1. Finish(p)
      BY <1>15 DEF Abort
    <2> QED BY <1>15, <1>0, <2>1, FinishEffect, IdleFields, IdleFields DEF Abort,
        Held, Decided
  <1>16. ASSUME NEW s \in SessionIds, RevokeSession(s) PROVE Decided(q)
    BY <1>16, <1>0, RevokedFields DEF RevokeSession, RowFree, locks, TypeOK, Decided
  <1>17. ASSUME NEW s \in SessionIds, Cleanup(s) PROVE Decided(q)
    BY <1>17, <1>0 DEF Cleanup, RowFree, locks, TypeOK, Decided
  <1>18. ASSUME NEW u \in Users, Unblock(u) PROVE Decided(q)
    BY <1>18, <1>0 DEF Unblock, locks, Decided
  <1>19. CASE Tick
    BY <1>19, <1>0 DEF Tick, locks, Decided
  <1>20. CASE UNCHANGED vars
    BY <1>20, <1>0 DEF vars, locks, Decided
  <1> QED BY <1>1, <1>2, <1>3, <1>4, <1>5, <1>6, <1>7, <1>8, <1>9, <1>10,
             <1>11, <1>12, <1>13, <1>14, <1>15, <1>16, <1>17, <1>18, <1>19,
             <1>20 DEF Next, Proceed

(* Every token that has been exchanged is older than the stored one.       *)
LEMMA NextKeepsSpent ==
  ASSUME TypeOK, LockInv, [Next]_vars
  PROVE  SpentIsPast'
  <1>0. /\ SpentIsPast /\ HeldIsOwned /\ RequestShape
        /\ \A t \in spent : t[1] \in SessionIds /\ t[2] \in Nat
    BY DEF LockInv, TypeOK
  <1>1. ASSUME NEW p \in Requests, Arrive(p) PROVE SpentIsPast'
    BY <1>1, <1>0, BeginKeepsRows DEF SpentIsPast
  <1>2. ASSUME NEW p \in Requests, LockUser(p) PROVE SpentIsPast'
    BY <1>2, <1>0 DEF LockUser, history, SpentIsPast
  <1>3. ASSUME NEW p \in Requests, Select(p) PROVE SpentIsPast'
    BY <1>3, <1>0 DEF Select, history, SpentIsPast
  <1>4. ASSUME NEW p \in Requests, NEW s \in SessionIds, VisitRow(p, s)
        PROVE  SpentIsPast'
    BY <1>4, <1>0 DEF VisitRow, history, SpentIsPast
  <1>5. ASSUME NEW p \in Requests, CommitSignIn(p) PROVE SpentIsPast'
    <2>1. spent' = spent
      BY <1>5 DEF CommitSignIn
    <2> QED BY <1>5, <1>0, <2>1, SignInCommits DEF SpentIsPast
  <1>6. ASSUME NEW p \in Requests, LockRow(p) PROVE SpentIsPast'
    BY <1>6, <1>0 DEF LockRow, history, SpentIsPast
  <1>7. ASSUME NEW p \in Requests, Rotate(p) PROVE SpentIsPast'
    <2> DEFINE s == request[p].sid
    <2>1. /\ spent' = spent \cup {<<s, request[p].generation>>}
          /\ request[p].at = "decide" /\ request[p].matches
      BY <1>7 DEF Rotate
    <2>2. /\ s \in SessionIds /\ session[s].status = "unrevoked"
          /\ request[p].generation = session[s].generation
      BY <2>1 DEF LockInv, RequestShape, DecisionHolds
    <2>3. /\ session'[s].generation = session[s].generation + 1
          /\ session'[s].status = "unrevoked"
          /\ \A r \in SessionIds \ {s} : session'[r] = session[r]
      BY <1>0, <1>7, <2>2, RotateCommits
    <2>4. session[s].generation \in Nat
      BY <2>2 DEF TypeOK, Session
    <2>5. ASSUME NEW t \in spent'
          PROVE  /\ session'[t[1]].status # "unused"
                 /\ session'[t[1]].status # "deleted" => t[2] < session'[t[1]].generation
      <3>1. CASE t \in spent /\ t[1] = s
        BY <1>0, <2>2, <2>3, <2>4, <3>1 DEF SpentIsPast
      <3>2. CASE t \in spent /\ t[1] # s
        BY <1>0, <2>3, <3>2 DEF SpentIsPast
      <3>3. CASE t = <<s, request[p].generation>>
        BY <2>2, <2>3, <2>4, <3>3
      <3> QED BY <2>1, <3>1, <3>2, <3>3
    <2> QED BY <2>5 DEF SpentIsPast
  <1>8. ASSUME NEW p \in Requests, RevokeReused(p) PROVE SpentIsPast'
    BY <1>8, <1>0, CommitRevokes DEF RevokeReused, history, SpentIsPast
  <1>9. ASSUME NEW p \in Requests, CommitRevokeAll(p) PROVE SpentIsPast'
    BY <1>9, <1>0, CommitRevokes DEF CommitRevokeAll, history, SpentIsPast
  <1>10. ASSUME NEW p \in Requests, CommitReset(p) PROVE SpentIsPast'
    BY <1>10, <1>0, CommitRevokes DEF CommitReset, history, SpentIsPast
  <1>11. ASSUME NEW p \in Requests, BeginRecovery(p) PROVE SpentIsPast'
    BY <1>11, <1>0 DEF BeginRecovery, history, SpentIsPast
  <1>12. ASSUME NEW p \in Requests, CommitChange(p) PROVE SpentIsPast'
    BY <1>12, <1>0, CommitRevokes DEF CommitChange, history, SpentIsPast
  <1>13. ASSUME NEW p \in Requests, CommitBlock(p) PROVE SpentIsPast'
    BY <1>13, <1>0, CommitRevokes DEF CommitBlock, history, SpentIsPast
  <1>14. ASSUME NEW p \in Requests, CommitDelete(p) PROVE SpentIsPast'
    <2>1. spent' = spent
      BY <1>14 DEF CommitDelete, history
    <2> QED BY <1>14, <1>0, <2>1, DeleteCommits DEF SpentIsPast
  <1>15. ASSUME NEW p \in Requests, Abort(p) PROVE SpentIsPast'
    BY <1>15, <1>0 DEF Abort, history, SpentIsPast
  <1>16. ASSUME NEW s \in SessionIds, RevokeSession(s) PROVE SpentIsPast'
    BY <1>16, <1>0, RevokedFields DEF RevokeSession, history, TypeOK, SpentIsPast
  <1>17. ASSUME NEW s \in SessionIds, Cleanup(s) PROVE SpentIsPast'
    BY <1>17, <1>0 DEF Cleanup, Unused, history, TypeOK, SpentIsPast
  <1>18. ASSUME NEW u \in Users, Unblock(u) PROVE SpentIsPast'
    BY <1>18, <1>0 DEF Unblock, history, SpentIsPast
  <1>19. CASE Tick
    BY <1>19, <1>0 DEF Tick, history, SpentIsPast
  <1>20. CASE UNCHANGED vars
    BY <1>20, <1>0 DEF vars, history, SpentIsPast
  <1> QED BY <1>1, <1>2, <1>3, <1>4, <1>5, <1>6, <1>7, <1>8, <1>9, <1>10,
             <1>11, <1>12, <1>13, <1>14, <1>15, <1>16, <1>17, <1>18, <1>19,
             <1>20 DEF Next, Proceed

(* Every step keeps the shape of the requests.                             *)
LEMMA NextKeepsShape ==
  ASSUME TypeOK, LockInv, [Next]_vars
  PROVE  RequestShape'
  <1> USE DEF LockInv
  <1>1. ASSUME NEW p \in Requests, Abort(p) PROVE RequestShape'
    BY <1>1, FinishKeepsShape DEF Abort
  <1>2. CASE request' = request
    BY <1>2 DEF RequestShape
  <1>3. ASSUME NEW s \in SessionIds, RevokeSession(s) \/ Cleanup(s)
        PROVE  RequestShape'
    BY <1>2, <1>3 DEF RevokeSession, Cleanup
  <1>4. ASSUME NEW u \in Users, Unblock(u) PROVE RequestShape'
    BY <1>2, <1>4 DEF Unblock
  <1>5. CASE Tick \/ UNCHANGED vars
    BY <1>2, <1>5 DEF Tick, vars
  <1> QED BY <1>1, <1>3, <1>4, <1>5, ArriveKeepsShape, ProceedKeepsShape DEF Next

(* The inductive invariant: it holds at the start and every step keeps it. *)
LEMMA InitIsTyped ==
  ASSUME Init
  PROVE  TypeOK
  BY IdleIsRequest, UnusedIsSession DEF Init, TypeOK, User

(* The inductive invariant holds at the start, when nothing is locked and  *)
(* every slot is idle.                                                     *)
LEMMA InitHoldsLocks ==
  ASSUME Init
  PROVE  LockInv
  BY SessionsAssumption
     DEF Init, Idle, Unused, LockInv, RequestShape, RowsHaveOwners, UserLockIsHeld,
         InTransaction, TodoIsOwned, HeldIsOwned, TargetsAreCovered, RoomIsMade,
         SignIn, DecisionHolds, SpentIsPast

(* Every step keeps every part of the inductive invariant.                 *)
LEMMA NextKeepsLocks ==
  ASSUME TypeOK, LockInv, [Next]_vars
  PROVE  LockInv'
  <1>1. DecisionHolds'
    BY NextKeepsDecisions DEF DecisionHolds, Decided
  <1> QED BY <1>1, NextKeepsShape, NextKeepsOwners, NextKeepsUserLocks,
      NextKeepsTodo,
             NextKeepsHeld, NextKeepsCovered, NextKeepsRoom, NextKeepsSpent DEF LockInv

(* Every variable has its type in every reachable state.  The types are    *)
(* not inductive by themselves: that a refresh which has decided knows its *)
(* session comes from RequestShape.                                        *)
THEOREM TypeCorrect == Spec => []TypeOK
  <1>1. Init => TypeOK /\ LockInv
    BY InitIsTyped, InitHoldsLocks
  <1>2. TypeOK /\ LockInv /\ [Next]_vars => (TypeOK /\ LockInv)'
    <2>1. LockInv => RequestShape
      BY DEF LockInv
    <2> QED BY <2>1, NextIsTyped, NextKeepsLocks
  <1> QED BY <1>1, <1>2, PTL DEF Spec

(* The locks do what the transactions count on: the user row is held from  *)
(* the snapshot to the commit, every row the commit must change has been   *)
(* locked by then, and a decision about a token outlives its own reads.    *)
THEOREM LocksCorrect == Spec => []LockInv
  <1>1. Init => LockInv
    BY InitHoldsLocks
  <1>2. TypeOK /\ LockInv /\ [Next]_vars => LockInv'
    BY NextKeepsLocks
  <1> QED BY <1>1, <1>2, TypeCorrect, PTL DEF Spec

(* The only step that raises a generation is a rotation, and none brings a *)
(* revoked or deleted row back.                                            *)
RowsEnd ==
  \A s \in SessionIds :
    /\ session'[s].generation > session[s].generation
         => \E p \in Requests : Rotate(p) /\ request[p].sid = s
    /\ session[s].status \in {"revoked", "deleted"}
         => session'[s].status \in {"revoked", "deleted"}

(* Only a rotation gives a session its next token, and no step takes a     *)
(* revoked or deleted row back.                                            *)
LEMMA NextEndsRows ==
  ASSUME TypeOK, LockInv, [Next]_vars
  PROVE  RowsEnd
  <1> USE DEF RowsEnd
  <1>0. /\ HeldIsOwned /\ RequestShape
        /\ \A s \in SessionIds : session[s].generation \in Nat
    BY DEF LockInv, TypeOK, Session
  <1>1. CASE session' = session
    BY <1>0, <1>1
  <1>2. ASSUME NEW p \in Requests, CommitSignIn(p) PROVE RowsEnd
    BY <1>0, <1>2, SignInCommits
  <1>3. ASSUME NEW p \in Requests, Rotate(p) PROVE RowsEnd
    BY <1>0, <1>3, RotateCommits
  <1>4. ASSUME NEW p \in Requests, NEW reason, session' = HeldRevoked(p, reason)
        PROVE  RowsEnd
    BY <1>0, <1>4, CommitRevokes
  <1>5. ASSUME NEW p \in Requests, CommitDelete(p) PROVE RowsEnd
    <2>1. Unused.generation = 0 /\ Unused.status = "unused"
      BY DEF Unused
    <2>2. \A s \in SessionIds :
            \/ session'[s] = session[s]
            \/ session'[s] = [Unused EXCEPT !.status = "deleted"]
      BY <1>5 DEF CommitDelete
    <2> QED BY <1>0, <2>2 DEF Unused
  <1>6. ASSUME NEW s \in SessionIds, RevokeSession(s) PROVE RowsEnd
    BY <1>0, <1>6, RevokedFields DEF RevokeSession, TypeOK
  <1>7. ASSUME NEW s \in SessionIds, Cleanup(s) PROVE RowsEnd
    BY <1>0, <1>7 DEF Cleanup, Unused, TypeOK
  <1>8. ASSUME NEW p \in Requests, Proceed(p) PROVE RowsEnd
    BY <1>1, <1>2, <1>3, <1>4, <1>5, <1>8
       DEF Proceed, LockUser, Select, VisitRow, LockRow, RevokeReused, CommitRevokeAll,
           CommitReset, BeginRecovery, CommitChange, CommitBlock
  <1>9. ASSUME NEW p \in Requests, Arrive(p) PROVE RowsEnd
    BY <1>1, <1>9, BeginKeepsRows
  <1>10. ASSUME NEW p \in Requests, Abort(p) PROVE RowsEnd
    BY <1>1, <1>10 DEF Abort
  <1>11. ASSUME NEW u \in Users, Unblock(u) PROVE RowsEnd
    BY <1>1, <1>11 DEF Unblock
  <1>12. CASE Tick \/ UNCHANGED vars
    BY <1>1, <1>12 DEF Tick, vars
  <1> QED BY <1>6, <1>7, <1>8, <1>9, <1>10, <1>11, <1>12 DEF Next

(* A refresh token is exchanged at most once, whatever refreshes overlap:  *)
(* a rotation spends the token whose hash it read under the row lock, and  *)
(* tokens spent before are older than that one.                            *)
THEOREM RefreshOnce == Spec => RefreshAtMostOnce
  <1> DEFINE Step(s) == session'[s].generation > session[s].generation
                          => \E t \in spent' : t \notin spent /\ t[1] = s
  <1>1. TypeOK /\ LockInv /\ [Next]_vars => \A s \in SessionIds : Step(s)
    <2> SUFFICES ASSUME TypeOK, LockInv, [Next]_vars, NEW s \in SessionIds,
                        session'[s].generation > session[s].generation
                 PROVE  \E t \in spent' : t \notin spent /\ t[1] = s
      OBVIOUS
    <2>1. PICK p \in Requests : Rotate(p) /\ request[p].sid = s
      BY NextEndsRows DEF RowsEnd
    <2>2. /\ session[s].status = "unrevoked"
          /\ request[p].generation = session[s].generation
      BY <2>1 DEF Rotate, LockInv, DecisionHolds
    <2> DEFINE token == <<s, request[p].generation>>
    <2>3. token \in spent' /\ token[1] = s /\ token[2] = session[s].generation
      BY <2>1, <2>2 DEF Rotate
    <2>4. session[s].generation \in Nat
      BY DEF TypeOK, Session
    <2>5. token \notin spent
      BY <2>2, <2>3, <2>4 DEF LockInv, SpentIsPast
    <2> QED BY <2>3, <2>5
  <1>2. (\A s \in SessionIds : Step(s)) =>
          [\A s \in SessionIds :
             session'[s].generation > session[s].generation
               => \E t \in spent' : t \notin spent /\ t[1] = s]_vars
    OBVIOUS
  <1> QED BY <1>1, <1>2, TypeCorrect, LocksCorrect, PTL DEF Spec, RefreshAtMostOnce

(* A revoked or deleted session stays so, and its generation rises no      *)
(* more: no refresh that overlaps the revocation hands out a token.        *)
THEOREM RevocationFinal == Spec => RevocationIsFinal
  <1> DEFINE Step(s) == session[s].status \in {"revoked", "deleted"} =>
                          /\ session'[s].status \in {"revoked", "deleted"}
                          /\ session'[s].generation <= session[s].generation
  <1>1. TypeOK /\ LockInv /\ [Next]_vars
          => TypeOK' /\ \A s \in SessionIds : Step(s)
    <2> SUFFICES ASSUME TypeOK, LockInv, [Next]_vars, NEW s \in SessionIds,
                        session[s].status \in {"revoked", "deleted"}
                 PROVE  /\ session'[s].status \in {"revoked", "deleted"}
                        /\ session'[s].generation <= session[s].generation
      BY NextIsTyped DEF LockInv
    <2>1. ~(session'[s].generation > session[s].generation)
      <3> SUFFICES ASSUME NEW p \in Requests, Rotate(p), request[p].sid = s
                   PROVE  FALSE
        BY NextEndsRows DEF RowsEnd
      <3> QED BY DEF Rotate, LockInv, DecisionHolds
    <2>2. session[s].generation \in Nat /\ session'[s].generation \in Nat
      BY NextIsTyped DEF LockInv, TypeOK, Session
    <2> QED BY <2>1, <2>2, NextEndsRows DEF RowsEnd
  <1>2. (\A s \in SessionIds : Step(s)) =>
          [\A s \in SessionIds :
             session[s].status \in {"revoked", "deleted"} =>
               /\ session'[s].status \in {"revoked", "deleted"}
               /\ session'[s].generation <= session[s].generation]_vars
    OBVIOUS
  <1> QED BY <1>1, <1>2, TypeCorrect, LocksCorrect, PTL DEF Spec, RevocationIsFinal

(* Only these steps delete or block an account or change its credentials.  *)
UsersMove ==
  \A u \in Users :
    /\ user[u].exists # user'[u].exists
         => \E p \in Requests : CommitDelete(p) /\ request[p].user = u
    /\ user'[u].blocked /\ ~user[u].blocked
         => \E p \in Requests : CommitBlock(p) /\ request[p].user = u
    /\ user'[u].credential # user[u].credential
         => \E p \in Requests : /\ CommitReset(p) \/ CommitChange(p)
                                /\ request[p].user = u

(* What changes an account is the commit of a request for it: a deletion   *)
(* its existence, a block its block, a reset or change its credential.     *)
LEMMA NextMovesUsers ==
  ASSUME TypeOK, [Next]_vars
  PROVE  UsersMove
  <1> USE DEF UsersMove
  <1>0. \A u \in Users : user[u] \in User
    BY DEF TypeOK
  <1>1. CASE user' = user
    BY <1>1
  <1>2. ASSUME NEW p \in Requests, CommitReset(p) PROVE UsersMove
    BY <1>0, <1>2 DEF CommitReset, TypeOK, User
  <1>3. ASSUME NEW p \in Requests, CommitChange(p) PROVE UsersMove
    BY <1>0, <1>3 DEF CommitChange, TypeOK, User
  <1>4. ASSUME NEW p \in Requests, CommitBlock(p) PROVE UsersMove
    BY <1>0, <1>4 DEF CommitBlock, TypeOK, User
  <1>5. ASSUME NEW p \in Requests, CommitDelete(p) PROVE UsersMove
    BY <1>0, <1>5 DEF CommitDelete, TypeOK, User
  <1>6. ASSUME NEW u \in Users, Unblock(u) PROVE UsersMove
    BY <1>0, <1>6 DEF Unblock, TypeOK, User
  <1>7. ASSUME NEW p \in Requests, Proceed(p) PROVE UsersMove
    BY <1>1, <1>2, <1>3, <1>4, <1>5, <1>7
       DEF Proceed, LockUser, Select, VisitRow, CommitSignIn, LockRow, Rotate,
           RevokeReused, CommitRevokeAll, BeginRecovery
  <1>8. ASSUME NEW p \in Requests, Arrive(p) PROVE UsersMove
    BY <1>1, <1>8, BeginKeepsRows
  <1>9. ASSUME NEW p \in Requests, Abort(p) PROVE UsersMove
    BY <1>1, <1>9 DEF Abort
  <1>10. ASSUME NEW s \in SessionIds, RevokeSession(s) \/ Cleanup(s)
         PROVE  UsersMove
    BY <1>1, <1>10 DEF RevokeSession, Cleanup
  <1>11. CASE Tick \/ UNCHANGED vars
    BY <1>1, <1>11 DEF Tick, vars
  <1> QED BY <1>6, <1>7, <1>8, <1>9, <1>10, <1>11 DEF Next

(* A commit that revokes everything it holds leaves of its user's          *)
(* unrevoked sessions only those that were not among its targets.          *)
LEMMA CommitLeaves ==
  ASSUME TypeOK, LockInv, NEW p \in Requests, NEW reason,
         request[p].at = "update", request[p].todo = {},
         session' = HeldRevoked(p, reason)
  PROVE  {s \in SessionIds : /\ session'[s].owner = request[p].user
                             /\ session'[s].status = "unrevoked"}
           \subseteq Unrevoked(request[p].user) \ Targets(p)
  <1>1. Targets(p) \subseteq Held(p)
    BY DEF LockInv, TargetsAreCovered
  <1> QED BY <1>1, CommitRevokes DEF LockInv, Unrevoked

(* No row of auth_session survives its account: a sign-in holds the lock   *)
(* of the user row it inserts for, and a deletion has locked, when it      *)
(* commits, every row there is.                                            *)
THEOREM NoOrphansEver == Spec => []NoOrphans
  <1>1. Init => NoOrphans
    BY DEF Init, NoOrphans
  <1>2. TypeOK /\ LockInv /\ NoOrphans /\ [Next]_vars => NoOrphans'
    <2> SUFFICES ASSUME TypeOK, LockInv, NoOrphans, [Next]_vars,
                        NEW u \in Users, ~user'[u].exists
                 PROVE  Rows(u)' = {}
      BY DEF NoOrphans
    <2>1. CASE user[u].exists
      <3>1. PICK p \in Requests : CommitDelete(p) /\ request[p].user = u
        BY <2>1, NextMovesUsers DEF UsersMove
      <3>2. Rows(u) \subseteq Held(p)
        BY <3>1 DEF CommitDelete, Ready, LockInv, TargetsAreCovered, Targets
      <3> QED BY <3>1, <3>2, DeleteCommits DEF LockInv, Rows
    <2>2. CASE ~user[u].exists
      <3>1. Rows(u) = {}
        BY <2>2 DEF NoOrphans
      <3>2. ASSUME NEW p \in Requests, CommitSignIn(p), request[p].user = u PROVE FALSE
        BY <2>2, <3>2
           DEF CommitSignIn, Ready, SignIn, LockInv, UserLockIsHeld, InTransaction
      <3>3. Rows(u)' \subseteq Rows(u)
        BY <3>2, NextShrinksRows DEF RowsShrink, OpensFor
      <3> QED BY <3>1, <3>3
    <2> QED BY <2>1, <2>2
  <1> QED BY <1>1, <1>2, TypeCorrect, LocksCorrect, PTL DEF Spec

(* A block that commits leaves the account no unrevoked session: sign-ins  *)
(* that were let in before it have committed and are among the rows it     *)
(* locked, or wait for the user row.                                       *)
THEOREM BlockIsComplete == Spec => BlockRevokesAll
  <1> DEFINE Step(u) == user'[u].blocked /\ ~user[u].blocked => Unrevoked(u)' = {}
  <1>1. TypeOK /\ LockInv /\ [Next]_vars => \A u \in Users : Step(u)
    <2> SUFFICES ASSUME TypeOK, LockInv, [Next]_vars, NEW u \in Users,
                        user'[u].blocked, ~user[u].blocked
                 PROVE  Unrevoked(u)' = {}
      OBVIOUS
    <2>1. PICK p \in Requests : CommitBlock(p) /\ request[p].user = u
      BY NextMovesUsers DEF UsersMove
    <2>2. Targets(p) = Unrevoked(u)
      BY <2>1 DEF CommitBlock, Ready, Targets
    <2> QED BY <2>1, <2>2, CommitLeaves DEF CommitBlock, Ready, Unrevoked
  <1>2. (\A u \in Users : Step(u)) =>
          [\A u \in Users :
             user'[u].blocked /\ ~user[u].blocked => Unrevoked(u)' = {}]_vars
    OBVIOUS
  <1> QED BY <1>1, <1>2, TypeCorrect, LocksCorrect, PTL DEF Spec, BlockRevokesAll

(* A change of credentials that commits leaves the account no unrevoked    *)
(* session but the one the change was asked from.                          *)
THEOREM ChangeIsComplete == Spec => ChangeRevokesOthers
  <1> DEFINE Step(u) == user'[u].credential # user[u].credential
                          => \E p \in Requests :
                               /\ userLock[u] = p
                               /\ Unrevoked(u)' \subseteq {request[p].sid}
  <1>1. TypeOK /\ LockInv /\ [Next]_vars => \A u \in Users : Step(u)
    <2> SUFFICES ASSUME TypeOK, LockInv, [Next]_vars, NEW u \in Users,
                        user'[u].credential # user[u].credential
                 PROVE  \E p \in Requests : /\ userLock[u] = p
                                            /\ Unrevoked(u)' \subseteq {request[p].sid}
      OBVIOUS
    <2>1. PICK p \in Requests : /\ CommitReset(p) \/ CommitChange(p)
                                /\ request[p].user = u
      BY NextMovesUsers DEF UsersMove
    <2>2. /\ Ready(p, {"reset", "passwordChange", "emailChange"})
          /\ \E reason : session' = HeldRevoked(p, reason)
      BY <2>1 DEF CommitReset, CommitChange, Ready
    <2>3. userLock[u] = p
      BY <2>1, <2>2 DEF Ready, LockInv, UserLockIsHeld, InTransaction
    <2>4. Unrevoked(u) \ {request[p].sid} \subseteq Targets(p)
      BY <2>1, <2>2 DEF Ready, Targets
    <2>5. Unrevoked(u)' \subseteq Unrevoked(u) \ Targets(p)
      BY <2>1, <2>2, CommitLeaves DEF Ready, Unrevoked
    <2> QED BY <2>3, <2>4, <2>5
  <1>2. (\A u \in Users : Step(u)) =>
          [\A u \in Users :
             user'[u].credential # user[u].credential
               => \E p \in Requests : /\ userLock[u] = p
                                      /\ Unrevoked(u)' \subseteq {request[p].sid}]_vars
    OBVIOUS
  <1> QED BY <1>1, <1>2, TypeCorrect, LocksCorrect, PTL DEF Spec,
      ChangeRevokesOthers

(* An account has no more active sessions than SESSION_MAX_ACTIVE, those   *)
(* that a late rotation revived left out: the user row that every sign-in  *)
(* locks makes the count of one current until it inserts its row.          *)
THEOREM LimitHolds == Spec => []ActiveLimitButRevived
  <1>1. Init => ActiveLimitButRevived
    <2> SUFFICES ASSUME Init, NEW u \in Users
                 PROVE  Cardinality(Active(u) \ revived) <= MaxActive
      BY DEF ActiveLimitButRevived
    <2>1. Active(u) = {}
      BY DEF Init, Unused, Active, Unrevoked
    <2> QED BY <2>1, FS_EmptySet, SessionsAssumption
  <1>2. TypeOK /\ LockInv /\ ActiveLimitButRevived /\ [Next]_vars
          => ActiveLimitButRevived'
    <2> SUFFICES ASSUME TypeOK, LockInv, ActiveLimitButRevived, [Next]_vars,
                        NEW u \in Users
                 PROVE  Cardinality(Lasting(u)') <= MaxActive
      BY DEF ActiveLimitButRevived, Lasting
    <2>0. Lasting(u) \subseteq SessionIds
      BY DEF Lasting, Active, Unrevoked
    <2>1. CASE ~OpensFor(u)
      <3>1. Lasting(u)' \subseteq Lasting(u) /\ Cardinality(Lasting(u)) <= MaxActive
        BY <2>1, NextShrinksLasting DEF ActiveLimitButRevived, Lasting
      <3>2. /\ Cardinality(Lasting(u)') <= Cardinality(Lasting(u))
            /\ Cardinality(Lasting(u)') \in Nat /\ Cardinality(Lasting(u)) \in Nat
        BY <2>0, <3>1, FewerSessions
      <3> QED BY <3>1, <3>2, SessionsAssumption
    <2>2. ASSUME NEW p \in Requests, CommitSignIn(p), request[p].user = u
          PROVE  Cardinality(Lasting(u)') <= MaxActive
      <3>1. /\ request[p].kind \in SignIn /\ request[p].at = "update"
            /\ request[p].todo = {}
            /\ UNCHANGED <<now, revived>>
        BY <2>2 DEF CommitSignIn, Ready
      <3>2. Cardinality(Spared(p)) < MaxActive
        BY <3>1 DEF LockInv, RoomIsMade, Spared, Lasting
      <3>3. PICK new \in SessionIds : \A s \in SessionIds \ {new} :
              /\ session'[s].status =
                   IF s \in Held(p) THEN "revoked" ELSE session[s].status
              /\ s \notin Held(p) => session'[s] = session[s]
        BY <2>2, SignInCommits DEF LockInv
      <3>4. Lasting(u)' \subseteq Spared(p) \cup {new}
        BY <2>2, <3>1, <3>3 DEF Spared, Lasting, Active, Unrevoked, Valid
      <3>5. Spared(p) \cup {new} \in SUBSET SessionIds
        BY <2>0, <2>2 DEF Spared
      <3>6. Cardinality(Lasting(u)') <= Cardinality(Spared(p) \cup {new})
        BY <3>4, <3>5, FewerSessions
      <3>7. IsFiniteSet(Spared(p)) /\ Cardinality(Spared(p)) \in Nat
        BY <3>5, FewerSessions
      <3>8. Cardinality(Spared(p) \cup {new}) <= Cardinality(Spared(p)) + 1
        BY <3>7, FS_AddElement, SMTT(30)
      <3>9. Cardinality(Lasting(u)') \in Nat /\ Cardinality(Spared(p) \cup {new}) \in Nat
        BY <3>4, <3>5, FewerSessions
      <3> QED BY <3>2, <3>6, <3>7, <3>8, <3>9, SessionsAssumption
    <2> QED BY <2>1, <2>2 DEF OpensFor
  <1> QED BY <1>1, <1>2, TypeCorrect, LocksCorrect, PTL DEF Spec

(* The steps that can change the reason of a revoked row.                  *)
LEMMA NextKeepsReasons ==
  ASSUME TypeOK, LockInv, [Next]_vars, NEW s \in SessionIds,
         session[s].status = "revoked", session'[s].status = "revoked"
  PROVE  session'[s].reason \in {session[s].reason, "session_limit"}
  <1> DEFINE Kept == session'[s].reason \in {session[s].reason, "session_limit"}
  <1>0. HeldIsOwned /\ RequestShape
    BY DEF LockInv
  <1>1. CASE session'[s] = session[s]
    BY <1>1
  <1>2. ASSUME NEW p \in Requests, CommitSignIn(p) PROVE Kept
    <2>1. PICK new \in SessionIds :
            /\ session[new].status = "unused"
            /\ session' = [HeldRevoked(p, "session_limit") EXCEPT
                             ![new] = NewSession(request[p].user, request[p].began)]
      BY <1>2 DEF CommitSignIn
    <2>2. session'[s] = IF s \in Held(p) THEN Revoked(s, "session_limit") ELSE session[s]
      BY <2>1 DEF HeldRevoked
    <2> QED BY <2>2, RevokedFields
  <1>3. ASSUME NEW p \in Requests, NEW reason, session' = HeldRevoked(p, reason),
               request[p].kind \notin SignIn \cup {"delete"}
        PROVE  Kept
    <2>1. s \notin Held(p)
      BY <1>0, <1>3, SessionsAssumption DEF Held, HeldIsOwned, TypeOK
    <2> QED BY <1>0, <1>3, <2>1, CommitRevokes
  <1>4. ASSUME NEW p \in Requests, Rotate(p) PROVE Kept
    <2>1. request[p].sid # s
      BY <1>4 DEF Rotate, LockInv, DecisionHolds
    <2> QED BY <1>0, <1>1, <1>4, <2>1, RotateCommits
  <1>5. ASSUME NEW p \in Requests, CommitDelete(p) PROVE Kept
    BY <1>0, <1>1, <1>5, DeleteCommits
  <1>6. ASSUME NEW r \in SessionIds, RevokeSession(r) \/ Cleanup(r) PROVE Kept
    BY <1>1, <1>6 DEF RevokeSession, Cleanup, Unused, TypeOK
  <1>7. ASSUME NEW p \in Requests, Proceed(p) PROVE Kept
    <2>1. CASE RevokeReused(p)
      BY <1>0, <1>3, <2>1 DEF RevokeReused, RequestShape, SignIn
    <2>2. CASE CommitRevokeAll(p) \/ CommitReset(p) \/ CommitChange(p) \/ CommitBlock(p)
      BY <1>3, <2>2
         DEF CommitRevokeAll, CommitReset, CommitChange, CommitBlock, Ready, SignIn
    <2> QED BY <1>1, <1>2, <1>4, <1>5, <1>7, <2>1, <2>2
            DEF Proceed, LockUser, Select, VisitRow, LockRow, BeginRecovery
  <1>8. ASSUME NEW p \in Requests, Arrive(p) \/ Abort(p) PROVE Kept
    BY <1>1, <1>8, BeginKeepsRows DEF Abort
  <1>9. ASSUME NEW u \in Users, Unblock(u) PROVE Kept
    BY <1>1, <1>9 DEF Unblock
  <1>10. CASE Tick \/ UNCHANGED vars
    BY <1>1, <1>10 DEF Tick, vars
  <1> QED BY <1>6, <1>7, <1>8, <1>9, <1>10 DEF Next

(* A recorded reason is replaced by nothing but the session limit of a     *)
(* sign-in: every other statement repeats that the row is not revoked, and *)
(* evaluates it again on a row that changed while it waited.               *)
THEOREM ReasonKept == Spec => ReasonIsKept
  <1> DEFINE Step(s) == session[s].status = "revoked" /\ session'[s].status = "revoked"
                          => session'[s].reason \in {session[s].reason, "session_limit"}
  <1>1. TypeOK /\ LockInv /\ [Next]_vars => \A s \in SessionIds : Step(s)
    BY NextKeepsReasons
  <1>2. (\A s \in SessionIds : Step(s)) =>
          [\A s \in SessionIds :
             session[s].status = "revoked" /\ session'[s].status = "revoked"
               => session'[s].reason \in {session[s].reason, "session_limit"}]_vars
    OBVIOUS
  <1> QED BY <1>1, <1>2, TypeCorrect, LocksCorrect, PTL DEF Spec, ReasonIsKept

=============================================================================
