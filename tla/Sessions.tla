------------------------------ MODULE Sessions ------------------------------
(***************************************************************************)
(* The life of authentication sessions: AuthService and the services that  *)
(* create, rotate and revoke rows of auth_session, run by concurrent HTTP  *)
(* requests over PostgreSQL (READ COMMITTED, pessimistic row locks).       *)
(*                                                                         *)
(* `user` and `session` are the committed rows.  A request in flight is a  *)
(* record of `request`: it waits for row locks, takes a statement snapshot *)
(* (`todo`), visits the rows of the snapshot one at a time, and writes     *)
(* everything it holds when its transaction commits.  A non-locking read   *)
(* sees committed rows only, whoever holds their locks.                    *)
(***************************************************************************)
EXTENDS Integers, FiniteSets

CONSTANTS
  Users,          \* accounts
  SessionIds,     \* the pool of session uuids; each is used at most once
  Requests,       \* slots for requests in flight
  Workload,       \* the kinds of requests that arrive
  Nobody,         \* holder of a free lock; user of an idle slot
  NoSession,      \* the session of a request that presents none
  MaxActive,      \* SESSION_MAX_ACTIVE
  Lifetime,       \* JWT_REFRESH_EXPIRES_IN, in clock ticks
  Retention,      \* SESSION_RETENTION_DAYS, in clock ticks
  MaxTime,        \* bound: the clock stops here
  MaxGeneration,  \* bound: no refresh is begun on a session rotated this often
  MaxCredential   \* bound: no change is begun on credentials changed this often

ASSUME SessionsAssumption ==
  /\ Nobody \notin Users \cup Requests
  /\ NoSession \notin SessionIds
  /\ IsFiniteSet(SessionIds)
  /\ MaxActive \in Nat \ {0}
  /\ Lifetime \in Nat \ {0}
  /\ Retention \in Nat
  /\ MaxTime \in Nat
  /\ MaxGeneration \in Nat
  /\ MaxCredential \in Nat

VARIABLES
  user,      \* committed rows of "user"
  session,   \* committed rows of auth_session
  userLock,  \* who holds the row lock of each user
  rowLock,   \* who holds the row lock of each session
  request,   \* the requests in flight
  now,       \* Date.now(), the one clock of the deployment
  issued,    \* history: refresh tokens handed to clients
  spent,     \* history: refresh tokens exchanged for a new pair
  revived    \* history: sessions rotated after their expiry had passed

vars == <<user, session, userLock, rowLock, request, now, issued, spent, revived>>
locks == <<userLock, rowLock>>
history == <<issued, spent, revived>>

Kinds == {"none", "login", "reset", "recovery", "refresh", "revokeAll",
          "passwordChange", "emailChange", "block", "delete"}
SignIn == {"login", "recovery"}
Steps == {"idle", "lockUser", "lockRow", "select", "update", "decide", "verify"}
Reasons == {"none", "session_limit", "refresh_reuse", "user_revoked", "logout_all",
            "password_reset", "credentials_changed", "account_blocked"}

User == [exists : BOOLEAN, blocked : BOOLEAN, credential : Nat]
Session == [status : {"unused", "unrevoked", "revoked", "deleted"},
            owner : Users \cup {Nobody}, generation : Nat, expires : Nat,
            created : Nat, revokedAt : Nat, reason : Reasons]
Token == [sid : SessionIds, generation : Nat, expires : Nat]
Request == [kind : Kinds, at : Steps, user : Users \cup {Nobody},
            sid : SessionIds \cup {NoSession}, generation : Nat,
            began : Nat, credential : Nat, matches : BOOLEAN, todo : SUBSET SessionIds]

Idle == [kind |-> "none", at |-> "idle", user |-> Nobody, sid |-> NoSession,
         generation |-> 0, began |-> 0, credential |-> 0, matches |-> FALSE, todo |-> {}]
Unused == [status |-> "unused", owner |-> Nobody, generation |-> 0, expires |-> 0,
           created |-> 0, revokedAt |-> 0, reason |-> "none"]

-----------------------------------------------------------------------------
(* What the WHERE clauses of the statements select.                        *)

(* Fault: the statement forgets the user_id condition.                     *)
UnrevokedOfAnyone(u) == {s \in SessionIds : session[s].status = "unrevoked"}

Unrevoked(u) ==
  {s \in SessionIds : session[s].owner = u /\ session[s].status = "unrevoked"}

(* AuthService.validateSession and the listing of active sessions.         *)
Valid(s) == session[s].status = "unrevoked" /\ session[s].expires > now

Active(u) == {s \in Unrevoked(u) : Valid(s)}

Rows(u) == {s \in SessionIds : session[s].owner = u
                            /\ session[s].status \in {"unrevoked", "revoked"}}

(* Rows past their retention, which the daily job deletes.                 *)
Stale(s) ==
  \/ /\ session[s].status = "revoked"
     /\ session[s].revokedAt + Retention < now
  \/ /\ session[s].status \in {"unrevoked", "revoked"}
     /\ session[s].expires + Retention < now

(* Fault: the new session is not counted, one too many is kept.            *)
OverflowKeepsOneMore(u) ==
  {over \in SUBSET Active(u) :
     /\ Cardinality(Active(u) \ over) <= MaxActive
     /\ over # {} => Cardinality(Active(u) \ over) = MaxActive}

(* The sets of active sessions that may fall off the end of the list       *)
(* ordered by created_at DESC: ties come in any order.                     *)
Overflow(u) ==
  {over \in SUBSET Active(u) :
     LET kept == Active(u) \ over IN
     /\ Cardinality(kept) < MaxActive
     /\ over # {} => Cardinality(kept) = MaxActive - 1
     /\ \A k \in kept, o \in over : session[k].created >= session[o].created}

Admitted(u) == user[u].exists /\ ~user[u].blocked

UserFree(u) == userLock[u] = Nobody
RowFree(s) == rowLock[s] = Nobody
Held(p) == {s \in SessionIds : rowLock[s] = p}

-----------------------------------------------------------------------------
(* Steps shared by the transactions.                                       *)

(* commitTransaction, rollbackTransaction: every row lock is released.     *)
Release(p) ==
  /\ userLock' = [u \in Users |-> IF userLock[u] = p THEN Nobody ELSE userLock[u]]
  /\ rowLock' = [s \in SessionIds |-> IF rowLock[s] = p THEN Nobody ELSE rowLock[s]]

(* Fault: the caller's reason is dropped for the default of the parameter. *)
RevokedByDefault(s, reason) ==
  [session[s] EXCEPT !.status = "revoked", !.revokedAt = now, !.reason = "revoked"]

Revoked(s, reason) ==
  [session[s] EXCEPT !.status = "revoked", !.revokedAt = now, !.reason = reason]

(* The rows after p's transaction has set revoked_at on those it holds.    *)
HeldRevoked(p, reason) ==
  [s \in SessionIds |-> IF s \in Held(p) THEN Revoked(s, reason) ELSE session[s]]

(* A request of a kind that arrives, presenting the token of generation g  *)
(* of session s, or its access token, or none; its transaction starts now. *)
Begin(p, kind, at, u, s, g) ==
  /\ kind \in Workload
  /\ request[p] = Idle
  /\ request' = [request EXCEPT ![p] =
       [kind |-> kind, at |-> at, user |-> u, sid |-> s, generation |-> g, began |-> now,
        credential |-> 0, matches |-> FALSE, todo |-> {}]]
  /\ UNCHANGED <<user, session, locks, now, history>>

(* The rows the request's UPDATE or DELETE statement finds when it starts. *)
Selections(p) ==
  LET u == request[p].user IN
  CASE request[p].kind \in SignIn -> Overflow(u)
    [] request[p].kind \in {"passwordChange", "emailChange"}
         -> {Unrevoked(u) \ {request[p].sid}}
    [] request[p].kind = "delete" -> {Rows(u)}
    [] OTHER -> {Unrevoked(u)}

(* Fault: no statement repeats revoked_at IS NULL.                         *)
MatchesAnyRow(p, s) == session[s].status \in {"unrevoked", "revoked"}

(* PostgreSQL evaluates the WHERE clause again on a row that changed while *)
(* the statement waited for it.  The session-limit update names ids only.  *)
StillMatches(p, s) ==
  IF request[p].kind \in SignIn \cup {"delete"}
  THEN session[s].status \in {"unrevoked", "revoked"}
  ELSE session[s].status = "unrevoked"

(* What a transaction checks of the user row it has just locked.           *)
PassesUnderLock(p) ==
  LET u == request[p].user IN
  /\ user[u].exists
  /\ request[p].kind \in {"block", "emailChange"} => ~user[u].blocked

LockUser(p) ==
  /\ request[p].at = "lockUser"
  /\ UserFree(request[p].user)
  /\ PassesUnderLock(p)
  /\ userLock' = [userLock EXCEPT ![request[p].user] = p]
  /\ request' = [request EXCEPT ![p].at = "select"]
  /\ UNCHANGED <<user, session, rowLock, now, history>>

Select(p) ==
  /\ request[p].at = "select"
  /\ \E rows \in Selections(p) :
       request' = [request EXCEPT ![p] = [@ EXCEPT !.at = "update", !.todo = rows]]
  /\ UNCHANGED <<user, session, locks, now, history>>

VisitRow(p, s) ==
  /\ request[p].at = "update"
  /\ s \in request[p].todo
  /\ RowFree(s)
  /\ rowLock' = [rowLock EXCEPT ![s] = IF StillMatches(p, s) THEN p ELSE Nobody]
  /\ request' = [request EXCEPT ![p].todo = @ \ {s}]
  /\ UNCHANGED <<user, session, userLock, now, history>>

Ready(p, kinds) ==
  /\ request[p].kind \in kinds
  /\ request[p].at = "update"
  /\ request[p].todo = {}

Finish(p) ==
  /\ Release(p)
  /\ request' = [request EXCEPT ![p] = Idle]

(* A failed check, a deadlock victim, a lost connection, a process crash:  *)
(* the transaction rolls back and the request is over.                     *)
Abort(p) ==
  /\ request[p].at # "idle"
  /\ Finish(p)
  /\ UNCHANGED <<user, session, now, history>>

-----------------------------------------------------------------------------
(* Signing in: the local strategy and createSession.                       *)

(* Fault: createSession does not lock the user row.                        *)
BeginLoginUnlocked(p, u) ==
  /\ Admitted(u)
  /\ Begin(p, "login", "select", u, NoSession, 0)

BeginLogin(p, u) ==
  /\ Admitted(u)
  /\ Begin(p, "login", "lockUser", u, NoSession, 0)

NewSession(u, began) ==
  [status |-> "unrevoked", owner |-> u, generation |-> 0, expires |-> now + Lifetime,
   created |-> began, revokedAt |-> 0, reason |-> "none"]

CommitSignIn(p) ==
  /\ Ready(p, SignIn)
  /\ \E s \in SessionIds :
       /\ session[s].status = "unused"
       /\ session' = [HeldRevoked(p, "session_limit") EXCEPT
                        ![s] = NewSession(request[p].user, request[p].began)]
       /\ issued' = issued \cup
                      {[sid |-> s, generation |-> 0, expires |-> now + Lifetime]}
  /\ Finish(p)
  /\ UNCHANGED <<user, now, spent, revived>>

-----------------------------------------------------------------------------
(* Exchanging a refresh token: the jwt-refresh strategy, refreshJwtTokens. *)

BeginRefresh(p, t) ==
  /\ t.expires > now
  /\ Valid(t.sid)
  /\ Admitted(session[t.sid].owner)
  /\ session[t.sid].generation < MaxGeneration
  /\ Begin(p, "refresh", "lockRow", session[t.sid].owner, t.sid, t.generation)

(* Fault: the session row is read without its lock.                        *)
LockRowUnlocked(p) ==
  LET s == request[p].sid IN
  /\ request[p].at = "lockRow"
  /\ Valid(s) /\ session[s].owner = request[p].user
  /\ request' = [request EXCEPT
       ![p] = [@ EXCEPT !.at = "decide",
                        !.matches = (request[p].generation = session[s].generation)]]
  /\ UNCHANGED <<user, session, locks, now, history>>

(* Fault: the row is not checked again once it is locked.                  *)
LockRowUnchecked(p) ==
  LET s == request[p].sid IN
  /\ request[p].at = "lockRow"
  /\ RowFree(s)
  /\ session[s].owner = request[p].user
  /\ rowLock' = [rowLock EXCEPT ![s] = p]
  /\ request' = [request EXCEPT
       ![p] = [@ EXCEPT !.at = "decide",
                        !.matches = (request[p].generation = session[s].generation)]]
  /\ UNCHANGED <<user, session, userLock, now, history>>

(* SELECT ... FOR UPDATE, the checks on the row and the hash comparison.   *)
LockRow(p) ==
  LET s == request[p].sid IN
  /\ request[p].at = "lockRow"
  /\ RowFree(s)
  /\ Valid(s) /\ session[s].owner = request[p].user
  /\ rowLock' = [rowLock EXCEPT ![s] = p]
  /\ request' = [request EXCEPT
       ![p] = [@ EXCEPT !.at = "decide",
                        !.matches = (request[p].generation = session[s].generation)]]
  /\ UNCHANGED <<user, session, userLock, now, history>>

Rotate(p) ==
  LET s == request[p].sid
      next == session[s].generation + 1
  IN
  /\ request[p].at = "decide"
  /\ request[p].matches
  /\ session' = [session EXCEPT ![s] =
         [@ EXCEPT !.generation = next, !.expires = now + Lifetime]]
  /\ issued' = issued \cup {[sid |-> s, generation |-> next, expires |-> now + Lifetime]}
  /\ spent' = spent \cup {<<s, request[p].generation>>}
  /\ revived' = revived \cup (IF session[s].expires > now THEN {} ELSE {s})
  /\ Finish(p)
  /\ UNCHANGED <<user, now>>

RevokeReused(p) ==
  /\ request[p].at = "decide"
  /\ ~request[p].matches
  /\ session' = HeldRevoked(p, "refresh_reuse")
  /\ Finish(p)
  /\ UNCHANGED <<user, now, history>>

-----------------------------------------------------------------------------
(* Revoking: logout, one session, all sessions.                            *)

(* One autocommitted single-row UPDATE, from its owner or an administrator.*)
RevokeSession(s) ==
  /\ session[s].status = "unrevoked"
  /\ RowFree(s)
  /\ session' = [session EXCEPT ![s] = Revoked(s, "user_revoked")]
  /\ UNCHANGED <<user, locks, request, now, history>>

BeginRevokeAll(p, u) ==
  /\ user[u].exists
  /\ Begin(p, "revokeAll", "select", u, NoSession, 0)

CommitRevokeAll(p) ==
  /\ Ready(p, {"revokeAll"})
  /\ session' = HeldRevoked(p, "logout_all")
  /\ Finish(p)
  /\ UNCHANGED <<user, now, history>>

-----------------------------------------------------------------------------
(* Changing credentials.                                                   *)

BeginReset(p, u) ==
  /\ user[u].exists
  /\ user[u].credential < MaxCredential
  /\ Begin(p, "reset", "lockUser", u, NoSession, 0)

(* The password and the revocations commit together; the controller then   *)
(* signs the user in with the new password.                                *)
CommitReset(p) ==
  LET u == request[p].user IN
  /\ Ready(p, {"reset"})
  /\ user' = [user EXCEPT ![u].credential = @ + 1]
  /\ session' = HeldRevoked(p, "password_reset")
  /\ Release(p)
  /\ request' = [request EXCEPT ![p] = [@ EXCEPT !.at = "verify",
                                                 !.credential = user[u].credential + 1]]
  /\ UNCHANGED <<now, history>>

BeginRecovery(p) ==
  LET u == request[p].user IN
  /\ request[p].at = "verify"
  /\ Admitted(u)
  /\ user[u].credential = request[p].credential
  /\ request' = [request EXCEPT ![p] = [@ EXCEPT !.kind = "recovery", !.at = "lockUser",
                                                 !.began = now, !.credential = 0]]
  /\ UNCHANGED <<user, session, locks, now, history>>

(* A password or email change confirmed from the account settings of the   *)
(* session s, which the access-token strategy validated.                   *)
BeginChange(p, kind, s) ==
  LET u == session[s].owner IN
  /\ Valid(s)
  /\ Admitted(u)
  /\ user[u].credential < MaxCredential
  /\ Begin(p, kind, "lockUser", u, s, 0)

CommitChange(p) ==
  /\ Ready(p, {"passwordChange", "emailChange"})
  /\ user' = [user EXCEPT ![request[p].user].credential = @ + 1]
  /\ session' = HeldRevoked(p, "credentials_changed")
  /\ Finish(p)
  /\ UNCHANGED <<now, history>>

-----------------------------------------------------------------------------
(* Administration and maintenance.                                         *)

(* Fault: the block does not lock the user row.                            *)
BeginBlockUnlocked(p, u) ==
  Begin(p, "block", "select", u, NoSession, 0)

BeginBlock(p, u) ==
  Begin(p, "block", "lockUser", u, NoSession, 0)

CommitBlock(p) ==
  /\ Ready(p, {"block"})
  /\ user' = [user EXCEPT ![request[p].user].blocked = TRUE]
  /\ session' = HeldRevoked(p, "account_blocked")
  /\ Finish(p)
  /\ UNCHANGED <<now, history>>

(* One row under its lock: nothing of it can be seen half done.            *)
Unblock(u) ==
  /\ user[u].exists /\ user[u].blocked
  /\ UserFree(u)
  /\ user' = [user EXCEPT ![u].blocked = FALSE]
  /\ UNCHANGED <<session, locks, request, now, history>>

BeginDelete(p, u) ==
  /\ user[u].exists
  /\ Begin(p, "delete", "lockUser", u, NoSession, 0)

(* ON DELETE CASCADE: the rows of the user's sessions go with it.          *)
CommitDelete(p) ==
  /\ Ready(p, {"delete"})
  /\ user' = [user EXCEPT ![request[p].user].exists = FALSE]
  /\ session' = [s \in SessionIds |-> IF s \in Held(p)
                                      THEN [Unused EXCEPT !.status = "deleted"]
                                      ELSE session[s]]
  /\ Finish(p)
  /\ UNCHANGED <<now, history>>

Cleanup(s) ==
  /\ Stale(s)
  /\ RowFree(s)
  /\ session' = [session EXCEPT ![s] = [Unused EXCEPT !.status = "deleted"]]
  /\ UNCHANGED <<user, locks, request, now, history>>

Tick ==
  /\ now < MaxTime
  /\ now' = now + 1
  /\ UNCHANGED <<user, session, locks, request, history>>

-----------------------------------------------------------------------------

Init ==
  /\ user = [u \in Users |-> [exists |-> TRUE, blocked |-> FALSE, credential |-> 0]]
  /\ session = [s \in SessionIds |-> Unused]
  /\ userLock = [u \in Users |-> Nobody]
  /\ rowLock = [s \in SessionIds |-> Nobody]
  /\ request = [p \in Requests |-> Idle]
  /\ now = 0
  /\ issued = {}
  /\ spent = {}
  /\ revived = {}

Arrive(p) ==
  \/ \E u \in Users : \/ BeginLogin(p, u)
                      \/ BeginRevokeAll(p, u)
                      \/ BeginReset(p, u)
                      \/ BeginBlock(p, u)
                      \/ BeginDelete(p, u)
  \/ \E t \in issued : BeginRefresh(p, t)
  \/ \E s \in SessionIds : \/ BeginChange(p, "passwordChange", s)
                           \/ BeginChange(p, "emailChange", s)

Proceed(p) ==
  \/ LockUser(p)
  \/ Select(p)
  \/ \E s \in SessionIds : VisitRow(p, s)
  \/ CommitSignIn(p)
  \/ LockRow(p)
  \/ Rotate(p)
  \/ RevokeReused(p)
  \/ CommitRevokeAll(p)
  \/ CommitReset(p)
  \/ BeginRecovery(p)
  \/ CommitChange(p)
  \/ CommitBlock(p)
  \/ CommitDelete(p)

Next ==
  \/ \E p \in Requests : Arrive(p) \/ Proceed(p) \/ Abort(p)
  \/ \E s \in SessionIds : RevokeSession(s) \/ Cleanup(s)
  \/ \E u \in Users : Unblock(u)
  \/ Tick

Spec == Init /\ [][Next]_vars

-----------------------------------------------------------------------------
(* Properties.                                                             *)

(* Every variable has its type.                                            *)
TypeOK ==
  /\ user \in [Users -> User]
  /\ session \in [SessionIds -> Session]
  /\ userLock \in [Users -> Requests \cup {Nobody}]
  /\ rowLock \in [SessionIds -> Requests \cup {Nobody}]
  /\ request \in [Requests -> Request]
  /\ now \in Nat
  /\ issued \in SUBSET Token
  /\ spent \in SUBSET (SessionIds \X Nat)
  /\ revived \in SUBSET SessionIds

(* The inductive invariant behind the safety properties, in parts.         *)

(* The transactions that lock the user row first.                          *)
LockingKinds == Kinds \ {"none", "refresh", "revokeAll"}

InTransaction(p) ==
  /\ request[p].at \in {"select", "update"}
  /\ request[p].kind # "revokeAll"

(* A request is at a step of its own kind and knows its rows.              *)
RequestShape ==
  \A p \in Requests :
    /\ request[p].at # "idle" => request[p].user \in Users
    /\ request[p].at = "lockUser" => request[p].kind \in LockingKinds
    /\ request[p].at \in {"select", "update"}
         => request[p].kind \in LockingKinds \cup {"revokeAll"}
    /\ request[p].at \in {"lockRow", "decide"}
         => request[p].kind = "refresh" /\ request[p].sid \in SessionIds
    /\ request[p].at = "verify" => request[p].kind = "reset"
    /\ request[p].at # "update" => request[p].todo = {}

RowsHaveOwners ==
  \A s \in SessionIds :
    session[s].owner \in Users <=> session[s].status \in {"unrevoked", "revoked"}

UserLockIsHeld ==
  \A p \in Requests :
    InTransaction(p) => /\ userLock[request[p].user] = p
                        /\ user[request[p].user].exists

(* Rows still to visit belong to the request's user, or are gone.          *)
TodoIsOwned ==
  \A p \in Requests : \A s \in request[p].todo :
    \/ session[s].status = "deleted"
    \/ session[s].owner = request[p].user

(* A locked row exists and is locked for its owner by a running request;   *)
(* only those whose statement looks at no revocation lock a revoked one.   *)
HeldIsOwned ==
  \A s \in SessionIds : rowLock[s] # Nobody =>
    /\ request[rowLock[s]].at \in {"update", "decide"}
    /\ session[s].status \in {"unrevoked", "revoked"}
    /\ session[s].owner = request[rowLock[s]].user
    /\ session[s].status = "revoked"
         => request[rowLock[s]].kind \in SignIn \cup {"delete"}

(* The rows a transaction must have visited before it commits.             *)
Targets(p) ==
  LET u == request[p].user IN
  CASE request[p].kind = "delete" -> Rows(u)
    [] request[p].kind \in {"reset", "block"} -> Unrevoked(u)
    [] request[p].kind \in {"passwordChange", "emailChange"}
         -> Unrevoked(u) \ {request[p].sid}
    [] OTHER -> {}

TargetsAreCovered ==
  \A p \in Requests :
    request[p].at = "update" => Targets(p) \subseteq request[p].todo \cup Held(p)

(* The active sessions that a sign-in will leave make room for its own.    *)
RoomIsMade ==
  \A p \in Requests :
    request[p].kind \in SignIn /\ request[p].at = "update" =>
      Cardinality((Active(request[p].user) \ revived)
                    \ (request[p].todo \cup Held(p))) < MaxActive

(* What a refresh has decided stays true while it holds the row.           *)
DecisionHolds ==
  \A p \in Requests : request[p].at = "decide" =>
    /\ rowLock[request[p].sid] = p
    /\ session[request[p].sid].status = "unrevoked"
    /\ request[p].matches =>
         request[p].generation = session[request[p].sid].generation

(* Tokens already exchanged are older than the one whose hash is stored.   *)
SpentIsPast ==
  \A t \in spent :
    /\ session[t[1]].status # "unused"
    /\ session[t[1]].status # "deleted" => t[2] < session[t[1]].generation

(* What the transactions keep in every state: the inductive invariant of   *)
(* the properties below.                                                   *)
LockInv ==
  /\ RequestShape
  /\ RowsHaveOwners
  /\ UserLockIsHeld
  /\ TodoIsOwned
  /\ HeldIsOwned
  /\ TargetsAreCovered
  /\ RoomIsMade
  /\ DecisionHolds
  /\ SpentIsPast

(* A refresh token is exchanged for a new pair at most once, whatever      *)
(* refreshes of the session run at the same time: each rotation spends a   *)
(* token that no earlier rotation spent (refreshJwtTokens reads and        *)
(* compares the hash under the row lock it commits under).                 *)
RefreshAtMostOnce ==
  [][\A s \in SessionIds :
       session'[s].generation > session[s].generation
         => \E t \in spent' : t \notin spent /\ t[1] = s]_vars

(* Once revoked or deleted, a session never becomes usable again and no    *)
(* refresh that was already running hands out another token for it.        *)
RevocationIsFinal ==
  [][\A s \in SessionIds :
       session[s].status \in {"revoked", "deleted"} =>
         /\ session'[s].status \in {"revoked", "deleted"}
         /\ session'[s].generation <= session[s].generation]_vars

(* A reason for a revocation, once recorded, is replaced by nothing but    *)
(* the session limit of a sign-in: its UPDATE names ids only and looks at  *)
(* no revocation, so it replaces even a refresh_reuse.                     *)
ReasonIsKept ==
  [][\A s \in SessionIds :
       session[s].status = "revoked" /\ session'[s].status = "revoked"
         => session'[s].reason \in {session[s].reason, "session_limit"}]_vars

(* A committed change of an account's password or email leaves no session  *)
(* of the account unrevoked but the one that asked for it, whatever        *)
(* sign-ins and refreshes run at the same time.                            *)
ChangeRevokesOthers ==
  [][\A u \in Users :
       user'[u].credential # user[u].credential
         => \E p \in Requests : /\ userLock[u] = p
                                /\ Unrevoked(u)' \subseteq {request[p].sid}]_vars

(* A committed block of an account leaves it no unrevoked session.         *)
BlockRevokesAll ==
  [][\A u \in Users :
       user'[u].blocked /\ ~user[u].blocked => Unrevoked(u)' = {}]_vars

(* A row of auth_session always belongs to an existing account: a sign-in  *)
(* that races with the deletion of the account does not outlive it.        *)
NoOrphans ==
  \A u \in Users : ~user[u].exists => Rows(u) = {}

(* An account never has more active sessions than SESSION_MAX_ACTIVE, when *)
(* sessions whose rotation was committed after their expiry are not        *)
(* counted, however many sign-ins, refreshes and revocations overlap.      *)
ActiveLimitButRevived ==
  \A u \in Users : Cardinality(Active(u) \ revived) <= MaxActive

(* The rows and the tokens, seen through their life, implement the ledger: *)
(* the locks and the order of the steps of every transaction are enough to *)
(* make each commit one step of it.                                        *)
Phase(s) ==
  CASE session[s].status = "unused" -> "unused"
    [] session[s].status = "unrevoked" -> "open"
    [] session[s].status = "revoked" -> "closed"
    [] session[s].status = "deleted" -> "purged"

Ledger == INSTANCE SessionLedger WITH
  phase <- [s \in SessionIds |-> Phase(s)],
  holder <- [s \in SessionIds |-> session[s].owner],
  exchanged <- spent

(* Sessions implements SessionLedger: a step of a transaction opens,       *)
(* exchanges, closes or purges sessions as the ledger allows, or shows     *)
(* nothing there.                                                          *)
ImplementsLedger == Ledger!Spec

(* README.md, "Backend security model": "a configurable maximum number of  *)
(* active sessions is enforced transactionally per user".                  *)
ActiveLimit ==
  \A u \in Users : Cardinality(Active(u)) <= MaxActive

(* SECURITY.md, "Persistent authentication sessions": "Blocked accounts    *)
(* cannot use recovery to sign in": the session that recovery opens is not *)
(* one of an account that is blocked at that moment.                       *)
RecoveryRefusesBlocked ==
  [][\A p \in Requests :
       request[p].kind = "recovery" /\ issued' # issued /\ request'[p] = Idle
         => ~user[request[p].user].blocked]_vars

=============================================================================
