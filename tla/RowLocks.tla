------------------------------ MODULE RowLocks ------------------------------
(***************************************************************************)
(* What the transactions of the program wait for: a connection of the      *)
(* pool, rows that others have locked, and Redis, which some of them call  *)
(* while they hold a row.  Only the order of the waits is modelled here;   *)
(* what the statements read and write is in Sessions and ActivityFlush.    *)
(*                                                                         *)
(* A transaction follows a plan, a sequence of needs.  A set of rows is    *)
(* locked in any order, since an UPDATE visits its rows as they come.      *)
(* Locks are given back at the commit, the connection at the end, which    *)
(* some reach after further calls.  PostgreSQL ends one of several         *)
(* transactions that wait for each other's rows.  It knows of rows only:   *)
(* neither of the pool nor of Redis.                                       *)
(***************************************************************************)
EXTENDS Integers, FiniteSets, Sequences

CONSTANTS
    Transactions,  \* transactions in flight, each runs once
    Users,         \* rows of "user"
    Admin,         \* the one of the administrator, created by a migration
    SessionIds,    \* rows of auth_session
    Owner,         \* session -> its user
    PoolSize,      \* connections to PostgreSQL
    MaxOutages,    \* bound: times Redis is lost
    Kinds,         \* transaction -> the kinds it may be of
    Nobody         \* holder of a free row; the row of one that waits for none

(* The row of an account before rows of its sessions, if any of both.      *)
OrderedKinds == {"signIn", "reset", "rejected", "password", "email", "block",
                 "deleteUser", "deleteOwn", "register", "oneUser",
                 "oneSession"}

(* Rows of sessions alone, in any order, or before those of accounts.      *)
AllKinds == OrderedKinds \cup {"revokeAll", "cleanup", "flush"}

Rows == Users \cup SessionIds

SessionsOf(u) == {s \in SessionIds : Owner[s] = u}

ASSUME RowLocksAssumption ==
    /\ Admin \in Users
    /\ Users \cap SessionIds = {}
    /\ Owner \in [SessionIds -> Users]
    /\ Nobody \notin Transactions \cup Rows
    /\ IsFiniteSet(Transactions)
    /\ PoolSize \in Nat \ {0}
    /\ MaxOutages \in Nat
    /\ Kinds \in [Transactions -> SUBSET AllKinds]

VARIABLES
    tx,       \* transaction -> its kind and the needs that are left
    conns,    \* transaction -> connections it keeps from the pool
    holder,   \* row -> the transaction that has locked it
    waits,    \* transaction -> the row it waits for
    up,       \* Redis can be reached
    outages   \* times it could not

vars == <<tx, conns, holder, waits, up, outages>>
-----------------------------------------------------------------------------
(* Plans.                                                                  *)

Connection == [need |-> "connection", rows |-> {}]
Redis      == [need |-> "redis", rows |-> {}]
Mail       == [need |-> "mail", rows |-> {}]
CommitNow  == [need |-> "commit", rows |-> {}]
Lock(rows) == [need |-> "rows", rows |-> rows]

(* A query of a repository, on another connection, which it gives back.    *)
Query      == [need |-> "query", rows |-> {}]

(* Fault: a refresh or a logout locks the account too, after the session.  *)
SessionThenAccount(S) == <<Lock(S), Lock({Owner[s] : s \in S})>>

(* refreshJwtTokens, revokeSession: the row of the session.                *)
SessionPlan(S) == <<Lock(S)>>

(* Fault: the sessions are revoked without the manager of the transaction, *)
(* that is on another connection, before the commit.                       *)
RevokingOutside(u) ==
    <<Lock({u}), Redis, Connection, Lock(SessionsOf(u)), CommitNow>>

(* PasswordResetService.confirm: the account, the code in Redis, all       *)
(* sessions, and the failures in Redis before the connection is given back.*)
ResetPlan(u) ==
    <<Lock({u}), Redis, Lock(SessionsOf(u)), CommitNow, Redis>>

(* The same with a code that has been consumed meanwhile, for the last     *)
(* time allowed: rejectInvalidCode, inside the transaction, counts the     *)
(* failure in Redis, and invalidateActiveCode looks the account up through *)
(* the repository.                                                         *)
RejectedPlan(u) == <<Lock({u}), Redis, Query, Redis>>

(* The plans of a kind, for the account u and some sessions S.             *)
(*   signIn     createSession: the account, then the sessions over the     *)
(*              limit                                                      *)
(*   password   updatePassword: like a reset, but the session that asks   *)
(*              is kept                                                    *)
(*   email      EmailChangeService.confirm: the same, with the failures    *)
(*              cleared before the connection is given back                *)
(*   block      AdminService.blockUserById: the administrator, the         *)
(*              account, its sessions                                      *)
(*   deleteUser AdminService.deleteUserById: the sessions by cascade; mail *)
(*              is sent before the connection is given back                *)
(*   deleteOwn  UsersService.deleteCurrentUser                             *)
(*   register   RegistrationService.confirm: the code, then new rows       *)
(*   oneUser    unblockUserById, updatePartialUserData                     *)
(*   revokeAll  logoutAll, login: one UPDATE                               *)
(*   cleanup    SessionMaintenanceService: one DELETE                      *)
(*   flush      flushBatch: sessions of many accounts, then the accounts   *)
PlanOf(kind, u, S) ==
    LET proven == <<Lock({Admin}), Lock({u}), Lock(SessionsOf(u))>>
    IN
    <<Connection>> \o
    CASE kind = "signIn" -> <<Lock({u}), Lock(S)>>
      [] kind = "reset" -> ResetPlan(u)
      [] kind = "rejected" -> RejectedPlan(u)
      [] kind = "password" -> <<Lock({u}), Redis, Lock(S)>>
      [] kind = "email" -> <<Lock({u}), Redis, Lock(S), CommitNow, Redis>>
      [] kind = "block" -> proven
      [] kind = "deleteUser" -> proven \o <<CommitNow, Mail>>
      [] kind = "deleteOwn" -> <<Lock({u}), Lock(SessionsOf(u))>>
      [] kind = "register" -> <<Redis, CommitNow, Redis>>
      [] kind = "oneUser" -> <<Lock({u})>>
      [] kind = "oneSession" -> SessionPlan(S)
      [] kind = "cleanup" -> <<Lock(S)>>
      [] kind = "revokeAll" -> <<Lock(SessionsOf(u))>>
      [] kind = "flush" -> <<Lock(S), Lock({Owner[s] : s \in S})>>

(* The choices of u and S that a transaction of the kind can be about.     *)
Subjects(kind) ==
    CASE kind \in {"signIn", "password", "email"} ->
             UNION {{u} \X SUBSET SessionsOf(u) : u \in Users}
      [] kind \in {"block", "deleteUser", "deleteOwn"} ->
             (Users \ {Admin}) \X {{}}
      [] kind \in {"reset", "rejected", "oneUser", "revokeAll"} ->
             Users \X {{}}
      [] kind = "register" -> {<<Admin, {}>>}
      [] kind = "oneSession" -> {Admin} \X {{s} : s \in SessionIds}
      [] kind \in {"cleanup", "flush"} -> {Admin} \X (SUBSET SessionIds \ {{}})

(* Transactions of a kind at their beginning.                              *)
Started(kind) ==
    {[kind |-> kind, plan |-> PlanOf(kind, about[1], about[2])] :
        about \in Subjects(kind)}

(* Any transactions are about to begin at once.                            *)
Init ==
    /\ tx \in [Transactions -> UNION {Started(kind) : kind \in AllKinds}]
    /\ \A t \in Transactions : tx[t].kind \in Kinds[t]
    /\ conns = [t \in Transactions |-> 0]
    /\ holder = [row \in Rows |-> Nobody]
    /\ waits = [t \in Transactions |-> Nobody]
    /\ up = TRUE /\ outages = 0
-----------------------------------------------------------------------------
(* Steps of a transaction.                                                 *)

(* t is about to meet the first need of its plan.                          *)
Needs(t, need) == tx[t].plan # <<>> /\ Head(tx[t].plan).need = need

Met(t) == tx' = [tx EXCEPT ![t].plan = Tail(@)]

InUse ==
    Cardinality({slot \in Transactions \X (1..PoolSize) : slot[2] <= conns[slot[1]]})

(* Fault: the pool opens one connection too many.                          *)
ConnectBeyond(t) ==
    /\ Needs(t, "connection")
    /\ InUse <= PoolSize
    /\ conns' = [conns EXCEPT ![t] = @ + 1]
    /\ Met(t)
    /\ UNCHANGED <<holder, waits, up, outages>>

Connect(t) ==
    /\ Needs(t, "connection")
    /\ InUse < PoolSize
    /\ conns' = [conns EXCEPT ![t] = @ + 1]
    /\ Met(t)
    /\ UNCHANGED <<holder, waits, up, outages>>

(* A statement elsewhere, which waits for nothing but a connection.        *)
QueryElsewhere(t) ==
    /\ Needs(t, "query")
    /\ InUse < PoolSize
    /\ Met(t)
    /\ UNCHANGED <<conns, holder, waits, up, outages>>

(* The mail server answers, or the call fails (Fail).  The program sets no *)
(* timeout for it; those of nodemailer are minutes.                        *)
SendMail(t) ==
    /\ Needs(t, "mail")
    /\ Met(t)
    /\ UNCHANGED <<conns, holder, waits, up, outages>>

(* Redis answers, or a call in flight is rejected (Fail).                  *)
CallRedis(t) ==
    /\ Needs(t, "redis")
    /\ up
    /\ Met(t)
    /\ UNCHANGED <<conns, holder, waits, up, outages>>

(* The rows of the current statement that t has not locked yet.            *)
Missing(t) == {row \in Head(tx[t].plan).rows : holder[row] # t}

(* t visits a row: takes it when it is free, and waits for it otherwise.   *)
VisitRow(t, row) ==
    /\ Needs(t, "rows") /\ waits[t] = Nobody
    /\ row \in Missing(t)
    /\ \/ /\ holder[row] = Nobody
          /\ holder' = [holder EXCEPT ![row] = t]
          /\ UNCHANGED waits
       \/ /\ holder[row] # Nobody
          /\ waits' = [waits EXCEPT ![t] = row]
          /\ UNCHANGED holder
    /\ UNCHANGED <<tx, conns, up, outages>>

(* The row that t waits for has become free.                               *)
Granted(t) ==
    /\ waits[t] # Nobody /\ holder[waits[t]] = Nobody
    /\ holder' = [holder EXCEPT ![waits[t]] = t]
    /\ waits' = [waits EXCEPT ![t] = Nobody]
    /\ UNCHANGED <<tx, conns, up, outages>>

EndStatement(t) ==
    /\ Needs(t, "rows") /\ waits[t] = Nobody
    /\ Missing(t) = {}
    /\ Met(t)
    /\ UNCHANGED <<conns, holder, waits, up, outages>>

(* The transaction is committed; its request still keeps the connection.   *)
CommitFirst(t) ==
    /\ Needs(t, "commit")
    /\ holder' = [row \in Rows |-> IF holder[row] = t THEN Nobody
                                   ELSE holder[row]]
    /\ Met(t)
    /\ UNCHANGED <<conns, waits, up, outages>>

(* Commit or rollback, and release of the connection.                      *)
End(t) ==
    /\ tx' = [tx EXCEPT ![t] = [kind |-> "ended", plan |-> <<>>]]
    /\ conns' = [conns EXCEPT ![t] = 0]
    /\ holder' = [row \in Rows |-> IF holder[row] = t THEN Nobody
                                   ELSE holder[row]]
    /\ waits' = [waits EXCEPT ![t] = Nobody]
    /\ UNCHANGED <<up, outages>>

Commit(t) ==
    /\ tx[t].kind \in AllKinds /\ tx[t].plan = <<>>
    /\ End(t)

(* A statement fails: the transaction is rolled back.                      *)
Fail(t) ==
    /\ tx[t].kind \in AllKinds /\ conns[t] > 0
    /\ waits[t] = Nobody /\ ~Needs(t, "connection")
    /\ End(t)

(* Each of the transactions D waits for a row that another of them holds.  *)
Deadlocked(D) ==
    /\ D # {}
    /\ \A t \in D : waits[t] # Nobody /\ holder[waits[t]] \in D

(* A cycle of waits, without those who wait for it from outside.           *)
Cycle(D) == Deadlocked(D) /\ \A E \in SUBSET D : Deadlocked(E) => E = D

(* PostgreSQL detects a deadlock and chooses t to resolve it.              *)
Victim(t) ==
    /\ \E D \in SUBSET Transactions : t \in D /\ Cycle(D)
    /\ End(t)

(* The connection to Redis is lost; calls made meanwhile wait for it.      *)
Disconnect ==
    /\ up /\ outages < MaxOutages
    /\ up' = FALSE
    /\ outages' = outages + 1
    /\ UNCHANGED <<tx, conns, holder, waits>>

Reconnect ==
    /\ ~up
    /\ up' = TRUE
    /\ UNCHANGED <<tx, conns, holder, waits, outages>>

Step(t) ==
    \/ Connect(t) \/ QueryElsewhere(t) \/ CallRedis(t) \/ SendMail(t)
    \/ Granted(t) \/ EndStatement(t) \/ CommitFirst(t) \/ Commit(t)
    \/ \E row \in Rows : VisitRow(t, row)

Next ==
    \/ \E t \in Transactions : Step(t) \/ Fail(t) \/ Victim(t)
    \/ Disconnect \/ Reconnect

Spec == Init /\ [][Next]_vars

FairSpec ==
    /\ Spec
    /\ \A t \in Transactions : WF_vars(Step(t) \/ Victim(t))
    /\ WF_vars(Reconnect)
-----------------------------------------------------------------------------
(* What a plan is made of.                                                 *)
Needed == [need : {"connection", "query", "redis", "mail", "rows", "commit"},
           rows : SUBSET Rows]

(* The types of plans, connections, locks and waits; the pool is never     *)
(* exceeded.                                                               *)
TypeOK ==
    /\ tx \in [Transactions -> [kind : AllKinds \cup {"ended"}, plan : Seq(Needed)]]
    /\ conns \in [Transactions -> 0..PoolSize] /\ InUse <= PoolSize
    /\ holder \in [Rows -> Transactions \cup {Nobody}]
    /\ waits \in [Transactions -> Rows \cup {Nobody}]
    /\ up \in BOOLEAN /\ outages \in 0..MaxOutages

(* What holds besides: why the property below does.                        *)

(* A transaction has one connection, and never waits for another one.      *)
OneConnection ==
    \A t \in Transactions :
        /\ conns[t] \in {0, 1}
        /\ \A i \in DOMAIN tx[t].plan :
               tx[t].plan[i].need = "connection" => i = 1 /\ conns[t] = 0

(* A transaction waits for a row that its statement has still to lock.     *)
WaitsAreForRows ==
    \A t \in Transactions :
        waits[t] # Nobody => Needs(t, "rows") /\ waits[t] \in Missing(t)

(* The rows that t may have locked when it comes to need i.                *)
Before(t, i) ==
    {row \in Rows : \/ holder[row] = t
                    \/ \E j \in DOMAIN tx[t].plan : j < i /\ row \in tx[t].plan[j].rows}

(* Where need i of t stands in the order: the administrator, an account,   *)
(* its sessions.  Who needs one row has locked no other.                   *)
InOrder(t, i) ==
    LET kind == tx[t].kind
        rows == tx[t].plan[i].rows
    IN  \/ /\ kind \notin {"oneSession", "register"}
           /\ \E u \in Users :
                  /\ rows = {u} /\ Before(t, i) \subseteq {Admin, u}
                  /\ kind = "oneUser" => Before(t, i) \subseteq {u}
        \/ /\ kind \notin {"oneUser", "oneSession", "register"}
           /\ \E u \in Users : rows \subseteq SessionsOf(u) /\ u \in Before(t, i)
        \/ /\ kind = "oneSession"
           /\ \E s \in SessionIds : rows = {s} /\ Before(t, i) \subseteq {s}

(* After a commit no row is locked.                                        *)
PlansAreOrdered ==
    \A t \in Transactions :
        /\ \A i \in DOMAIN tx[t].plan :
               /\ tx[t].plan[i].need # "rows" => tx[t].plan[i].rows = {}
               /\ tx[t].plan[i].need = "commit" =>
                     \A j \in DOMAIN tx[t].plan : j > i => tx[t].plan[j].need # "rows"
        /\ tx[t].kind \in OrderedKinds =>
              \A i \in DOMAIN tx[t].plan : tx[t].plan[i].need = "rows" => InOrder(t, i)

(* Nor has any of them a session without its account.                      *)
LocksAreOrdered ==
    \A t \in Transactions : \A s \in SessionIds :
        tx[t].kind \in OrderedKinds \ {"oneSession"} /\ holder[s] = t
            => holder[Owner[s]] = t

(* How the code of every transaction locks: the inductive invariant, from  *)
(* which follows that the ordered kinds do not deadlock.                   *)
LocksInv == OneConnection /\ WaitsAreForRows /\ PlansAreOrdered /\ LocksAreOrdered

(* Transactions that lock an account before its sessions, and those of one *)
(* row, never deadlock with each other: each cycle of waits has a flush, a *)
(* logout everywhere or a clean-up in it, and nobody who needs one row     *)
(* only (the order of flushBatch and revokeAllSessions against that of     *)
(* createSession, confirm, blockUserById and refreshJwtTokens).            *)
OrderedNeverDeadlock ==
    \A D \in SUBSET Transactions : Cycle(D) =>
        /\ \E t \in D : tx[t].kind \notin OrderedKinds
        /\ \A t \in D : tx[t].kind \notin {"oneUser", "oneSession", "register"}

(* The pool is used up, and a rejected reset is among those that keep it   *)
(* so: it waits for a second connection.                                   *)
Starved ==
    /\ InUse = PoolSize
    /\ \E t \in Transactions :
          tx[t].kind = "rejected" /\ conns[t] > 0 /\ Needs(t, "query")

(* Every transaction ends, though transactions wait for connections, for   *)
(* rows and for Redis at once, some of them holding a connection and a row *)
(* that others need, and PostgreSQL only sees the waits for rows.  There   *)
(* is one exception: confirmations of one reset code, as many as there are *)
(* connections, wait for the row of the one whose invalidateActiveCode     *)
(* waits for a connection, and all wait for ever.                          *)
TransactionsEnd ==
    \/ <>(\A t \in Transactions : tx[t].kind = "ended")
    \/ <>[]Starved
=============================================================================
