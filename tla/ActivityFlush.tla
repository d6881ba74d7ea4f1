---------------------------- MODULE ActivityFlush ----------------------------
(***************************************************************************)
(* Session activity, buffered in Redis and flushed to PostgreSQL: the      *)
(* interceptor stamps a key per session, a job that runs every minute      *)
(* scans the keys, raises last_used_at and last_activity_at in batches and *)
(* deletes the keys.  A run that takes longer than a minute overlaps the   *)
(* next one, and refreshes write last_used_at under the same row locks.    *)
(*                                                                         *)
(* A time is a tick of the clock; 0 stands for no key and for never.  All  *)
(* calls of one process go through one Redis connection, so each takes     *)
(* effect when it is issued.                                               *)
(***************************************************************************)
EXTENDS Integers, FiniteSets

CONSTANTS
  Users,        \* accounts
  SessionIds,   \* rows of auth_session, all there at the start
  Owner,        \* the account of each session
  Flushers,     \* runs of the job that may overlap
  Refresh,      \* holder of a row lock taken by refreshJwtTokens
  Nobody,       \* holder of a free lock
  BatchSize,    \* SESSION_ACTIVITY_FLUSH_BATCH_SIZE
  Ttl,          \* SESSION_ACTIVITY_TTL_SECONDS, in clock ticks
  MaxTime,      \* bound: the clock stops here
  MaxFailures   \* bound: no more failures than this

ASSUME ActivityAssumption ==
  /\ Owner \in [SessionIds -> Users]
  /\ IsFiniteSet(SessionIds)
  /\ Refresh # Nobody
  /\ {Refresh, Nobody} \cap Flushers = {}
  /\ BatchSize \in Nat \ {0}
  /\ Ttl \in Nat \ {0}
  /\ MaxTime \in Nat
  /\ MaxFailures \in Nat

VARIABLES
  buffer,        \* Redis: the date under the key of each session
  rows,          \* the sessions whose row exists
  lastUsed,      \* last_used_at of each row
  lastActivity,  \* last_activity_at of each account
  rowLock,       \* who holds the row lock of each session
  userLock,      \* who holds the row lock of each account
  flush,         \* the runs of the job
  closed,        \* accounts that were blocked or deleted
  now,           \* the clock
  failures,      \* how many batches and scans have failed
  recorded,      \* history: the last date stamped on each session
  since          \* history: `recorded` when each run began

tables == <<rows, lastUsed, lastActivity>>
locks == <<rowLock, userLock>>
history == <<recorded, since>>
vars == <<buffer, tables, locks, flush, closed, now, failures, history>>

Update == SessionIds \X Nat
Flush == [at : {"idle", "scan", "batch", "sessions", "users", "delete"},
          keys : SUBSET SessionIds,     \* keys the scan has still to return
          found : SUBSET Update,        \* updates not yet in a batch
          batch : SUBSET Update,        \* updates of the batch
          raised : [SessionIds -> Nat], \* last_used_at as the batch sets it
          todo : SUBSET SessionIds,     \* rows the first statement has to visit
          accounts : SUBSET Users]      \* rows the second has to visit

Nothing == [s \in SessionIds |-> 0]
Idle == [at |-> "idle", keys |-> {}, found |-> {}, batch |-> {}, raised |-> Nothing,
         todo |-> {}, accounts |-> {}]

Buffered == {s \in SessionIds : buffer[s] # 0}

Stamped(updates) == {update[1] : update \in updates}
Larger(a, b) == IF a < b THEN b ELSE a

-----------------------------------------------------------------------------
(* Requests: the interceptor, and the row of a refresh.                    *)

(* ActivityInterceptor.intercept, and createSession once it has committed. *)
(* A call that fails is ignored: it leaves no trace.                       *)
Record(s) ==
  /\ buffer' = [buffer EXCEPT ![s] = now]
  /\ recorded' = [recorded EXCEPT ![s] = now]
  /\ UNCHANGED <<tables, locks, flush, closed, now, failures, since>>

LockForRefresh(s) ==
  /\ s \in rows
  /\ rowLock[s] = Nobody
  /\ rowLock' = [rowLock EXCEPT ![s] = Refresh]
  /\ UNCHANGED <<buffer, tables, userLock, flush, closed, now, failures, history>>

(* The rotation writes new Date() under the lock and commits.              *)
CommitRefresh(s) ==
  /\ rowLock[s] = Refresh
  /\ lastUsed' = [lastUsed EXCEPT ![s] = now]
  /\ rowLock' = [rowLock EXCEPT ![s] = Nobody]
  /\ UNCHANGED <<buffer, rows, lastActivity, userLock, flush, closed, now, failures,
                 history>>

-----------------------------------------------------------------------------
(* The job: scan, then batches, each a transaction and a DEL.              *)

BeginFlush(f) ==
  /\ flush[f] = Idle
  /\ flush' = [flush EXCEPT ![f] = [Idle EXCEPT !.at = "scan", !.keys = Buffered]]
  /\ since' = [since EXCEPT ![f] = recorded]
  /\ UNCHANGED <<buffer, tables, locks, closed, now, failures, recorded>>

(* One page of SCAN and its MGET.  Keys that are there all along come in   *)
(* some page; a key may come twice, one added meanwhile may come, and the  *)
(* cursor may go on when all keys have come.                               *)
ScanPage(f) ==
  /\ flush[f].at = "scan"
  /\ \E page \in SUBSET SessionIds :
       /\ page # {}
       /\ flush' = [flush EXCEPT
            ![f] = [flush[f] EXCEPT
              !.keys = @ \ page,
              !.found = @ \cup {<<s, buffer[s]>> : s \in page \cap Buffered}]]
  /\ UNCHANGED <<buffer, tables, locks, closed, now, failures, history>>

EndScan(f) ==
  /\ flush[f].at = "scan"
  /\ flush[f].keys = {}
  /\ flush' = [flush EXCEPT ![f].at = "batch"]
  /\ UNCHANGED <<buffer, tables, locks, closed, now, failures, history>>

Batches(found) ==
  {batch \in SUBSET found :
     Cardinality(batch) = IF Cardinality(found) < BatchSize
                          THEN Cardinality(found) ELSE BatchSize}

(* Fault: the keys are deleted before the batch has committed.             *)
BeginBatchDeletesKeys(f) ==
  /\ flush[f].at = "batch"
  /\ flush[f].found # {}
  /\ \E batch \in Batches(flush[f].found) :
       /\ flush' = [flush EXCEPT ![f] = [flush[f] EXCEPT !.at = "delete", !.batch = batch,
                                                         !.found = @ \ batch]]
  /\ UNCHANGED <<buffer, tables, locks, closed, now, failures, history>>

BeginBatch(f) ==
  /\ flush[f].at = "batch"
  /\ flush[f].found # {}
  /\ \E batch \in Batches(flush[f].found) :
       flush' = [flush EXCEPT
         ![f] = [flush[f] EXCEPT !.at = "sessions",
                                 !.batch = batch,
                                 !.found = @ \ batch,
                                 !.todo = Stamped(batch),
                                 !.accounts = {Owner[s] : s \in Stamped(batch)}]]
  /\ UNCHANGED <<buffer, tables, locks, closed, now, failures, history>>

(* Fault: the statement assigns the date without GREATEST.                 *)
RaisedWithoutGreatest(s, date) == date

(* GREATEST(session.last_used_at, activity.last_used_at).                  *)
Raised(s, date) == Larger(lastUsed[s], date)

(* updateSessions locks a row and computes its new value; of two updates   *)
(* of one row, PostgreSQL takes either.  A row that is gone matches none.  *)
VisitSession(f, s) ==
  /\ flush[f].at = "sessions"
  /\ s \in flush[f].todo
  /\ \/ /\ s \notin rows
        /\ flush' = [flush EXCEPT ![f].todo = @ \ {s}]
        /\ UNCHANGED rowLock
     \/ /\ s \in rows
        /\ rowLock[s] = Nobody
        /\ rowLock' = [rowLock EXCEPT ![s] = f]
        /\ \E update \in flush[f].batch :
             /\ update[1] = s
             /\ flush' = [flush EXCEPT ![f] =
                        [flush[f] EXCEPT !.todo = @ \ {s},
                                         !.raised[s] = Raised(s, update[2])]]
  /\ UNCHANGED <<buffer, tables, userLock, closed, now, failures, history>>

EndSessions(f) ==
  /\ flush[f].at = "sessions"
  /\ flush[f].todo = {}
  /\ flush' = [flush EXCEPT ![f].at = "users"]
  /\ UNCHANGED <<buffer, tables, locks, closed, now, failures, history>>

(* updateUsers locks the account.                                          *)
VisitUser(f, u) ==
  /\ flush[f].at = "users"
  /\ u \in flush[f].accounts
  /\ userLock[u] = Nobody
  /\ userLock' = [userLock EXCEPT ![u] = f]
  /\ flush' = [flush EXCEPT ![f].accounts = @ \ {u}]
  /\ UNCHANGED <<buffer, tables, rowLock, closed, now, failures, history>>

Released(f) ==
  /\ rowLock' = [s \in SessionIds |-> IF rowLock[s] = f THEN Nobody ELSE rowLock[s]]
  /\ userLock' = [u \in Users |-> IF userLock[u] = f THEN Nobody ELSE userLock[u]]

Dates(u, updates) == {update[2] : update \in {b \in updates : Owner[b[1]] = u}}

(* Fault: the earliest update of an account is kept instead of the latest. *)
EarliestOf(u, updates) ==
  {date \in Dates(u, updates) : \A other \in Dates(u, updates) : date <= other}

(* latestByUser: the one latest date, if the account has an update.        *)
LatestOf(u, updates) ==
  {date \in Dates(u, updates) : \A other \in Dates(u, updates) : other <= date}

CommitBatch(f) ==
  /\ flush[f].at = "users"
  /\ flush[f].accounts = {}
  /\ lastUsed' = [s \in SessionIds |-> IF rowLock[s] = f THEN flush[f].raised[s]
                                       ELSE lastUsed[s]]
  /\ \E latest \in [Users -> {0} \cup {update[2] : update \in flush[f].batch}] :
       /\ \A u \in Users : IF userLock[u] = f THEN latest[u] \in LatestOf(u, flush[f].batch)
                                             ELSE latest[u] = 0
       /\ lastActivity' = [u \in Users |-> Larger(lastActivity[u], latest[u])]
  /\ Released(f)
  /\ flush' = [flush EXCEPT ![f] = [flush[f] EXCEPT !.at = "delete", !.raised = Nothing]]
  /\ UNCHANGED <<buffer, rows, closed, now, failures, history>>

(* Fault: only the keys of rows that were updated are deleted.             *)
DeleteKeysOfRows(f) ==
  /\ flush[f].at = "delete"
  /\ buffer' = [s \in SessionIds |->
       IF s \in Stamped(flush[f].batch) \cap rows THEN 0 ELSE buffer[s]]
  /\ flush' = [flush EXCEPT ![f] = [flush[f] EXCEPT !.at = "batch", !.batch = {}]]
  /\ UNCHANGED <<tables, locks, closed, now, failures, history>>

(* deleteKeys, whatever the keys hold by now.                              *)
DeleteKeys(f) ==
  /\ flush[f].at = "delete"
  /\ buffer' = [s \in SessionIds |-> IF s \in Stamped(flush[f].batch) THEN 0 ELSE buffer[s]]
  /\ flush' = [flush EXCEPT ![f] = [flush[f] EXCEPT !.at = "batch", !.batch = {}]]
  /\ UNCHANGED <<tables, locks, closed, now, failures, history>>

EndFlush(f) ==
  /\ flush[f].at = "batch"
  /\ flush[f].found = {}
  /\ flush' = [flush EXCEPT ![f] = Idle]
  /\ UNCHANGED <<buffer, tables, locks, closed, now, failures, history>>

(* A failed scan ends the run; a failed batch (a deadlock victim, a lost   *)
(* connection, Redis) is logged and the run goes on with the next one.     *)
Fail(f) ==
  /\ failures < MaxFailures
  /\ failures' = failures + 1
  /\ \/ /\ flush[f].at = "scan"
        /\ flush' = [flush EXCEPT ![f] = Idle]
     \/ /\ flush[f].at \in {"sessions", "users", "delete"}
        /\ flush' = [flush EXCEPT ![f] =
             [Idle EXCEPT !.at = "batch", !.found = flush[f].found]]
  /\ Released(f)
  /\ UNCHANGED <<buffer, tables, closed, now, history>>

-----------------------------------------------------------------------------
(* What else touches the keys and the rows.                                *)

(* Fault: sessions are recorded instead of their account.                  *)
CloseSessions(u) ==
  /\ u \notin closed
  /\ closed' = closed \cup {s \in SessionIds : Owner[s] = u}
  /\ UNCHANGED <<buffer, tables, locks, flush, now, failures, history>>

(* An administrator blocks or deletes the account.                         *)
Close(u) ==
  /\ u \notin closed
  /\ closed' = closed \cup {u}
  /\ UNCHANGED <<buffer, tables, locks, flush, now, failures, history>>

(* deleteUserActivities, not awaited: it may delete any part of the keys.  *)
Discard(u) ==
  /\ u \in closed
  /\ \E keys \in SUBSET {s \in Buffered : Owner[s] = u} :
       buffer' = [s \in SessionIds |-> IF s \in keys THEN 0 ELSE buffer[s]]
  /\ UNCHANGED <<tables, locks, flush, closed, now, failures, history>>

(* The cascade of a deleted account, or the clean-up of stale sessions.    *)
Remove(s) ==
  /\ s \in rows
  /\ rowLock[s] = Nobody
  /\ rows' = rows \ {s}
  /\ UNCHANGED <<buffer, lastUsed, lastActivity, locks, flush, closed, now, failures,
                 history>>

Expire(s) ==
  /\ s \in Buffered
  /\ now >= buffer[s] + Ttl
  /\ buffer' = [buffer EXCEPT ![s] = 0]
  /\ UNCHANGED <<tables, locks, flush, closed, now, failures, history>>

Tick ==
  /\ now < MaxTime
  /\ now' = now + 1
  /\ UNCHANGED <<buffer, tables, locks, flush, closed, failures, history>>

-----------------------------------------------------------------------------

Init ==
  /\ buffer = Nothing
  /\ rows = SessionIds
  /\ lastUsed = Nothing
  /\ lastActivity = [u \in Users |-> 0]
  /\ rowLock = [s \in SessionIds |-> Nobody]
  /\ userLock = [u \in Users |-> Nobody]
  /\ flush = [f \in Flushers |-> Idle]
  /\ closed = {}
  /\ now = 1
  /\ failures = 0
  /\ recorded = Nothing
  /\ since = [f \in Flushers |-> Nothing]

FlushStep(f) ==
  \/ BeginFlush(f)
  \/ ScanPage(f)
  \/ EndScan(f)
  \/ BeginBatch(f)
  \/ \E s \in SessionIds : VisitSession(f, s)
  \/ EndSessions(f)
  \/ \E u \in Users : VisitUser(f, u)
  \/ CommitBatch(f)
  \/ DeleteKeys(f)
  \/ EndFlush(f)

Next ==
  \/ \E f \in Flushers : FlushStep(f) \/ Fail(f)
  \/ \E s \in SessionIds : Record(s) \/ LockForRefresh(s) \/ CommitRefresh(s)
                        \/ Remove(s) \/ Expire(s)
  \/ \E u \in Users : Close(u) \/ Discard(u)
  \/ Tick

Spec == Init /\ [][Next]_vars

(* The job is started every minute and runs to its end.  A row lock that   *)
(* is asked for is granted in turn, so a run that waits for rows again and *)
(* again gets them (strong fairness); a refresh that has its row commits.  *)
Fairness ==
  /\ \A f \in Flushers : SF_vars(FlushStep(f))
  /\ \A s \in SessionIds : WF_vars(CommitRefresh(s))

FairSpec == Spec /\ Fairness

-----------------------------------------------------------------------------
(* Properties.                                                             *)

(* Every variable has its type.                                            *)
TypeOK ==
  /\ buffer \in [SessionIds -> Nat]
  /\ rows \subseteq SessionIds
  /\ lastUsed \in [SessionIds -> Nat]
  /\ lastActivity \in [Users -> Nat]
  /\ rowLock \in [SessionIds -> Flushers \cup {Refresh, Nobody}]
  /\ userLock \in [Users -> Flushers \cup {Nobody}]
  /\ flush \in [Flushers -> Flush]
  /\ closed \subseteq Users
  /\ now \in Nat
  /\ failures \in Nat
  /\ recorded \in [SessionIds -> Nat]
  /\ since \in [Flushers -> [SessionIds -> Nat]]

(* The inductive invariant behind the action properties, in parts.         *)

(* No date is ahead of the clock, and a key holds the last one.            *)
TimesArePast ==
  /\ now # 0
  /\ \A s \in SessionIds :
       /\ lastUsed[s] <= now
       /\ recorded[s] <= now
       /\ buffer[s] # 0 => buffer[s] = recorded[s]

(* What a run has found was stamped before now, and not before it began.   *)
FoundIsRecent(f) ==
  /\ \A s \in SessionIds : since[f][s] <= recorded[s]
  /\ \A update \in flush[f].found \cup flush[f].batch :
       since[f][update[1]] <= update[2] /\ update[2] <= now

(* A row locked by a run is about to keep its date or to get a later one   *)
(* that the batch has for it, and none from before the run began.          *)
LockedIsRaised(f) ==
  \A s \in SessionIds : rowLock[s] = f =>
    /\ flush[f].at \in {"sessions", "users"}
    /\ lastUsed[s] <= flush[f].raised[s]
    /\ since[f][s] <= flush[f].raised[s]
    /\ \/ flush[f].raised[s] = lastUsed[s]
       \/ <<s, flush[f].raised[s]>> \in flush[f].batch

(* A batch visits all its rows before it commits, and deletes the keys of  *)
(* rows that have caught up.                                               *)
BatchIsCovered(f) ==
  \A s \in Stamped(flush[f].batch) \cap rows :
    /\ flush[f].at = "sessions" => s \in flush[f].todo \/ rowLock[s] = f
    /\ flush[f].at = "users" => rowLock[s] = f
    /\ flush[f].at = "delete" => since[f][s] <= lastUsed[s]

(* A batch visits the accounts of all its sessions before it commits.      *)
AccountsAreCovered(f) ==
  flush[f].at \in {"sessions", "users"} =>
    \A s \in Stamped(flush[f].batch) :
      Owner[s] \in flush[f].accounts \/ userLock[Owner[s]] = f

RunInv(f) ==
  /\ FoundIsRecent(f)
  /\ LockedIsRaised(f)
  /\ BatchIsCovered(f)
  /\ AccountsAreCovered(f)

(* What the runs of the job keep in every state, however many overlap: the *)
(* inductive invariant of the properties below.                            *)
ActivityInv ==
  /\ TimesArePast
  /\ \A f \in Flushers : RunInv(f)

(* Neither last_used_at of a row nor last_activity_at of an account ever   *)
(* goes back, though batches carry dates older than the row and refreshes  *)
(* write between them.                                                     *)
TimesNeverGoBack ==
  [][/\ \A s \in SessionIds : lastUsed'[s] >= lastUsed[s]
     /\ \A u \in Users : lastActivity'[u] >= lastActivity[u]]_vars

(* A run deletes the key of a row only when everything stamped on the      *)
(* session before the run began has reached last_used_at: what overlapping *)
(* runs, failed batches and duplicate keys can lose is later than that.    *)
OnlyRecentIsLost ==
  [][\A f \in Flushers, s \in rows :
       flush[f].at = "delete" /\ flush'[f] # flush[f] /\ buffer[s] # 0 /\ buffer'[s] = 0
         => lastUsed[s] >= since[f][s]]_vars

(* A batch that raises a session raises its account at least as far, in    *)
(* the same commit.                                                        *)
AccountFollowsSession ==
  [][\A s \in SessionIds :
       lastUsed'[s] > lastUsed[s] /\ rowLock[s] \in Flushers
         => lastActivity'[Owner[s]] >= lastUsed'[s]]_vars

(* Every key leaves the buffer, that of a session without a row included:  *)
(* no failed batch and no row kept busy by refreshes leaves it behind.     *)
BufferDrains ==
  \A s \in SessionIds : buffer[s] # 0 ~> buffer[s] = 0

=============================================================================
