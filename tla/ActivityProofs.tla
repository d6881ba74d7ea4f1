--------------------------- MODULE ActivityProofs ---------------------------
(***************************************************************************)
(* Theorems about ActivityFlush, for every value of its constants.         *)
(***************************************************************************)
EXTENDS ActivityFlush, TLAPS

(* The types of the dates and of the records, one by one.                  *)
LEMMA Dated ==
  ASSUME TypeOK
  PROVE  /\ now \in Nat
         /\ \A s \in SessionIds :
              buffer[s] \in Nat /\ lastUsed[s] \in Nat /\ recorded[s] \in Nat
         /\ \A f \in Flushers : /\ flush[f] \in Flush
                                /\ flush[f].raised \in [SessionIds -> Nat]
                                /\ flush[f].found \subseteq Update
                                /\ flush[f].batch \subseteq Update
                                /\ flush[f].todo \subseteq SessionIds
                                /\ flush[f].accounts \subseteq Users
                                /\ since[f] \in [SessionIds -> Nat]
         /\ \A update \in Update : update[1] \in SessionIds /\ update[2] \in Nat
  BY DEF TypeOK, Flush, Update

(* The records of a run at rest, and of one that a failed batch leaves.    *)
LEMMA IdleIsFlush ==
  /\ Idle \in Flush
  /\ Nothing \in [SessionIds -> Nat]
  /\ \A found \in SUBSET Update :
       [Idle EXCEPT !.at = "batch", !.found = found] \in Flush
  BY DEF Idle, Flush, Nothing

-----------------------------------------------------------------------------
(* What the steps of a run do to its record; those of other runs stay.     *)

Others(f) == \A g \in Flushers \ {f} : flush'[g] = flush[g]

(* A run begins with nothing found, and notes what was stamped before it.  *)
LEMMA BeginEffect ==
  ASSUME TypeOK, NEW f \in Flushers, BeginFlush(f)
  PROVE  /\ flush' \in [Flushers -> Flush] /\ Others(f)
         /\ flush'[f].at = "scan"
         /\ flush'[f].found = {} /\ flush'[f].batch = {}
         /\ since'[f] = recorded
         /\ flush[f] = Idle
  <1>1. [Idle EXCEPT !.at = "scan", !.keys = Buffered] \in Flush
    BY IdleIsFlush DEF Flush, Idle, Buffered
  <1>2. flush'[f] = [Idle EXCEPT !.at = "scan", !.keys = Buffered]
    BY DEF BeginFlush, TypeOK
  <1> QED BY <1>1, <1>2 DEF BeginFlush, TypeOK, Idle, Others

(* A page adds dates that are in the buffer to those a run has found.      *)
LEMMA ScanEffect ==
  ASSUME TypeOK, NEW f \in Flushers, ScanPage(f)
  PROVE  /\ flush' \in [Flushers -> Flush] /\ Others(f)
         /\ flush[f].at = "scan" /\ flush'[f].at = "scan"
         /\ \A update \in flush'[f].found :
              \/ update \in flush[f].found
              \/ \E s \in SessionIds : buffer[s] # 0 /\ update = <<s, buffer[s]>>
         /\ flush'[f].batch = flush[f].batch
         /\ flush'[f].raised = flush[f].raised
  <1>1. PICK page \in SUBSET SessionIds :
          flush' = [flush EXCEPT
            ![f] = [flush[f] EXCEPT
              !.keys = @ \ page,
              !.found = @ \cup {<<s, buffer[s]>> : s \in page \cap Buffered}]]
    BY DEF ScanPage
  <1> DEFINE new == {<<s, buffer[s]>> : s \in page \cap Buffered}
  <1>2. new \subseteq Update
    BY Dated DEF Update
  <1>3. \A update \in new :
          \E s \in SessionIds : buffer[s] # 0 /\ update = <<s, buffer[s]>>
    BY DEF Buffered
  <1> HIDE DEF new
  <1>4. flush[f] \in Flush /\ flush[f].at = "scan"
    BY DEF TypeOK, ScanPage
  <1>5. /\ flush'[f] = [flush[f] EXCEPT !.keys = @ \ page, !.found = @ \cup new]
        /\ Others(f)
    BY <1>1 DEF TypeOK, Others, new
  <1>8. flush[f].keys \in SUBSET SessionIds /\ flush[f].found \in SUBSET Update
    BY <1>4 DEF Flush
  <1>9. flush[f].keys \ page \in SUBSET SessionIds
        /\ flush[f].found \cup new \in SUBSET Update
    BY <1>2, <1>8
  <1>6. /\ flush'[f].at = "scan"
        /\ flush'[f].batch = flush[f].batch
        /\ flush'[f].raised = flush[f].raised
        /\ flush'[f].found = flush[f].found \cup new
        /\ flush'[f] \in Flush
    BY <1>4, <1>5, <1>9 DEF Flush
  <1>7. flush' \in [Flushers -> Flush]
    BY <1>1, <1>5, <1>6 DEF TypeOK, Others
  <1> QED BY <1>3, <1>4, <1>5, <1>6, <1>7

(* A batch takes some of the updates that were found, and has all their    *)
(* sessions and accounts to visit.                                         *)
LEMMA BatchEffect ==
  ASSUME TypeOK, NEW f \in Flushers, BeginBatch(f)
  PROVE  /\ flush' \in [Flushers -> Flush] /\ Others(f)
         /\ flush[f].at = "batch" /\ flush'[f].at = "sessions"
         /\ flush'[f].found \cup flush'[f].batch \subseteq flush[f].found
         /\ flush'[f].todo = Stamped(flush'[f].batch)
         /\ flush'[f].accounts = {Owner[s] : s \in Stamped(flush'[f].batch)}
         /\ flush'[f].raised = flush[f].raised
  <1>1. PICK batch \in Batches(flush[f].found) :
          flush' = [flush EXCEPT
            ![f] = [flush[f] EXCEPT !.at = "sessions",
                                    !.batch = batch,
                                    !.found = @ \ batch,
                                    !.todo = Stamped(batch),
                                    !.accounts = {Owner[s] : s \in Stamped(batch)}]]
    BY DEF BeginBatch
  <1>2. flush[f] \in Flush /\ flush[f].found \subseteq Update /\ flush[f].at = "batch"
    BY Dated DEF BeginBatch
  <1>3. batch \subseteq flush[f].found
    BY <1>1 DEF Batches
  <1> DEFINE stamped == Stamped(batch)
             owners == {Owner[s] : s \in stamped}
  <1>4. stamped \subseteq SessionIds
    BY <1>2, <1>3 DEF Stamped, Update
  <1>5. owners \subseteq Users
    BY <1>4, ActivityAssumption
  <1>6. flush'[f] = [flush[f] EXCEPT !.at = "sessions", !.batch = batch,
                        !.found = @ \ batch, !.todo = stamped, !.accounts = owners]
    BY <1>1 DEF TypeOK
  <1> HIDE DEF stamped, owners
  <1>7. /\ flush'[f].at = "sessions" /\ flush'[f].batch = batch
        /\ flush'[f].found = flush[f].found \ batch
        /\ flush'[f].todo = stamped /\ flush'[f].accounts = owners
        /\ flush'[f].raised = flush[f].raised
    BY <1>2, <1>6 DEF Flush
  <1>9. flush'[f] \in Flush
    <2>1. [flush[f] EXCEPT !.at = "sessions", !.batch = batch, !.found = @ \ batch]
            \in Flush
      BY <1>2, <1>3 DEF Flush
    <2> DEFINE run == [flush[f] EXCEPT !.at = "sessions", !.batch = batch,
                                       !.found = @ \ batch]
    <2>2. flush'[f] = [run EXCEPT !.todo = stamped, !.accounts = owners]
      BY <1>6
    <2> HIDE DEF run
    <2>3. run \in Flush
      BY <2>1 DEF run
    <2> QED BY <1>4, <1>5, <2>2, <2>3 DEF Flush
  <1>8. flush' \in [Flushers -> Flush] /\ Others(f)
    BY <1>1, <1>9 DEF TypeOK, Others
  <1> QED BY <1>2, <1>3, <1>7, <1>8 DEF stamped, owners

(* A visit locks the row of a session if it is there and free, and takes   *)
(* the later of its date and of one the batch has for it.                  *)
LEMMA VisitEffect ==
  ASSUME TypeOK, NEW f \in Flushers, NEW s \in SessionIds, VisitSession(f, s)
  PROVE  /\ flush' \in [Flushers -> Flush] /\ Others(f)
         /\ flush[f].at = "sessions" /\ flush'[f].at = "sessions"
         /\ flush'[f].found = flush[f].found /\ flush'[f].batch = flush[f].batch
         /\ flush'[f].todo = flush[f].todo \ {s}
         /\ flush'[f].accounts = flush[f].accounts
         /\ \A r \in SessionIds \ {s} : /\ flush'[f].raised[r] = flush[f].raised[r]
                                        /\ rowLock'[r] = rowLock[r]
         /\ \/ /\ s \notin rows
               /\ flush'[f].raised[s] = flush[f].raised[s]
               /\ rowLock' = rowLock
            \/ /\ s \in rows
               /\ rowLock[s] = Nobody /\ rowLock'[s] = f
               /\ \E update \in flush[f].batch :
                    update[1] = s /\ flush'[f].raised[s] = Raised(s, update[2])
  <1>0. /\ flush[f] \in Flush /\ flush[f].at = "sessions"
        /\ flush[f].raised \in [SessionIds -> Nat]
    BY Dated DEF VisitSession
  <1>1. CASE s \notin rows
    <2>1. /\ flush' = [flush EXCEPT ![f].todo = @ \ {s}]
          /\ rowLock' = rowLock
      BY <1>1 DEF VisitSession
    <2> QED BY <1>0, <1>1, <2>1 DEF TypeOK, Flush, Others
  <1>2. CASE s \in rows
    <2>1. PICK update \in flush[f].batch :
            /\ update[1] = s
            /\ flush' = [flush EXCEPT ![f] =
                        [flush[f] EXCEPT !.todo = @ \ {s},
                                         !.raised[s] = Raised(s, update[2])]]
      BY <1>2 DEF VisitSession
    <2> DEFINE raised == [flush[f].raised EXCEPT ![s] = Raised(s, update[2])]
    <2>2. raised \in [SessionIds -> Nat]
      <3>1. Raised(s, update[2]) \in Nat
        BY Dated DEF Raised, Larger
      <3> QED BY <1>0, <3>1
    <2>3. /\ rowLock[s] = Nobody /\ rowLock'[s] = f
          /\ \A r \in SessionIds \ {s} : rowLock'[r] = rowLock[r]
      BY <1>2 DEF VisitSession, TypeOK
    <2>4. /\ raised[s] = Raised(s, update[2])
          /\ \A r \in SessionIds \ {s} : raised[r] = flush[f].raised[r]
      BY <1>0
    <2>5. flush'[f] = [flush[f] EXCEPT !.todo = @ \ {s}, !.raised = raised]
      BY <1>0, <2>1 DEF TypeOK, Flush
    <2> HIDE DEF raised
    <2>6. /\ flush'[f].at = "sessions"
          /\ flush'[f].found = flush[f].found /\ flush'[f].batch = flush[f].batch
          /\ flush'[f].todo = flush[f].todo \ {s}
          /\ flush'[f].accounts = flush[f].accounts
          /\ flush'[f].raised = raised
          /\ flush'[f] \in Flush
      BY <1>0, <2>2, <2>5 DEF Flush
    <2>7. Others(f) /\ flush' \in [Flushers -> Flush]
      BY <2>1, <2>6 DEF TypeOK, Others
    <2> QED BY <1>0, <1>2, <2>1, <2>3, <2>4, <2>6, <2>7
  <1> QED BY <1>1, <1>2

(* Releasing the locks of a run leaves those of others.                    *)
LEMMA ReleasedEffect ==
  ASSUME TypeOK, NEW f \in Flushers, Released(f)
  PROVE  /\ rowLock' \in [SessionIds -> Flushers \cup {Refresh, Nobody}]
         /\ userLock' \in [Users -> Flushers \cup {Nobody}]
         /\ \A s \in SessionIds :
              rowLock'[s] = IF rowLock[s] = f THEN Nobody ELSE rowLock[s]
         /\ \A u \in Users :
              userLock'[u] = IF userLock[u] = f THEN Nobody ELSE userLock[u]
  BY DEF Released, TypeOK

(* A failure empties the batch and keeps what was found; or ends the run.  *)
LEMMA FailEffect ==
  ASSUME TypeOK, NEW f \in Flushers, Fail(f)
  PROVE  /\ flush' \in [Flushers -> Flush] /\ Others(f)
         /\ flush'[f].at \in {"idle", "batch"}
         /\ flush'[f].found \subseteq flush[f].found /\ flush'[f].batch = {}
  <1>1. \/ flush' = [flush EXCEPT ![f] = Idle]
        \/ flush' = [flush EXCEPT ![f] =
                       [Idle EXCEPT !.at = "batch", !.found = flush[f].found]]
    BY DEF Fail
  <1>2. \/ flush'[f] = Idle
        \/ flush'[f] = [Idle EXCEPT !.at = "batch", !.found = flush[f].found]
    BY <1>1 DEF TypeOK
  <1>3. flush'[f] \in Flush
    <2>1. flush[f].found \in SUBSET Update
      BY Dated
    <2>2. [Idle EXCEPT !.at = "batch", !.found = flush[f].found] \in Flush
      BY <2>1, IdleIsFlush
    <2> QED BY <1>2, <2>2, IdleIsFlush
  <1>4. flush' \in [Flushers -> Flush] /\ Others(f)
    <2>1. DOMAIN flush' = Flushers /\ flush' = [g \in Flushers |-> flush'[g]]
      BY <1>1 DEF TypeOK
    <2>2. Others(f)
      BY <1>1 DEF TypeOK, Others
    <2>3. \A g \in Flushers : flush'[g] \in Flush
      BY <1>3, <2>2 DEF TypeOK, Others
    <2> QED BY <2>1, <2>2, <2>3
  <1>5. CASE flush'[f] = Idle
    BY <1>4, <1>5 DEF Idle
  <1>6. CASE flush'[f] = [Idle EXCEPT !.at = "batch", !.found = flush[f].found]
    BY <1>4, <1>6 DEF Idle
  <1> QED BY <1>2, <1>5, <1>6

(* A commit writes the dates of the rows that the run has locked, and the  *)
(* latest date of each account that it has locked.                         *)
LEMMA CommitEffect ==
  ASSUME TypeOK, NEW f \in Flushers, CommitBatch(f)
  PROVE  /\ flush' \in [Flushers -> Flush] /\ Others(f)
         /\ flush[f].at = "users" /\ flush'[f].at = "delete"
         /\ flush[f].accounts = {}
         /\ flush'[f].found = flush[f].found /\ flush'[f].batch = flush[f].batch
         /\ \A s \in SessionIds :
              lastUsed'[s] = IF rowLock[s] = f THEN flush[f].raised[s] ELSE lastUsed[s]
         /\ lastUsed' \in [SessionIds -> Nat]
         /\ lastActivity' \in [Users -> Nat]
         /\ \A u \in Users : lastActivity'[u] >= lastActivity[u]
         /\ \A update \in flush[f].batch :
              userLock[Owner[update[1]]] = f
                => lastActivity'[Owner[update[1]]] >= update[2]
  <1>1. flush[f] \in Flush /\ flush[f].at = "users" /\ flush[f].accounts = {}
    BY Dated DEF CommitBatch
  <1>2. flush' = [flush EXCEPT ![f] = [flush[f] EXCEPT !.at = "delete", !.raised = Nothing]]
    BY DEF CommitBatch
  <1>3. flush'[f] = [flush[f] EXCEPT !.at = "delete", !.raised = Nothing] /\ Others(f)
    BY <1>2 DEF TypeOK, Others
  <1>4. /\ flush'[f].at = "delete"
        /\ flush'[f].found = flush[f].found /\ flush'[f].batch = flush[f].batch
    BY <1>1, <1>3 DEF Flush
  <1>5. flush' \in [Flushers -> Flush]
    <2>1. Nothing \in [SessionIds -> Nat]
      BY IdleIsFlush
    <2>2. flush'[f] \in Flush
      BY <1>1, <1>3, <2>1 DEF Flush
    <2> QED BY <1>2, <2>2 DEF TypeOK
  <1>6. PICK latest \in [Users -> {0} \cup {update[2] : update \in flush[f].batch}] :
          /\ \A u \in Users : IF userLock[u] = f
                              THEN latest[u] \in LatestOf(u, flush[f].batch)
                              ELSE latest[u] = 0
          /\ lastActivity' = [u \in Users |-> Larger(lastActivity[u], latest[u])]
    BY DEF CommitBatch
  <1>7. latest \in [Users -> Nat] /\ \A u \in Users : lastActivity[u] \in Nat
    <2>1. {0} \cup {update[2] : update \in flush[f].batch} \subseteq Nat
      BY Dated
    <2> QED BY <1>6, <2>1 DEF TypeOK
  <1>8. /\ lastActivity' \in [Users -> Nat]
        /\ \A u \in Users : /\ lastActivity'[u] >= lastActivity[u]
                            /\ lastActivity'[u] >= latest[u]
    <2>1. \A u \in Users : /\ Larger(lastActivity[u], latest[u]) \in Nat
                           /\ Larger(lastActivity[u], latest[u]) >= lastActivity[u]
                           /\ Larger(lastActivity[u], latest[u]) >= latest[u]
      BY <1>7 DEF Larger
    <2> QED BY <1>6, <2>1
  <1>9. ASSUME NEW update \in flush[f].batch, userLock[Owner[update[1]]] = f
        PROVE  lastActivity'[Owner[update[1]]] >= update[2]
    <2> DEFINE u == Owner[update[1]]
    <2>1. u \in Users /\ update[2] \in Nat
      BY Dated, ActivityAssumption
    <2>2. update[2] \in Dates(u, flush[f].batch)
      BY DEF Dates
    <2>3. latest[u] \in LatestOf(u, flush[f].batch)
      BY <1>6, <1>9, <2>1
    <2>4. update[2] <= latest[u]
      BY <2>2, <2>3 DEF LatestOf
    <2>5. lastActivity'[u] >= latest[u] /\ lastActivity'[u] \in Nat /\ latest[u] \in Nat
      BY <1>7, <1>8, <2>1
    <2> HIDE DEF u
    <2>6. lastActivity'[u] >= update[2]
      BY <2>1, <2>4, <2>5
    <2> QED BY <2>6 DEF u
  <1>10. /\ \A s \in SessionIds :
              lastUsed'[s] = IF rowLock[s] = f THEN flush[f].raised[s] ELSE lastUsed[s]
         /\ lastUsed' \in [SessionIds -> Nat]
    BY Dated DEF CommitBatch
  <1> QED BY <1>1, <1>3, <1>4, <1>5, <1>8, <1>9, <1>10

(* Deleting the keys of a batch ends the batch.                            *)
LEMMA DeleteEffect ==
  ASSUME TypeOK, NEW f \in Flushers, DeleteKeys(f)
  PROVE  /\ flush' \in [Flushers -> Flush] /\ Others(f)
         /\ flush[f].at = "delete" /\ flush'[f].at = "batch"
         /\ flush'[f].found = flush[f].found /\ flush'[f].batch = {}
         /\ flush'[f].raised = flush[f].raised
         /\ buffer' \in [SessionIds -> Nat]
         /\ \A s \in SessionIds :
              buffer'[s] = IF s \in Stamped(flush[f].batch) THEN 0 ELSE buffer[s]
  <1>1. flush[f] \in Flush
    BY DEF TypeOK
  <1> QED BY <1>1 DEF DeleteKeys, TypeOK, Flush, Others

(* The steps that only move a run on.                                      *)
LEMMA MoveEffect ==
  ASSUME TypeOK, NEW f \in Flushers,
         \/ EndScan(f)
         \/ EndSessions(f)
         \/ \E u \in Users : VisitUser(f, u)
  PROVE  /\ flush' \in [Flushers -> Flush] /\ Others(f)
         /\ flush'[f].found = flush[f].found /\ flush'[f].batch = flush[f].batch
         /\ flush'[f].raised = flush[f].raised
         /\ flush'[f].todo = flush[f].todo
  <1>1. flush[f] \in Flush
    BY DEF TypeOK
  <1>2. CASE EndScan(f)
    BY <1>1, <1>2 DEF EndScan, TypeOK, Flush, Others
  <1>3. CASE EndSessions(f)
    BY <1>1, <1>3 DEF EndSessions, TypeOK, Flush, Others
  <1>4. ASSUME NEW u \in Users, VisitUser(f, u)
        PROVE  /\ flush' \in [Flushers -> Flush] /\ Others(f)
               /\ flush'[f].found = flush[f].found /\ flush'[f].batch = flush[f].batch
               /\ flush'[f].raised = flush[f].raised
               /\ flush'[f].todo = flush[f].todo
    BY <1>1, <1>4 DEF VisitUser, TypeOK, Flush, Others
  <1> QED BY <1>2, <1>3, <1>4

(* A run that is over is at rest.                                          *)
LEMMA EndEffect ==
  ASSUME TypeOK, NEW f \in Flushers, EndFlush(f)
  PROVE  /\ flush' \in [Flushers -> Flush] /\ Others(f)
         /\ flush[f].at = "batch" /\ flush'[f] = Idle
  BY IdleIsFlush DEF EndFlush, TypeOK, Others

-----------------------------------------------------------------------------
(* Types.                                                                  *)

(* Every step keeps the types.                                             *)
LEMMA NextIsTyped ==
  ASSUME TypeOK, [Next]_vars
  PROVE  TypeOK'
  <1> USE ActivityAssumption DEF tables, locks, history
  <1>1. ASSUME NEW s \in SessionIds,
               Record(s) \/ LockForRefresh(s) \/ CommitRefresh(s) \/ Remove(s) \/ Expire(s)
        PROVE  TypeOK'
    <2>1. CASE Record(s)
      BY <2>1 DEF Record, TypeOK
    <2>2. CASE LockForRefresh(s)
      BY <2>2 DEF LockForRefresh, TypeOK
    <2>3. CASE CommitRefresh(s)
      BY <2>3 DEF CommitRefresh, TypeOK
    <2>4. CASE Remove(s)
      BY <2>4 DEF Remove, TypeOK
    <2>5. CASE Expire(s)
      BY <2>5 DEF Expire, TypeOK
    <2> QED BY <1>1, <2>1, <2>2, <2>3, <2>4, <2>5
  <1>2. ASSUME NEW f \in Flushers, BeginFlush(f) PROVE TypeOK'
    BY <1>2, BeginEffect DEF BeginFlush, TypeOK
  <1>3. ASSUME NEW f \in Flushers, ScanPage(f) PROVE TypeOK'
    BY <1>3, ScanEffect DEF ScanPage, TypeOK
  <1>4. ASSUME NEW f \in Flushers, EndScan(f) \/ EndSessions(f) PROVE TypeOK'
    BY <1>4, MoveEffect DEF EndScan, EndSessions, TypeOK
  <1>5. ASSUME NEW f \in Flushers, BeginBatch(f) PROVE TypeOK'
    BY <1>5, BatchEffect DEF BeginBatch, TypeOK
  <1>6. ASSUME NEW f \in Flushers, NEW s \in SessionIds, VisitSession(f, s)
        PROVE  TypeOK'
    <2>1. rowLock' \in [SessionIds -> Flushers \cup {Refresh, Nobody}]
      BY <1>6, ZenonT(60) DEF VisitSession, TypeOK
    <2> QED BY <1>6, <2>1, VisitEffect DEF VisitSession, TypeOK
  <1>7. ASSUME NEW f \in Flushers, NEW u \in Users, VisitUser(f, u) PROVE TypeOK'
    BY <1>7, MoveEffect DEF VisitUser, TypeOK
  <1>8. ASSUME NEW f \in Flushers, CommitBatch(f) PROVE TypeOK'
    BY <1>8, CommitEffect, ReleasedEffect DEF CommitBatch, TypeOK
  <1>9. ASSUME NEW f \in Flushers, DeleteKeys(f) PROVE TypeOK'
    BY <1>9, DeleteEffect DEF DeleteKeys, TypeOK
  <1>10. ASSUME NEW f \in Flushers, EndFlush(f) PROVE TypeOK'
    BY <1>10, EndEffect DEF EndFlush, TypeOK
  <1>11. ASSUME NEW f \in Flushers, Fail(f) PROVE TypeOK'
    <2>1. /\ Released(f) /\ failures' = failures + 1
          /\ UNCHANGED <<buffer, tables, closed, now, history>>
      BY <1>11 DEF Fail
    <2> QED BY <1>11, <2>1, FailEffect, ReleasedEffect DEF TypeOK
  <1>12. ASSUME NEW u \in Users, Close(u) \/ Discard(u) PROVE TypeOK'
    BY <1>12 DEF Close, Discard, TypeOK
  <1>13. CASE Tick
    BY <1>13 DEF Tick, TypeOK
  <1>14. CASE UNCHANGED vars
    BY <1>14 DEF vars, TypeOK
  <1> QED BY <1>1, <1>2, <1>3, <1>4, <1>5, <1>6, <1>7, <1>8, <1>9, <1>10, <1>11,
             <1>12, <1>13, <1>14 DEF Next, FlushStep

(* The state at the start has the types.                                   *)
LEMMA InitIsTyped ==
  ASSUME Init
  PROVE  TypeOK
  BY IdleIsFlush DEF Init, TypeOK

(* Every variable of the activity job has its type in every state.         *)
THEOREM TypeCorrect == Spec => []TypeOK
  <1>1. Init => TypeOK
    BY InitIsTyped
  <1>2. TypeOK /\ [Next]_vars => TypeOK'
    BY NextIsTyped
  <1> QED BY <1>1, <1>2, PTL DEF Spec

-----------------------------------------------------------------------------
(* What a step does, seen from one run and from the tables.                *)

(* A step that leaves alone the run f, the locks it holds and the rows it  *)
(* has locked.                                                             *)
Quiet(f) ==
  /\ flush'[f] = flush[f] /\ since'[f] = since[f]
  /\ \A s \in SessionIds : /\ rowLock'[s] = f <=> rowLock[s] = f
                           /\ rowLock[s] = f => lastUsed'[s] = lastUsed[s]
  /\ \A u \in Users : userLock[u] = f => userLock'[u] = f

(* Only its own steps touch a run, its locks and its rows.                 *)
LEMMA NextIsQuiet ==
  ASSUME TypeOK, [Next]_vars, NEW f \in Flushers
  PROVE  Quiet(f) \/ FlushStep(f) \/ Fail(f)
  <1> USE ActivityAssumption DEF tables, locks, history
  <1>1. ASSUME NEW s \in SessionIds,
               Record(s) \/ LockForRefresh(s) \/ CommitRefresh(s) \/ Remove(s) \/ Expire(s)
        PROVE  Quiet(f)
    BY <1>1 DEF Record, LockForRefresh, CommitRefresh, Remove, Expire, TypeOK, Quiet
  <1>2. ASSUME NEW g \in Flushers \ {f}, BeginFlush(g) PROVE Quiet(f)
    BY <1>2, BeginEffect DEF BeginFlush, TypeOK, Others, Quiet
  <1>3. ASSUME NEW g \in Flushers \ {f}, ScanPage(g) PROVE Quiet(f)
    BY <1>3, ScanEffect DEF ScanPage, Others, Quiet
  <1>4. ASSUME NEW g \in Flushers \ {f}, EndScan(g) \/ EndSessions(g) PROVE Quiet(f)
    BY <1>4, MoveEffect DEF EndScan, EndSessions, Others, Quiet
  <1>5. ASSUME NEW g \in Flushers \ {f}, BeginBatch(g) PROVE Quiet(f)
    BY <1>5, BatchEffect DEF BeginBatch, Others, Quiet
  <1>6. ASSUME NEW g \in Flushers \ {f}, NEW s \in SessionIds, VisitSession(g, s)
        PROVE  Quiet(f)
    <2>1. UNCHANGED <<lastUsed, userLock, since>>
      BY <1>6 DEF VisitSession
    <2> QED BY <1>6, <2>1, VisitEffect DEF Others, Quiet
  <1>7. ASSUME NEW g \in Flushers \ {f}, NEW u \in Users, VisitUser(g, u)
        PROVE  Quiet(f)
    BY <1>7, MoveEffect DEF VisitUser, TypeOK, Others, Quiet
  <1>8. ASSUME NEW g \in Flushers \ {f}, CommitBatch(g) PROVE Quiet(f)
    <2>1. Released(g) /\ UNCHANGED since
      BY <1>8 DEF CommitBatch
    <2> QED BY <1>8, <2>1, CommitEffect, ReleasedEffect DEF Others, Quiet
  <1>9. ASSUME NEW g \in Flushers \ {f}, DeleteKeys(g) PROVE Quiet(f)
    BY <1>9, DeleteEffect DEF DeleteKeys, Others, Quiet
  <1>10. ASSUME NEW g \in Flushers \ {f}, EndFlush(g) PROVE Quiet(f)
    BY <1>10, EndEffect DEF EndFlush, Others, Quiet
  <1>11. ASSUME NEW g \in Flushers \ {f}, Fail(g) PROVE Quiet(f)
    <2>1. Released(g) /\ UNCHANGED <<since, lastUsed>>
      BY <1>11 DEF Fail
    <2> QED BY <1>11, <2>1, FailEffect, ReleasedEffect DEF Others, Quiet
  <1>12. ASSUME NEW u \in Users, Close(u) \/ Discard(u) PROVE Quiet(f)
    BY <1>12 DEF Close, Discard, Quiet
  <1>13. CASE Tick \/ UNCHANGED vars
    BY <1>13 DEF Tick, vars, Quiet
  <1> QED BY <1>1, <1>2, <1>3, <1>4, <1>5, <1>6, <1>7, <1>8, <1>9, <1>10, <1>11,
             <1>12, <1>13 DEF Next, FlushStep

(* The clock and the dates of rows only go forward, no date gets ahead of  *)
(* the clock, and rows are only removed.                                   *)
Forward ==
  /\ now <= now' /\ now' \in Nat /\ rows' \subseteq rows
  /\ \A s \in SessionIds :
       /\ recorded'[s] \in Nat /\ lastUsed'[s] \in Nat
       /\ recorded[s] <= recorded'[s] /\ recorded'[s] <= now'
       /\ lastUsed[s] <= lastUsed'[s] /\ lastUsed'[s] <= now'
       /\ buffer'[s] # 0 => buffer'[s] = recorded'[s]

(* A date that a run has for a row it has locked is not ahead of the clock.*)
LEMMA RaisedIsPast ==
  ASSUME TypeOK, ActivityInv, NEW f \in Flushers, NEW s \in SessionIds,
         rowLock[s] = f
  PROVE  lastUsed[s] <= flush[f].raised[s] /\ flush[f].raised[s] <= now
  <1>1. /\ lastUsed[s] <= flush[f].raised[s]
        /\ \/ flush[f].raised[s] = lastUsed[s]
           \/ <<s, flush[f].raised[s]>> \in flush[f].batch
    BY DEF ActivityInv, RunInv, LockedIsRaised
  <1>2. \A update \in flush[f].batch : update[2] <= now
    BY DEF ActivityInv, RunInv, FoundIsRecent
  <1> QED BY <1>1, <1>2 DEF ActivityInv, TimesArePast

(* Every step goes forward: a commit of a batch because it writes the later*)
(* of two dates, a rotation because it writes the present one.             *)
LEMMA NextGoesForward ==
  ASSUME TypeOK, ActivityInv, [Next]_vars
  PROVE  Forward
  <1>00. now' \in Nat /\ \A s \in SessionIds : recorded'[s] \in Nat /\ lastUsed'[s] \in Nat
    BY NextIsTyped DEF TypeOK
  <1> USE <1>00, Dated DEF tables, locks, history, Forward
  <1>0. /\ now # 0
        /\ \A s \in SessionIds : /\ lastUsed[s] <= now
                                 /\ recorded[s] <= now
                                 /\ buffer[s] # 0 => buffer[s] = recorded[s]
    BY DEF ActivityInv, TimesArePast
  <1>1. CASE UNCHANGED <<buffer, rows, lastUsed, now, recorded>>
    BY <1>0, <1>1
  <1>2. ASSUME NEW s \in SessionIds,
               Record(s) \/ LockForRefresh(s) \/ CommitRefresh(s) \/ Remove(s) \/ Expire(s)
        PROVE  Forward
    <2>1. CASE Record(s)
      BY <1>0, <2>1 DEF Record, TypeOK
    <2>2. CASE LockForRefresh(s)
      BY <1>1, <2>2 DEF LockForRefresh
    <2>3. CASE CommitRefresh(s)
      BY <1>0, <2>3 DEF CommitRefresh, TypeOK
    <2>4. CASE Remove(s)
      BY <1>0, <2>4 DEF Remove
    <2>5. CASE Expire(s)
      BY <1>0, <2>5 DEF Expire, TypeOK
    <2> QED BY <1>2, <2>1, <2>2, <2>3, <2>4, <2>5
  <1>3. ASSUME NEW f \in Flushers, CommitBatch(f) PROVE Forward
    <2>1. UNCHANGED <<buffer, rows, now, recorded>>
      BY <1>3 DEF CommitBatch
    <2>2. \A s \in SessionIds : lastUsed[s] <= lastUsed'[s] /\ lastUsed'[s] <= now'
      BY <1>0, <1>3, <2>1, CommitEffect, RaisedIsPast
    <2> QED BY <1>0, <2>1, <2>2
  <1>4. ASSUME NEW f \in Flushers, DeleteKeys(f) PROVE Forward
    BY <1>0, <1>4 DEF DeleteKeys
  <1>5. ASSUME NEW f \in Flushers, FlushStep(f) \/ Fail(f) PROVE Forward
    BY <1>1, <1>3, <1>4, <1>5
       DEF FlushStep, BeginFlush, ScanPage, EndScan, BeginBatch, VisitSession,
           EndSessions, VisitUser, EndFlush, Fail
  <1>6. ASSUME NEW u \in Users, Discard(u) PROVE Forward
    BY <1>0, <1>6 DEF Discard
  <1>7. ASSUME NEW u \in Users, Close(u) PROVE Forward
    BY <1>1, <1>7 DEF Close
  <1>8. CASE Tick
    BY <1>0, <1>8 DEF Tick
  <1>9. CASE UNCHANGED vars
    BY <1>1, <1>9 DEF vars
  <1> QED BY <1>2, <1>5, <1>6, <1>7, <1>8, <1>9 DEF Next

-----------------------------------------------------------------------------
(* The invariant, step by step.                                            *)

(* What a run has found is still recent when it is found to be part of what*)
(* it had found before.                                                    *)
LEMMA FoundStaysRecent ==
  ASSUME TypeOK, ActivityInv, Forward, NEW f \in Flushers, since'[f] = since[f],
         flush'[f].found \cup flush'[f].batch \subseteq flush[f].found \cup flush[f].batch
  PROVE  FoundIsRecent(f)'
  <1>1. \A update \in flush[f].found \cup flush[f].batch :
          update[1] \in SessionIds /\ update[2] \in Nat
    BY Dated
  <1>2. \A s \in SessionIds : since'[f][s] <= recorded'[s]
    BY Dated DEF Forward, ActivityInv, RunInv, FoundIsRecent
  <1>3. ASSUME NEW update \in flush'[f].found \cup flush'[f].batch
        PROVE  since'[f][update[1]] <= update[2] /\ update[2] <= now'
    <2>1. update \in flush[f].found \cup flush[f].batch
      BY <1>3
    <2>2. since[f][update[1]] <= update[2] /\ update[2] <= now
      BY <2>1 DEF ActivityInv, RunInv, FoundIsRecent
    <2> QED BY <1>1, <2>1, <2>2, Dated DEF Forward
  <1> QED BY <1>2, <1>3 DEF FoundIsRecent

(* A run that a step leaves alone keeps its part of the invariant.         *)
LEMMA QuietKeeps ==
  ASSUME TypeOK, ActivityInv, NEW f \in Flushers, Quiet(f), Forward
  PROVE  RunInv(f)'
  <1> USE Dated DEF Quiet, Forward, ActivityInv, RunInv
  <1>0. /\ \A update \in flush[f].found \cup flush[f].batch :
             update[1] \in SessionIds /\ update[2] \in Nat
        /\ \A s \in Stamped(flush[f].batch) : s \in SessionIds /\ Owner[s] \in Users
    BY ActivityAssumption DEF Stamped
  <1>1. FoundIsRecent(f)'
    BY FoundStaysRecent
  <1>2. LockedIsRaised(f)'
    BY <1>0 DEF LockedIsRaised
  <1>3. BatchIsCovered(f)'
    <2>1. ASSUME NEW s \in Stamped(flush[f].batch) \cap rows,
                 flush[f].at = "delete"
          PROVE  since[f][s] <= lastUsed'[s]
      BY <1>0, <2>1 DEF BatchIsCovered
    <2> QED BY <1>0, <2>1 DEF BatchIsCovered, Stamped
  <1>4. AccountsAreCovered(f)'
    BY <1>0 DEF AccountsAreCovered, Stamped
  <1> QED BY <1>1, <1>2, <1>3, <1>4

(* A run that is not in a batch has locked no row and has nothing to cover.*)
LEMMA OutOfBatch ==
  ASSUME NEW f \in Flushers, flush'[f].at \in {"idle", "scan", "batch"},
         \A s \in SessionIds : rowLock'[s] # f,
         FoundIsRecent(f)'
  PROVE  RunInv(f)'
  BY DEF RunInv, LockedIsRaised, BatchIsCovered, AccountsAreCovered

(* Only a run that is in the first or second statement has locked rows.    *)
LEMMA LocksInBatch ==
  ASSUME ActivityInv, NEW f \in Flushers, flush[f].at \notin {"sessions", "users"}
  PROVE  \A s \in SessionIds : rowLock[s] # f
  BY DEF ActivityInv, RunInv, LockedIsRaised

(* The scan: what it finds is the last date stamped, recorded since.       *)
LEMMA ScanKeeps ==
  ASSUME TypeOK, ActivityInv, Forward, NEW f \in Flushers,
         BeginFlush(f) \/ ScanPage(f) \/ EndScan(f)
  PROVE  RunInv(f)'
  <1> USE DEF locks, history, tables
  <1>1. CASE BeginFlush(f)
    <2>1. FoundIsRecent(f)'
      <3>1. recorded' = recorded
        BY <1>1 DEF BeginFlush
      <3> QED BY <1>1, <3>1, BeginEffect, Dated DEF FoundIsRecent
    <2>2. \A s \in SessionIds : rowLock'[s] # f
      BY <1>1, BeginEffect, LocksInBatch DEF BeginFlush, Idle
    <2> QED BY <1>1, <2>1, <2>2, BeginEffect, OutOfBatch
  <1>2. CASE ScanPage(f)
    <2>1. UNCHANGED <<now, recorded, since, rowLock>>
      BY <1>2 DEF ScanPage
    <2>2. FoundIsRecent(f)'
      <3>1. ASSUME NEW update \in flush'[f].found \cup flush'[f].batch
            PROVE  since[f][update[1]] <= update[2] /\ update[2] <= now
        <4>1. CASE update \in flush[f].found \cup flush[f].batch
          BY <4>1 DEF ActivityInv, RunInv, FoundIsRecent
        <4>2. ASSUME NEW s \in SessionIds, buffer[s] # 0, update = <<s, buffer[s]>>
              PROVE  since[f][update[1]] <= update[2] /\ update[2] <= now
          BY <4>2 DEF ActivityInv, RunInv, TimesArePast, FoundIsRecent
        <4> QED BY <1>2, <3>1, <4>1, <4>2, ScanEffect
      <3> QED BY <2>1, <3>1 DEF ActivityInv, RunInv, FoundIsRecent
    <2> QED BY <1>2, <2>1, <2>2, ScanEffect, LocksInBatch, OutOfBatch
  <1>3. CASE EndScan(f)
    <2>1. flush[f].at = "scan" /\ flush'[f].at = "batch"
      BY <1>3 DEF EndScan, TypeOK, Flush
    <2>2. UNCHANGED <<since, rowLock>>
      BY <1>3 DEF EndScan
    <2>3. FoundIsRecent(f)'
      BY <1>3, <2>2, MoveEffect, FoundStaysRecent
    <2> QED BY <2>1, <2>2, <2>3, LocksInBatch, OutOfBatch
  <1> QED BY <1>1, <1>2, <1>3

(* The end of a run, of a batch, and a failure leave nothing locked.       *)
LEMMA EndKeeps ==
  ASSUME TypeOK, ActivityInv, Forward, NEW f \in Flushers,
         DeleteKeys(f) \/ EndFlush(f) \/ Fail(f)
  PROVE  RunInv(f)'
  <1> USE DEF locks, history, tables
  <1>1. CASE DeleteKeys(f)
    <2>1. UNCHANGED <<since, rowLock>>
      BY <1>1 DEF DeleteKeys
    <2>2. FoundIsRecent(f)'
      BY <1>1, <2>1, DeleteEffect, FoundStaysRecent
    <2> QED BY <1>1, <2>1, <2>2, DeleteEffect, LocksInBatch, OutOfBatch
  <1>2. CASE EndFlush(f)
    <2>1. UNCHANGED <<since, rowLock>>
      BY <1>2 DEF EndFlush
    <2>2. flush'[f].at = "idle" /\ flush'[f].found = {} /\ flush'[f].batch = {}
      BY <1>2, EndEffect DEF Idle
    <2>3. FoundIsRecent(f)'
      BY <2>1, <2>2, FoundStaysRecent
    <2> QED BY <1>2, <2>1, <2>2, <2>3, EndEffect, LocksInBatch, OutOfBatch
  <1>3. CASE Fail(f)
    <2>1. Released(f) /\ UNCHANGED since
      BY <1>3 DEF Fail
    <2>2. FoundIsRecent(f)'
      BY <1>3, <2>1, FailEffect, FoundStaysRecent
    <2>3. \A s \in SessionIds : rowLock'[s] # f
      BY <2>1, ReleasedEffect, ActivityAssumption
    <2> QED BY <1>3, <2>2, <2>3, FailEffect, OutOfBatch
  <1> QED BY <1>1, <1>2, <1>3

(* A batch begins with everything still to visit.                          *)
LEMMA BatchKeeps ==
  ASSUME TypeOK, ActivityInv, Forward, NEW f \in Flushers, BeginBatch(f)
  PROVE  RunInv(f)'
  <1>1. UNCHANGED <<since, rowLock>>
    BY DEF BeginBatch, locks, history
  <1>2. FoundIsRecent(f)'
    BY <1>1, BatchEffect, FoundStaysRecent
  <1>3. LockedIsRaised(f)'
    BY <1>1, BatchEffect, LocksInBatch DEF LockedIsRaised
  <1>4. BatchIsCovered(f)'
    BY BatchEffect DEF BatchIsCovered, Stamped
  <1>5. AccountsAreCovered(f)'
    BY BatchEffect DEF AccountsAreCovered, Stamped
  <1> QED BY <1>2, <1>3, <1>4, <1>5 DEF RunInv

(* A visit of a row takes it off the list and has its later date ready.    *)
LEMMA VisitKeeps ==
  ASSUME TypeOK, ActivityInv, Forward, NEW f \in Flushers, NEW s \in SessionIds,
         VisitSession(f, s)
  PROVE  RunInv(f)'
  <1>1. UNCHANGED <<since, lastUsed, rows, now, userLock>>
    BY DEF VisitSession, tables, locks, history
  <1>2. FoundIsRecent(f)'
    BY <1>1, VisitEffect, FoundStaysRecent
  <1>3. LockedIsRaised(f)'
    <2> SUFFICES ASSUME NEW r \in SessionIds, rowLock'[r] = f
                 PROVE  /\ lastUsed[r] <= flush'[f].raised[r]
                        /\ since[f][r] <= flush'[f].raised[r]
                        /\ \/ flush'[f].raised[r] = lastUsed[r]
                           \/ <<r, flush'[f].raised[r]>> \in flush[f].batch
      BY <1>1, VisitEffect DEF LockedIsRaised
    <2>1. CASE rowLock[r] = f
      <3>1. flush'[f].raised[r] = flush[f].raised[r]
        BY <2>1, VisitEffect, ActivityAssumption
      <3> QED BY <2>1, <3>1 DEF ActivityInv, RunInv, LockedIsRaised
    <2>2. CASE rowLock[r] # f
      <3>1. r = s /\ s \in rows
        BY <2>2, VisitEffect
      <3>2. PICK update \in flush[f].batch :
              update[1] = s /\ flush'[f].raised[s] = Raised(s, update[2])
        BY <3>1, VisitEffect
      <3>3. since[f][s] <= update[2]
        BY <3>2 DEF ActivityInv, RunInv, FoundIsRecent
      <3>4. /\ update = <<s, update[2]>> /\ update[2] \in Nat
            /\ lastUsed[s] \in Nat /\ since[f][s] \in Nat
        BY <3>2, Dated DEF Update
      <3> QED BY <3>1, <3>2, <3>3, <3>4 DEF Raised, Larger
    <2> QED BY <2>1, <2>2
  <1>4. BatchIsCovered(f)'
    <2>1. \A r \in SessionIds : rowLock[r] = f => rowLock'[r] = f
      BY VisitEffect, ActivityAssumption
    <2>2. s \in rows => rowLock'[s] = f
      BY VisitEffect
    <2>3. \A r \in Stamped(flush[f].batch) : r \in SessionIds
      BY Dated DEF Stamped
    <2> QED BY <1>1, <2>1, <2>2, <2>3, VisitEffect
            DEF ActivityInv, RunInv, BatchIsCovered, Stamped
  <1>5. AccountsAreCovered(f)'
    BY <1>1, VisitEffect DEF ActivityInv, RunInv, AccountsAreCovered, Stamped
  <1> QED BY <1>2, <1>3, <1>4, <1>5 DEF RunInv

(* The second statement begins when all rows have been visited, and takes  *)
(* the accounts one by one.                                                *)
LEMMA UsersKeep ==
  ASSUME TypeOK, ActivityInv, Forward, NEW f \in Flushers,
         EndSessions(f) \/ \E u \in Users : VisitUser(f, u)
  PROVE  RunInv(f)'
  <1>1. UNCHANGED <<since, rowLock, lastUsed, rows>>
    BY DEF EndSessions, VisitUser, tables, locks, history
  <1>2. FoundIsRecent(f)'
    BY <1>1, MoveEffect, FoundStaysRecent
  <1>3. flush[f].at \in {"sessions", "users"} /\ flush'[f].at = "users"
    BY DEF EndSessions, VisitUser, TypeOK, Flush
  <1>4. LockedIsRaised(f)'
    BY <1>1, <1>3, MoveEffect DEF ActivityInv, RunInv, LockedIsRaised
  <1>5. BatchIsCovered(f)'
    <2>1. flush[f].at = "sessions" => flush[f].todo = {}
      BY DEF EndSessions, VisitUser
    <2> QED BY <1>1, <1>3, <2>1, MoveEffect
            DEF ActivityInv, RunInv, BatchIsCovered, Stamped
  <1>6. AccountsAreCovered(f)'
    <2>1. \A s \in Stamped(flush[f].batch) :
            Owner[s] \in flush[f].accounts \/ userLock[Owner[s]] = f
      BY <1>3 DEF ActivityInv, RunInv, AccountsAreCovered
    <2>2. \A s \in Stamped(flush[f].batch) :
            Owner[s] \in flush'[f].accounts \/ userLock'[Owner[s]] = f
      <3>1. CASE EndSessions(f)
        BY <2>1, <3>1 DEF EndSessions, TypeOK, Flush, locks
      <3>2. ASSUME NEW u \in Users, VisitUser(f, u)
            PROVE  \A s \in Stamped(flush[f].batch) :
                     Owner[s] \in flush'[f].accounts \/ userLock'[Owner[s]] = f
        <4>1. flush'[f].accounts = flush[f].accounts \ {u}
          BY <3>2 DEF VisitUser, TypeOK, Flush
        <4>2. userLock' = [userLock EXCEPT ![u] = f]
          BY <3>2 DEF VisitUser
        <4>3. \A s \in Stamped(flush[f].batch) : Owner[s] \in Users
          BY Dated, ActivityAssumption DEF Stamped
        <4> QED BY <2>1, <4>1, <4>2, <4>3 DEF TypeOK
      <3> QED BY <3>1, <3>2
    <2> QED BY <2>2, MoveEffect DEF AccountsAreCovered, Stamped
  <1> QED BY <1>2, <1>4, <1>5, <1>6 DEF RunInv

(* A commit leaves every row of the batch at least as late as the run's    *)
(* beginning has it.                                                       *)
LEMMA CommitKeeps ==
  ASSUME TypeOK, ActivityInv, Forward, NEW f \in Flushers, CommitBatch(f)
  PROVE  RunInv(f)'
  <1>1. Released(f) /\ UNCHANGED <<since, rows>>
    BY DEF CommitBatch, history
  <1>2. FoundIsRecent(f)'
    BY <1>1, CommitEffect, FoundStaysRecent
  <1>3. LockedIsRaised(f)'
    BY <1>1, ReleasedEffect, ActivityAssumption DEF LockedIsRaised
  <1>4. BatchIsCovered(f)'
    <2> SUFFICES ASSUME NEW s \in Stamped(flush[f].batch) \cap rows
                 PROVE  since[f][s] <= lastUsed'[s]
      BY <1>1, CommitEffect DEF BatchIsCovered, Stamped
    <2>1. s \in SessionIds /\ rowLock[s] = f
      BY CommitEffect, Dated DEF ActivityInv, RunInv, BatchIsCovered, Stamped
    <2> QED BY <2>1, CommitEffect DEF ActivityInv, RunInv, LockedIsRaised
  <1>5. AccountsAreCovered(f)'
    BY CommitEffect DEF AccountsAreCovered
  <1> QED BY <1>2, <1>3, <1>4, <1>5 DEF RunInv

(* Every step keeps the invariant.                                         *)
LEMMA NextKeeps ==
  ASSUME TypeOK, ActivityInv, [Next]_vars
  PROVE  ActivityInv'
  <1>1. Forward
    BY NextGoesForward
  <1>2. TimesArePast'
    BY <1>1, Dated DEF Forward, ActivityInv, TimesArePast
  <1>3. ASSUME NEW f \in Flushers PROVE RunInv(f)'
    <2>1. CASE Quiet(f)
      BY <1>1, <2>1, QuietKeeps
    <2>2. CASE FlushStep(f) \/ Fail(f)
      BY <1>1, <2>2, ScanKeeps, EndKeeps, BatchKeeps, VisitKeeps, UsersKeep,
         CommitKeeps DEF FlushStep
    <2> QED BY <2>1, <2>2, NextIsQuiet
  <1> QED BY <1>2, <1>3 DEF ActivityInv

(* The invariant holds at the start, when no run has begun.                *)
LEMMA InitHolds ==
  ASSUME Init
  PROVE  ActivityInv
  <1>1. TimesArePast
    BY DEF Init, Nothing, TimesArePast
  <1>2. ASSUME NEW f \in Flushers PROVE RunInv(f)
    <2>1. /\ flush[f].at = "idle" /\ flush[f].found = {} /\ flush[f].batch = {}
          /\ \A s \in SessionIds : rowLock[s] # f /\ since[f][s] <= recorded[s]
      BY <1>2, ActivityAssumption DEF Init, Idle, Nothing
    <2> QED BY <2>1 DEF RunInv, FoundIsRecent, LockedIsRaised, BatchIsCovered,
                        AccountsAreCovered
  <1> QED BY <1>1, <1>2 DEF ActivityInv

(* The runs of the job, however many overlap and whatever batches fail,    *)
(* lock and cover what they commit: dates found are recent, rows locked    *)
(* are about to be raised, and a batch commits all its rows and accounts.  *)
THEOREM RunsAreSafe == Spec => []ActivityInv
  <1>1. Init => ActivityInv
    BY InitHolds
  <1>2. TypeOK /\ ActivityInv /\ [Next]_vars => ActivityInv'
    BY NextKeeps
  <1> QED BY <1>1, <1>2, TypeCorrect, PTL DEF Spec

-----------------------------------------------------------------------------
(* The properties of the steps.                                            *)

(* Only the commit of a batch writes last_activity_at, and it raises it.   *)
LEMMA NextRaisesActivity ==
  ASSUME TypeOK, [Next]_vars, NEW u \in Users
  PROVE  lastActivity'[u] >= lastActivity[u]
  <1> USE DEF tables
  <1>1. CASE UNCHANGED lastActivity
    BY <1>1 DEF TypeOK
  <1>2. ASSUME NEW f \in Flushers, FlushStep(f) \/ Fail(f)
        PROVE  lastActivity'[u] >= lastActivity[u]
    BY <1>1, <1>2, CommitEffect
       DEF FlushStep, BeginFlush, ScanPage, EndScan, BeginBatch, VisitSession,
           EndSessions, VisitUser, DeleteKeys, EndFlush, Fail
  <1>3. ASSUME NEW s \in SessionIds,
               Record(s) \/ LockForRefresh(s) \/ CommitRefresh(s) \/ Remove(s) \/ Expire(s)
        PROVE  lastActivity'[u] >= lastActivity[u]
    BY <1>1, <1>3 DEF Record, LockForRefresh, CommitRefresh, Remove, Expire
  <1>4. ASSUME NEW v \in Users, Close(v) \/ Discard(v)
        PROVE  lastActivity'[u] >= lastActivity[u]
    BY <1>1, <1>4 DEF Close, Discard
  <1>5. CASE Tick \/ UNCHANGED vars
    BY <1>1, <1>5 DEF Tick, vars
  <1> QED BY <1>2, <1>3, <1>4, <1>5 DEF Next

(* No date of a row or of an account goes back: a batch takes the later of *)
(* the date it read under the row lock and of its own, and nobody writes   *)
(* the row in between.                                                     *)
THEOREM TimesOnlyRise == Spec => TimesNeverGoBack
  <1>1. TypeOK /\ ActivityInv /\ [Next]_vars =>
          /\ \A s \in SessionIds : lastUsed'[s] >= lastUsed[s]
          /\ \A u \in Users : lastActivity'[u] >= lastActivity[u]
    <2> SUFFICES ASSUME TypeOK, ActivityInv, [Next]_vars
                 PROVE  /\ \A s \in SessionIds : lastUsed'[s] >= lastUsed[s]
                        /\ \A u \in Users : lastActivity'[u] >= lastActivity[u]
      OBVIOUS
    <2>1. \A s \in SessionIds : lastUsed'[s] >= lastUsed[s]
      BY NextGoesForward, Dated DEF Forward
    <2> QED BY <2>1, NextRaisesActivity
  <1>2. (/\ \A s \in SessionIds : lastUsed'[s] >= lastUsed[s]
         /\ \A u \in Users : lastActivity'[u] >= lastActivity[u]) =>
          [/\ \A s \in SessionIds : lastUsed'[s] >= lastUsed[s]
           /\ \A u \in Users : lastActivity'[u] >= lastActivity[u]]_vars
    OBVIOUS
  <1> QED BY <1>1, <1>2, TypeCorrect, RunsAreSafe, PTL DEF Spec, TimesNeverGoBack

(* A key that a batch deletes is of a row whose date has reached what was  *)
(* stamped before the run began: the batch has locked and raised each of   *)
(* its rows that is still there.                                           *)
THEOREM LittleIsLost == Spec => OnlyRecentIsLost
  <1> DEFINE Step(f, s) ==
               flush[f].at = "delete" /\ flush'[f] # flush[f]
                 /\ buffer[s] # 0 /\ buffer'[s] = 0
               => lastUsed[s] >= since[f][s]
  <1>1. TypeOK /\ ActivityInv /\ [Next]_vars
          => \A f \in Flushers, s \in rows : Step(f, s)
    <2> SUFFICES ASSUME TypeOK, ActivityInv, [Next]_vars,
                        NEW f \in Flushers, NEW s \in rows,
                        flush[f].at = "delete", flush'[f] # flush[f],
                        buffer[s] # 0, buffer'[s] = 0
                 PROVE  lastUsed[s] >= since[f][s]
      OBVIOUS
    <2>1. s \in SessionIds
      BY DEF TypeOK
    <2>2. DeleteKeys(f) \/ Fail(f)
      BY NextIsQuiet, BeginEffect, ScanEffect, BatchEffect, VisitEffect, CommitEffect,
         EndEffect
         DEF Quiet, FlushStep, EndScan, EndSessions, VisitUser, Idle
    <2>3. DeleteKeys(f)
      BY <2>2 DEF Fail
    <2>4. s \in Stamped(flush[f].batch) \cap rows
      BY <2>1, <2>3, DeleteEffect
    <2>5. since[f][s] <= lastUsed[s]
      BY <2>4 DEF ActivityInv, RunInv, BatchIsCovered
    <2> QED BY <2>1, <2>5, Dated
  <1>2. (\A f \in Flushers, s \in rows : Step(f, s)) =>
          [\A f \in Flushers, s \in rows :
             flush[f].at = "delete" /\ flush'[f] # flush[f]
               /\ buffer[s] # 0 /\ buffer'[s] = 0
             => lastUsed[s] >= since[f][s]]_vars
    OBVIOUS
  <1> QED BY <1>1, <1>2, TypeCorrect, RunsAreSafe, PTL DEF Spec, OnlyRecentIsLost

(* The account of a session that a batch raises is raised at least as far  *)
(* by the same commit, which has locked the account by then.               *)
THEOREM AccountIsRaised == Spec => AccountFollowsSession
  <1> DEFINE Step(s) == lastUsed'[s] > lastUsed[s] /\ rowLock[s] \in Flushers
                          => lastActivity'[Owner[s]] >= lastUsed'[s]
  <1>1. TypeOK /\ ActivityInv /\ [Next]_vars => \A s \in SessionIds : Step(s)
    <2> SUFFICES ASSUME TypeOK, ActivityInv, [Next]_vars, NEW s \in SessionIds,
                        lastUsed'[s] > lastUsed[s], rowLock[s] \in Flushers
                 PROVE  lastActivity'[Owner[s]] >= lastUsed'[s]
      OBVIOUS
    <2>0. lastUsed'[s] # lastUsed[s]
      BY Dated
    <2>1. PICK f \in Flushers : rowLock[s] = f
      OBVIOUS
    <2>2. FlushStep(f) \/ Fail(f)
      BY <2>0, <2>1, NextIsQuiet DEF Quiet
    <2>3. CommitBatch(f)
      BY <2>0, <2>2
         DEF FlushStep, BeginFlush, ScanPage, EndScan, BeginBatch, VisitSession,
             EndSessions, VisitUser, DeleteKeys, EndFlush, Fail, tables
    <2>4. /\ lastUsed'[s] = flush[f].raised[s]
          /\ flush[f].at = "users" /\ flush[f].accounts = {}
      BY <2>1, <2>3, CommitEffect
    <2> DEFINE update == <<s, flush[f].raised[s]>>
    <2>5. update \in flush[f].batch
      BY <2>0, <2>1, <2>4 DEF ActivityInv, RunInv, LockedIsRaised
    <2>6. userLock[Owner[s]] = f
      BY <2>4, <2>5 DEF ActivityInv, RunInv, AccountsAreCovered, Stamped
    <2>7. update[1] = s /\ update[2] = flush[f].raised[s]
      OBVIOUS
    <2> HIDE DEF update
    <2>8. lastActivity'[Owner[update[1]]] >= update[2]
      BY <2>3, <2>5, <2>6, <2>7, CommitEffect
    <2> QED BY <2>4, <2>7, <2>8
  <1>2. (\A s \in SessionIds : Step(s)) =>
          [\A s \in SessionIds :
             lastUsed'[s] > lastUsed[s] /\ rowLock[s] \in Flushers
               => lastActivity'[Owner[s]] >= lastUsed'[s]]_vars
    OBVIOUS
  <1> QED BY <1>1, <1>2, TypeCorrect, RunsAreSafe, PTL DEF Spec, AccountFollowsSession

=============================================================================
