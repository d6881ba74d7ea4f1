---------------------------- MODULE CodesProofs ----------------------------
(***************************************************************************)
(* Theorems about VerificationCodes, for every value of its constants.     *)
(***************************************************************************)
EXTENDS VerificationCodes, FiniteSetTheorems, TLAPS

(* The types of the records, field by field.                               *)
LEMMA Typed ==
  ASSUME TypeOK
  PROVE  /\ \A r \in Issues :
              /\ issue[r] \in Issue
              /\ issue[r].at \in IssueSteps
              /\ issue[r].subject \in Subjects \cup {Nobody}
              /\ issue[r].code \in Codes \cup {Nobody}
              /\ issue[r].found \in Issues \cup {Nobody}
         /\ \A p \in Confirms :
              /\ confirm[p] \in Confirm
              /\ confirm[p].at \in ConfirmSteps
              /\ confirm[p].subject \in Subjects \cup {Nobody}
              /\ confirm[p].code \in Codes \cup {Nobody}
              /\ confirm[p].found \in Issues \cup {Nobody}
         /\ Idle \in Confirm
  BY DEF TypeOK, Issue, Confirm, Idle, ConfirmSteps

(* What a step of a request leaves as it was: it changes at most the keys, *)
(* and the record of that request.                                         *)
Others(r) == \A q \in Issues \ {r} : issue'[q] = issue[q]

(* The steps of a request keep the types, and the other requests.          *)
LEMMA IssueKeepsTypes ==
  ASSUME TypeOK, RequestsAreInOrder, flow' = flow, NEW r \in Issues, IssueStep(r)
  PROVE  TypeOK' /\ Others(r)
  <1> USE DEF IssueSteps, Others, codeKeys, otherKeys, history
  <1>0. /\ issue[r] \in Issue /\ \A q \in Issues : issue[q] \in Issue
        /\ issue[r].at # "new" => issue[r].subject \in Subjects
    BY DEF TypeOK, RequestsAreInOrder, Issue
  <1>1. ASSUME NEW s \in Subjects, BeginIssue(r, s) PROVE TypeOK' /\ Others(r)
    BY <1>0, <1>1 DEF TypeOK, BeginIssue, Issue
  <1>2. CASE Reserve(r)
    BY <1>0, <1>2 DEF TypeOK, Reserve, Goto, Issue
  <1>3. CASE SendNotice(r)
    BY <1>0, <1>3 DEF TypeOK, SendNotice, Goto, Issue
  <1>4. CASE ReadPrevious(r)
    BY <1>0, <1>4 DEF TypeOK, ReadPrevious, Issue
  <1>5. CASE SaveToken(r)
    <2>1. PICK c \in Codes :
            /\ token' = [token EXCEPT ![c] = r]
            /\ issue' = [issue EXCEPT ![r] =
                 [@ EXCEPT !.code = c,
                           !.at = IF SavesFirst THEN "previous" ELSE "activate"]]
      BY <1>5 DEF SaveToken
    <2>2. issue' \in [Issues -> Issue] /\ Others(r)
      BY <1>0, <2>1 DEF TypeOK, Issue
    <2>3. token' \in [Codes -> Issues \cup {Nobody}]
      BY <2>1 DEF TypeOK
    <2> QED BY <1>5, <2>2, <2>3 DEF TypeOK, SaveToken
  <1>6. CASE Activate(r)
    BY <1>0, <1>6 DEF TypeOK, Activate, Goto, Issue
  <1>7. CASE DropPrevious(r)
    BY <1>0, <1>7 DEF TypeOK, DropPrevious, Deleted, Code, Issue
  <1>8. CASE Deliver(r)
    BY <1>0, <1>8 DEF TypeOK, Deliver, Issue
  <1>9. CASE ClearFailures(r)
    BY <1>0, <1>9 DEF TypeOK, ClearFailures, Goto, Issue
  <1>10. CASE Throw(r)
    BY <1>0, <1>10 DEF TypeOK, Throw, Issued, Issue
  <1>11. CASE Discard(r)
    BY <1>0, <1>11 DEF TypeOK, Discard, Goto, Deleted, Issue
  <1>12. CASE Compare(r)
    BY <1>0, <1>12 DEF TypeOK, Compare, Code, Issue
  <1>13. CASE FindActive(r)
    BY <1>0, <1>13 DEF TypeOK, FindActive, Issue
  <1>14. CASE DiscardActive(r)
    BY <1>0, <1>14 DEF TypeOK, DiscardActive, Code, Deleted, Issue
  <1>15. CASE Unset(r)
    BY <1>0, <1>15 DEF TypeOK, Unset, Issue
  <1>16. CASE GiveUp(r)
    BY <1>0, <1>16 DEF TypeOK, GiveUp, Issue
  <1>17. CASE Release(r)
    BY <1>0, <1>17 DEF TypeOK, Release, Goto, Issue
  <1>18. CASE Stop(r)
    BY <1>0, <1>18 DEF TypeOK, Stop, Issue
  <1> QED
    BY <1>1, <1>2, <1>3, <1>4, <1>5, <1>6, <1>7, <1>8, <1>9, <1>10, <1>11, <1>12, <1>13,
       <1>14, <1>15, <1>16, <1>17, <1>18 DEF IssueStep

(* A step of a confirmation does the same.                                 *)
Apart(p) == \A q \in Confirms \ {p} : confirm'[q] = confirm[q]

(* A handler that returns leaves its record idle and lets go of its lock.  *)
LEMMA ReturnEffect ==
  ASSUME TypeOK, NEW p \in Confirms, Return(p)
  PROVE  /\ confirm' \in [Confirms -> Confirm]
         /\ userLock' \in [Subjects -> Confirms \cup {Nobody}]
         /\ confirm'[p] = Idle /\ Apart(p)
  BY Typed DEF TypeOK, Return, Apart

(* A handler that goes on changes nothing but where it stands.             *)
LEMMA ProceedEffect ==
  ASSUME TypeOK, NEW p \in Confirms, NEW at \in ConfirmSteps, Proceed(p, at)
  PROVE  /\ confirm' \in [Confirms -> Confirm]
         /\ confirm'[p] = [confirm[p] EXCEPT !.at = at] /\ Apart(p)
         /\ confirm'[p].at = at
         /\ confirm'[p].subject = confirm[p].subject
         /\ confirm'[p].code = confirm[p].code
         /\ confirm'[p].found = confirm[p].found
  <1>1. confirm[p] \in Confirm
    BY DEF TypeOK
  <1> QED BY <1>1 DEF TypeOK, Proceed, Confirm, Apart

(* The steps of a confirmation keep the types, and the others.             *)
LEMMA ConfirmKeepsTypes ==
  ASSUME TypeOK, ConfirmsAreInOrder, flow' = flow, NEW p \in Confirms, ConfirmStep(p)
  PROVE  TypeOK' /\ Apart(p)
  <1> USE CodesAssumption DEF ConfirmSteps, Apart, codeKeys, otherKeys, history
  <1>0. /\ confirm[p] \in Confirm /\ \A q \in Confirms : confirm[q] \in Confirm
        /\ confirm[p].at # "idle" => confirm[p].subject \in Subjects
        /\ confirm[p].at \in {"attempts", "lookup", "lockUser", "consume"}
             => confirm[p].code \in Codes
        /\ Idle \in Confirm
    BY DEF TypeOK, ConfirmsAreInOrder, Confirm, Idle
  <1>1. ASSUME NEW s \in Subjects, NEW c \in Codes, BeginConfirm(p, s, c)
        PROVE  TypeOK' /\ Apart(p)
    BY <1>0, <1>1, ZenonT(60) DEF TypeOK, BeginConfirm, Confirm, Idle
  <1>2. CASE CheckAttempts(p)
    BY <1>0, <1>2 DEF TypeOK, CheckAttempts, Proceed, Confirm
  <1>3. CASE LookUp(p)
    BY <1>0, <1>3, ZenonT(60) DEF TypeOK, LookUp, Owner, Confirm
  <1>4. CASE LockUser(p)
    BY <1>0, <1>4, ZenonT(60) DEF TypeOK, LockUser, Proceed, Owner, Confirm
  <1>5. CASE Consume(p)
    <2> DEFINE c == confirm[p].code
    <2>1. token' \in [Codes -> Issues \cup {Nobody}] /\ token[c] \in Issues
      BY <1>0, <1>5 DEF TypeOK, Consume, Accepts, Deleted
    <2>2. active' \in [Subjects -> Issues \cup {Nobody}]
      BY <1>5 DEF TypeOK, Consume
    <2>3. CASE /\ confirm' = [confirm EXCEPT ![p] =
                    [@ EXCEPT !.at = "commit", !.found = token[c]]]
               /\ spent' = spent \cup {token[c]}
               /\ UNCHANGED userLock
      <3>1. confirm' \in [Confirms -> Confirm] /\ Apart(p)
        BY <1>0, <2>1, <2>3 DEF TypeOK, Confirm
      <3> QED BY <1>5, <2>1, <2>2, <2>3, <3>1 DEF TypeOK, Consume
    <2>4. CASE Proceed(p, "count") /\ UNCHANGED <<userLock, spent>>
      BY <1>5, <2>1, <2>2, <2>4, ProceedEffect DEF TypeOK, Consume
    <2>5. CASE Return(p) /\ UNCHANGED spent
      BY <1>5, <2>1, <2>2, <2>5, ReturnEffect DEF TypeOK, Consume
    <2> QED BY <1>5, <2>3, <2>4, <2>5 DEF Consume
  <1>6. CASE RefuseCode(p)
    <2>1. CASE Proceed(p, "count") /\ UNCHANGED userLock
      BY <1>6, <2>1, ProceedEffect DEF TypeOK, RefuseCode
    <2>2. CASE Return(p)
      BY <1>6, <2>2, ReturnEffect DEF TypeOK, RefuseCode
    <2> QED BY <1>6, <2>1, <2>2 DEF RefuseCode
  <1>7. CASE Commit(p)
    BY <1>0, <1>7 DEF TypeOK, Commit, Proceed, Confirm
  <1>8. CASE ClearAttempts(p)
    BY <1>0, <1>8 DEF TypeOK, ClearAttempts, Proceed, Return, Idle, Confirm
  <1>9. CASE Unlock(p)
    BY <1>0, <1>9 DEF TypeOK, Unlock, Return, Idle, Confirm
  <1>10. CASE Count(p)
    <2>0. attempts' \in [Subjects -> Nat]
      BY <1>0, <1>10 DEF TypeOK, Count
    <2>1. CASE Proceed(p, "remaining") /\ UNCHANGED userLock
      BY <1>10, <2>0, <2>1, ProceedEffect DEF TypeOK, Count
    <2>2. CASE Return(p)
      BY <1>10, <2>0, <2>2, ReturnEffect DEF TypeOK, Count
    <2> QED BY <1>10, <2>1, <2>2 DEF Count
  <1>11. CASE Remaining(p)
    BY <1>0, <1>11, SMTT(30) DEF TypeOK, Remaining, Proceed, Return, Idle, Confirm
  <1>12. CASE Invalidate(p)
    <2>1. CASE confirm[p].at = "findActive"
      <3>1. active[confirm[p].subject] \in Issues \cup {Nobody}
        BY <1>0, <2>1 DEF TypeOK
      <3>2. confirm' \in [Confirms -> Confirm] /\ Apart(p)
        <4>1. confirm' = [confirm EXCEPT ![p] =
                 [@ EXCEPT !.at = "discardActive", !.found = active[confirm[p].subject]]]
          BY <1>12, <2>1 DEF Invalidate
        <4> QED BY <1>0, <3>1, <4>1 DEF TypeOK, Confirm
      <3> QED BY <1>12, <2>1, <3>2 DEF TypeOK, Invalidate
    <2>2. CASE confirm[p].at = "discardActive"
      <3>1. confirm' \in [Confirms -> Confirm] /\ Apart(p)
        <4>1. confirm' = [confirm EXCEPT ![p] = [@ EXCEPT !.at = "unset", !.found = Nobody]]
          BY <1>12, <2>2 DEF Invalidate
        <4> QED BY <1>0, <4>1 DEF TypeOK, Confirm
      <3>2. token' \in [Codes -> Issues \cup {Nobody}]
        BY <1>12, <2>2 DEF TypeOK, Invalidate, Deleted
      <3> QED BY <1>12, <2>2, <3>1, <3>2 DEF TypeOK, Invalidate
    <2>3. CASE confirm[p].at = "unset"
      BY <1>12, <2>3, ProceedEffect DEF TypeOK, Invalidate
    <2> QED BY <1>12, <2>1, <2>2, <2>3 DEF Invalidate
  <1>13. CASE LockOut(p)
    BY <1>0, <1>13 DEF TypeOK, LockOut, Return, Idle, Confirm
  <1>14. CASE Fail(p)
    BY <1>0, <1>14 DEF TypeOK, Fail, Return, Idle, Confirm
  <1>15. ASSUME NEW s \in Subjects, Status(p, s) PROVE TypeOK' /\ Apart(p)
    <2>1. CASE confirm' = [confirm EXCEPT ![p] = [Idle EXCEPT !.at = "statusAttempts",
                                                             !.subject = s]]
               /\ UNCHANGED attempts
      BY <1>0, <1>15, <2>1 DEF TypeOK, Status, Idle, Confirm
    <2>2. CASE Proceed(p, "statusClear") /\ UNCHANGED attempts
      BY <1>15, <2>2, ProceedEffect DEF TypeOK, Status
    <2>3. CASE /\ attempts' = [attempts EXCEPT ![s] = 0]
               /\ confirm' = [confirm EXCEPT ![p] = Idle]
      BY <1>0, <1>15, <2>3 DEF TypeOK, Status
    <2> QED BY <1>15, <2>1, <2>2, <2>3 DEF Status
  <1> QED
    BY <1>1, <1>2, <1>3, <1>4, <1>5, <1>6, <1>7, <1>8, <1>9, <1>10, <1>11, <1>12, <1>13,
       <1>14, <1>15 DEF ConfirmStep

-----------------------------------------------------------------------------
(* Requests and confirmations stay in order.                               *)

(* A request that drops the code it replaces deletes no token but that.    *)
LEMMA DropEffect ==
  ASSUME TypeOK, NEW r \in Issues, DropPrevious(r)
  PROVE  /\ issue'[r].code = issue[r].code /\ issue'[r].subject = issue[r].subject
         /\ issue[r].at = "drop" /\ issue'[r].at \in {"mail", "done"}
         /\ issue'[r].result \in {"none", "delivered"}
         /\ \A c \in Codes : token'[c] \in {token[c], Nobody}
         /\ UNCHANGED <<active, otherKeys, history>>
  <1>1. issue[r] \in Issue
    BY DEF TypeOK
  <1> QED BY <1>1 DEF TypeOK, DropPrevious, Deleted, Issue

(* A failed request keeps its code, and goes on to its clean-up.           *)
LEMMA ThrowEffect ==
  ASSUME TypeOK, NEW r \in Issues, Throw(r)
  PROVE  /\ issue'[r].code = issue[r].code /\ issue'[r].subject = issue[r].subject
         /\ issue'[r].at \in {"release", "findActive", "discard"}
         /\ issue'[r].at # "release" <=> Issued(r)
         /\ issue'[r].at = "findActive" => flow = "emailChange"
         /\ issue'[r].at = "discard" => flow # "emailChange"
         /\ issue'[r].result = "failed"
         /\ issue[r].at \in {"previous", "save", "activate", "drop", "mail", "notice", "clear"}
         /\ Mails
         /\ UNCHANGED <<codeKeys, otherKeys, history>>
  <1>1. issue[r] \in Issue
    BY DEF TypeOK
  <1> QED BY <1>1 DEF TypeOK, Throw, Issue

(* A request stays where it may be after what it has drawn and lost.       *)
LEMMA IssueKeepsOrder ==
  ASSUME TypeOK, RequestsAreInOrder, flow' = flow, NEW r \in Issues, IssueStep(r)
  PROVE  RequestsAreInOrder'
  <1> USE CodesAssumption
      DEF IssueSteps, RequestsAreInOrder, Undrawn, CleanUps, Mails, SavesFirst, AllFlows
  <1>0. /\ issue[r] \in Issue /\ flow \in AllFlows
        /\ Others(r)
    BY IssueKeepsTypes DEF TypeOK
  <1>1. ASSUME NEW s \in Subjects, BeginIssue(r, s) PROVE RequestsAreInOrder'
    BY <1>0, <1>1 DEF TypeOK, BeginIssue, Issue, Others
  <1>2. CASE Reserve(r)
    BY <1>0, <1>2 DEF TypeOK, Reserve, Goto, Issue, Others
  <1>3. CASE SendNotice(r)
    BY <1>0, <1>3 DEF TypeOK, SendNotice, Goto, Issue, Others
  <1>4. CASE ReadPrevious(r)
    BY <1>0, <1>4 DEF TypeOK, ReadPrevious, Issue, Others
  <1>5. CASE SaveToken(r)
    BY <1>0, <1>5 DEF TypeOK, SaveToken, Issue, Others
  <1>6. CASE Activate(r)
    BY <1>0, <1>6 DEF TypeOK, Activate, Goto, Issue, Others
  <1>7. CASE DropPrevious(r)
    BY <1>0, <1>7 DEF TypeOK, DropPrevious, Issue, Others
  <1>8. CASE Deliver(r)
    BY <1>0, <1>8 DEF TypeOK, Deliver, Issue, Others
  <1>9. CASE ClearFailures(r)
    BY <1>0, <1>9 DEF TypeOK, ClearFailures, Goto, Issue, Others
  <1>10. CASE Throw(r)
    BY <1>0, <1>10, ThrowEffect DEF TypeOK, Issued, Others, otherKeys
  <1>11. CASE Discard(r)
    BY <1>0, <1>11 DEF TypeOK, Discard, Goto, Issue, Others
  <1>12. CASE Compare(r)
    BY <1>0, <1>12 DEF TypeOK, Compare, Issue, Others
  <1>13. CASE FindActive(r)
    BY <1>0, <1>13 DEF TypeOK, FindActive, Issue, Others
  <1>14. CASE DiscardActive(r)
    BY <1>0, <1>14 DEF TypeOK, DiscardActive, Issue, Others
  <1>15. CASE Unset(r)
    BY <1>0, <1>15 DEF TypeOK, Unset, Issue, Others
  <1>16. CASE GiveUp(r)
    BY <1>0, <1>16 DEF TypeOK, GiveUp, Issue, Others
  <1>17. CASE Release(r)
    BY <1>0, <1>17 DEF TypeOK, Release, Goto, Issue, Others
  <1>18. CASE Stop(r)
    BY <1>0, <1>18 DEF TypeOK, Stop, Issue, Others
  <1> QED
    BY <1>1, <1>2, <1>3, <1>4, <1>5, <1>6, <1>7, <1>8, <1>9, <1>10, <1>11, <1>12, <1>13,
       <1>14, <1>15, <1>16, <1>17, <1>18 DEF IssueStep

(* A confirmation has its subject, and its code as long as it needs it.    *)
LEMMA ConfirmKeepsOrder ==
  ASSUME TypeOK, ConfirmsAreInOrder, flow' = flow, NEW p \in Confirms, ConfirmStep(p)
  PROVE  ConfirmsAreInOrder'
  <1> USE CodesAssumption DEF ConfirmsAreInOrder
  <1>0. confirm[p] \in Confirm /\ confirm' \in [Confirms -> Confirm] /\ Apart(p)
    BY ConfirmKeepsTypes DEF TypeOK
  <1>r. ASSUME Return(p) PROVE ConfirmsAreInOrder'
    BY <1>r, ReturnEffect DEF Apart, Idle
  <1>k. ASSUME confirm'[p].subject # Nobody,
               confirm'[p].at \in {"attempts", "lookup", "lockUser", "consume"}
                 => confirm'[p].code # Nobody
        PROVE  ConfirmsAreInOrder'
    BY <1>0, <1>k DEF Apart
  <1>m. ASSUME NEW at \in ConfirmSteps, Proceed(p, at), confirm[p].at # "idle",
               at \in {"attempts", "lookup", "lockUser", "consume"}
                 => confirm[p].at \in {"attempts", "lookup", "lockUser", "consume"}
        PROVE  ConfirmsAreInOrder'
    <2>1. confirm'[p].subject # Nobody /\ Apart(p)
      BY <1>m, ProceedEffect
    <2>2. confirm'[p].at \in {"attempts", "lookup", "lockUser", "consume"}
            => confirm'[p].code # Nobody
      BY <1>m, ProceedEffect
    <2> QED BY <1>k, <2>1, <2>2
  <1>1. ASSUME NEW s \in Subjects, NEW c \in Codes, BeginConfirm(p, s, c)
        PROVE  ConfirmsAreInOrder'
    BY <1>0, <1>1 DEF TypeOK, BeginConfirm, Confirm, Idle, Apart
  <1>2. CASE CheckAttempts(p)
    BY <1>0, <1>r, <1>m, <1>2 DEF TypeOK, CheckAttempts, ConfirmSteps, Confirm, Apart
  <1>3. CASE LookUp(p)
    BY <1>0, <1>r, <1>m, <1>3 DEF TypeOK, LookUp, ConfirmSteps, Confirm, Apart
  <1>4. CASE LockUser(p)
    BY <1>0, <1>r, <1>m, <1>4 DEF TypeOK, LockUser, ConfirmSteps, Confirm, Apart
  <1>5. CASE Consume(p)
    <2>1. CASE confirm' = [confirm EXCEPT ![p] =
                 [@ EXCEPT !.at = "commit", !.found = token[confirm[p].code]]]
      <3>1. confirm'[p].subject = confirm[p].subject /\ confirm'[p].at = "commit"
        BY <1>0, <2>1 DEF TypeOK, Confirm
      <3> QED BY <1>5, <1>k, <3>1 DEF Consume
    <2> QED BY <1>5, <1>r, <1>m, <2>1 DEF Consume, ConfirmSteps
  <1>6. CASE RefuseCode(p)
    BY <1>0, <1>r, <1>m, <1>6 DEF TypeOK, RefuseCode, ConfirmSteps, Confirm, Apart
  <1>7. CASE Commit(p)
    BY <1>0, <1>r, <1>m, <1>7 DEF TypeOK, Commit, ConfirmSteps, Confirm, Apart
  <1>8. CASE ClearAttempts(p)
    BY <1>0, <1>r, <1>m, <1>8 DEF TypeOK, ClearAttempts, ConfirmSteps, Confirm, Apart
  <1>9. CASE Unlock(p)
    BY <1>0, <1>r, <1>m, <1>9 DEF TypeOK, Unlock, ConfirmSteps, Confirm, Apart
  <1>10. CASE Count(p)
    BY <1>0, <1>r, <1>m, <1>10 DEF TypeOK, Count, ConfirmSteps, Confirm, Apart
  <1>11. CASE Remaining(p)
    BY <1>0, <1>r, <1>m, <1>11 DEF TypeOK, Remaining, ConfirmSteps, Confirm, Apart
  <1>12. CASE Invalidate(p)
    <2>1. CASE confirm' = [confirm EXCEPT ![p] =
                 [@ EXCEPT !.at = "discardActive", !.found = active[confirm[p].subject]]]
      <3>1. confirm'[p].subject = confirm[p].subject /\ confirm'[p].at = "discardActive"
        BY <1>0, <2>1 DEF TypeOK, Confirm
      <3> QED BY <1>12, <1>k, <3>1 DEF Invalidate
    <2>2. CASE confirm' = [confirm EXCEPT ![p] = [@ EXCEPT !.at = "unset", !.found = Nobody]]
      <3>1. confirm'[p].subject = confirm[p].subject /\ confirm'[p].at = "unset"
        BY <1>0, <2>2 DEF TypeOK, Confirm
      <3> QED BY <1>12, <1>k, <3>1 DEF Invalidate
    <2>3. CASE Proceed(p, "lockout")
      BY <1>12, <1>m, <2>3 DEF Invalidate, ConfirmSteps
    <2> QED BY <1>12, <2>1, <2>2, <2>3 DEF Invalidate
  <1>13. CASE LockOut(p)
    BY <1>0, <1>r, <1>m, <1>13 DEF TypeOK, LockOut, ConfirmSteps, Confirm, Apart
  <1>14. CASE Fail(p)
    BY <1>0, <1>r, <1>m, <1>14 DEF TypeOK, Fail, ConfirmSteps, Confirm, Apart
  <1>15. ASSUME NEW s \in Subjects, Status(p, s) PROVE ConfirmsAreInOrder'
    <2>1. CASE confirm' = [confirm EXCEPT ![p] = [Idle EXCEPT !.at = "statusAttempts",
                                                             !.subject = s]]
      <3>1. confirm'[p].subject = s /\ confirm'[p].at = "statusAttempts"
        BY <2>1 DEF TypeOK, Idle
      <3> QED BY <1>k, <3>1
    <2>2. CASE confirm[p].at = "statusAttempts" /\ Proceed(p, "statusClear")
      BY <1>m, <2>2 DEF ConfirmSteps
    <2>3. CASE confirm' = [confirm EXCEPT ![p] = Idle]
      BY <1>0, <2>3 DEF TypeOK, Idle, Apart
    <2> QED BY <1>15, <2>1, <2>2, <2>3 DEF Status
  <1> QED
    BY <1>1, <1>2, <1>3, <1>4, <1>5, <1>6, <1>7, <1>8, <1>9, <1>10, <1>11, <1>12, <1>13,
       <1>14, <1>15 DEF ConfirmStep

(* A confirmation, and the expiry of a key, only takes keys away.          *)
KeysShrink ==
  /\ \A c \in Codes : token'[c] \in {token[c], Nobody}
  /\ \A s \in Subjects : active'[s] \in {active[s], Nobody}

(* A confirmation changes no request and writes no key; a code it spends   *)
(* is gone.                                                                *)
LEMMA ConfirmEffect ==
  ASSUME TypeOK, ConfirmsAreInOrder, flow' = flow, NEW p \in Confirms, ConfirmStep(p)
  PROVE  /\ KeysShrink
         /\ UNCHANGED <<cooldown, issue, before, reserved, late>>
         /\ \/ spent' = spent
            \/ \E c \in Codes : /\ token[c] # Nobody /\ token'[c] = Nobody
                                /\ spent' = spent \cup {token[c]}
  <1> USE DEF KeysShrink, codeKeys, otherKeys, history
  <1>1. ASSUME NEW s \in Subjects, NEW c \in Codes, BeginConfirm(p, s, c)
        PROVE  UNCHANGED <<codeKeys, cooldown, issue, history>>
    BY <1>1 DEF BeginConfirm
  <1>2. CASE CheckAttempts(p)
    BY <1>2 DEF TypeOK, CheckAttempts
  <1>3. CASE LookUp(p)
    BY <1>3 DEF TypeOK, LookUp
  <1>4. CASE LockUser(p)
    BY <1>4 DEF TypeOK, LockUser
  <1>5. CASE Consume(p)
    <2> DEFINE c == confirm[p].code
    <2>1. c \in Codes /\ token[c] # Nobody
      BY <1>5, Typed DEF Consume, Accepts, ConfirmsAreInOrder
    <2>2. /\ \A d \in Codes : token'[d] \in {token[d], Nobody}
          /\ token'[c] = Nobody
      BY <1>5, <2>1 DEF Consume, Deleted
    <2>3. \A s \in Subjects : active'[s] \in {active[s], Nobody}
      BY <1>5 DEF Consume, TypeOK
    <2>4. spent' \in {spent, spent \cup {token[c]}}
      BY <1>5 DEF Consume
    <2>5. UNCHANGED <<cooldown, issue, before, reserved, late>>
      BY <1>5 DEF Consume
    <2> QED BY <2>1, <2>2, <2>3, <2>4, <2>5
  <1>6. CASE RefuseCode(p)
    BY <1>6 DEF TypeOK, RefuseCode
  <1>7. CASE Commit(p)
    BY <1>7 DEF TypeOK, Commit
  <1>8. CASE ClearAttempts(p)
    BY <1>8 DEF TypeOK, ClearAttempts
  <1>9. CASE Unlock(p)
    BY <1>9 DEF TypeOK, Unlock
  <1>10. CASE Count(p)
    BY <1>10 DEF TypeOK, Count
  <1>11. CASE Remaining(p)
    BY <1>11 DEF TypeOK, Remaining
  <1>12. CASE Invalidate(p)
    BY <1>12 DEF TypeOK, Deleted, Invalidate
  <1>13. CASE LockOut(p)
    BY <1>13 DEF TypeOK, LockOut
  <1>14. CASE Fail(p)
    BY <1>14 DEF TypeOK, Fail
  <1>15. ASSUME NEW s \in Subjects, Status(p, s)
        PROVE  UNCHANGED <<codeKeys, cooldown, issue, history>>
    BY <1>15 DEF Status
  <1> QED
    BY <1>1, <1>2, <1>3, <1>4, <1>5, <1>6, <1>7, <1>8, <1>9, <1>10, <1>11, <1>12, <1>13,
       <1>14, <1>15 DEF ConfirmStep

(* A request writes no token but its own, and deletes it in its clean-up.  *)
LEMMA IssueKeepsTokens ==
  ASSUME TypeOK, RequestsAreInOrder, TokensAreTheirs, HistoryIsKept,
         flow' = flow, NEW r \in Issues, IssueStep(r)
  PROVE  TokensAreTheirs'
  <1> USE CodesAssumption
      DEF TokensAreTheirs, RequestsAreInOrder, HistoryIsKept, Undrawn, CleanUps, codeKeys, history
  <1>0. /\ issue[r] \in Issue /\ flow \in AllFlows
        /\ Others(r) /\ TypeOK'
    BY IssueKeepsTypes DEF TypeOK
  <1>1. ASSUME NEW s \in Subjects, BeginIssue(r, s) PROVE TokensAreTheirs'
    BY <1>0, <1>1 DEF TypeOK, BeginIssue, Issue, Others
  <1>2. CASE Reserve(r)
    BY <1>0, <1>2 DEF TypeOK, Reserve, Goto, Issue, Others
  <1>3. CASE SendNotice(r)
    BY <1>0, <1>3 DEF TypeOK, SendNotice, Goto, Issue, Others
  <1>4. CASE ReadPrevious(r)
    BY <1>0, <1>4 DEF TypeOK, ReadPrevious, Issue, Others
  <1>5. CASE SaveToken(r)
    BY <1>0, <1>5 DEF TypeOK, SaveToken, Issue, Others
  <1>6. CASE Activate(r)
    BY <1>0, <1>6 DEF TypeOK, Activate, Goto, Issue, Others
  <1>7. CASE DropPrevious(r)
    <2>1. \A c \in Codes : token[c] # Nobody => token[c] \in Issues
      BY DEF TypeOK
    <2> QED BY <1>0, <1>7, <2>1, DropEffect DEF Others, otherKeys
  <1>8. CASE Deliver(r)
    BY <1>0, <1>8 DEF TypeOK, Deliver, Issue, Others
  <1>9. CASE ClearFailures(r)
    BY <1>0, <1>9 DEF TypeOK, ClearFailures, Goto, Issue, Others
  <1>10. CASE Throw(r)
    <2>1. \A c \in Codes : token[c] # Nobody => token[c] \in Issues
      BY DEF TypeOK
    <2> QED BY <1>0, <1>10, <2>1, ThrowEffect DEF Others, otherKeys
  <1>11. CASE Discard(r)
    BY <1>0, <1>11 DEF TypeOK, Discard, Goto, Deleted, Issue, Others
  <1>12. CASE Compare(r)
    BY <1>0, <1>12 DEF TypeOK, Compare, Code, Issue, Others
  <1>13. CASE FindActive(r)
    BY <1>0, <1>13 DEF TypeOK, FindActive, Issue, Others
  <1>14. CASE DiscardActive(r)
    <2>1. /\ issue'[r].code = issue[r].code /\ issue'[r].at = "unset"
          /\ issue'[r].result = issue[r].result /\ issue[r].at = "discardActive"
      BY <1>0, <1>14 DEF TypeOK, DiscardActive, Issue
    <2>2. \A c \in Codes : token'[c] \in {token[c], Nobody}
      BY <1>14 DEF TypeOK, DiscardActive, Deleted
    <2> QED BY <1>0, <1>14, <2>1, <2>2 DEF TypeOK, DiscardActive, Others
  <1>15. CASE Unset(r)
    BY <1>0, <1>15 DEF TypeOK, Unset, Issue, Others
  <1>16. CASE GiveUp(r)
    BY <1>0, <1>16 DEF TypeOK, GiveUp, Issue, Others
  <1>17. CASE Release(r)
    BY <1>0, <1>17 DEF TypeOK, Release, Goto, Issue, Others
  <1>18. CASE Stop(r)
    BY <1>0, <1>18 DEF TypeOK, Stop, Issue, Others
  <1> QED
    BY <1>1, <1>2, <1>3, <1>4, <1>5, <1>6, <1>7, <1>8, <1>9, <1>10, <1>11, <1>12, <1>13,
       <1>14, <1>15, <1>16, <1>17, <1>18 DEF IssueStep

(* A request activates itself, after every request that was over before it.*)
LEMMA IssueKeepsActive ==
  ASSUME TypeOK, RequestsAreInOrder, ActiveIsCurrent, HistoryIsKept,
         flow' = flow, NEW r \in Issues, IssueStep(r)
  PROVE  ActiveIsCurrent'
  <1> USE CodesAssumption
      DEF ActiveIsCurrent, RequestsAreInOrder, HistoryIsKept, Undrawn, CleanUps, Passed,
          Code, codeKeys, history
  <1>0. /\ issue[r] \in Issue /\ flow \in AllFlows
        /\ Others(r) /\ TypeOK'
    BY IssueKeepsTypes DEF TypeOK
  <1>1. ASSUME NEW s \in Subjects, BeginIssue(r, s) PROVE ActiveIsCurrent'
    BY <1>0, <1>1 DEF TypeOK, BeginIssue, Issue, Others
  <1>2. CASE Reserve(r)
    BY <1>0, <1>2 DEF TypeOK, Reserve, Goto, Issue, Others
  <1>3. CASE SendNotice(r)
    BY <1>0, <1>3 DEF TypeOK, SendNotice, Goto, Issue, Others
  <1>4. CASE ReadPrevious(r)
    BY <1>0, <1>4 DEF TypeOK, ReadPrevious, Issue, Others
  <1>5. CASE SaveToken(r)
    BY <1>0, <1>5 DEF TypeOK, SaveToken, Issue, Others
  <1>6. CASE Activate(r)
    BY <1>0, <1>6 DEF TypeOK, Activate, Goto, Issue, Others
  <1>7. CASE DropPrevious(r)
    BY <1>0, <1>7 DEF TypeOK, DropPrevious, Deleted, Code, Issue, Others
  <1>8. CASE Deliver(r)
    BY <1>0, <1>8 DEF TypeOK, Deliver, Issue, Others
  <1>9. CASE ClearFailures(r)
    BY <1>0, <1>9 DEF TypeOK, ClearFailures, Goto, Issue, Others
  <1>10. CASE Throw(r)
    <2>1. \A s \in Subjects : active[s] # Nobody => active[s] \in Issues
      BY DEF TypeOK
    <2> QED BY <1>0, <1>10, <2>1, ThrowEffect DEF Others, otherKeys
  <1>11. CASE Discard(r)
    BY <1>0, <1>11 DEF TypeOK, Discard, Goto, Deleted, Issue, Others
  <1>12. CASE Compare(r)
    BY <1>0, <1>12 DEF TypeOK, Compare, Code, Issue, Others
  <1>13. CASE FindActive(r)
    BY <1>0, <1>13 DEF TypeOK, FindActive, Issue, Others
  <1>14. CASE DiscardActive(r)
    BY <1>0, <1>14 DEF TypeOK, DiscardActive, Deleted, Code, Issue, Others
  <1>15. CASE Unset(r)
    BY <1>0, <1>15 DEF TypeOK, Unset, Issue, Others
  <1>16. CASE GiveUp(r)
    BY <1>0, <1>16 DEF TypeOK, GiveUp, Issue, Others
  <1>17. CASE Release(r)
    BY <1>0, <1>17 DEF TypeOK, Release, Goto, Issue, Others
  <1>18. CASE Stop(r)
    BY <1>0, <1>18 DEF TypeOK, Stop, Issue, Others
  <1> QED
    BY <1>1, <1>2, <1>3, <1>4, <1>5, <1>6, <1>7, <1>8, <1>9, <1>10, <1>11, <1>12, <1>13,
       <1>14, <1>15, <1>16, <1>17, <1>18 DEF IssueStep

(* The requests of the history do not change any more.                     *)
LEMMA IssueKeepsHistory ==
  ASSUME TypeOK, RequestsAreInOrder, TokensAreTheirs, HistoryIsKept,
         flow' = flow, NEW r \in Issues, IssueStep(r)
  PROVE  HistoryIsKept'
  <1> USE CodesAssumption
      DEF RequestsAreInOrder, TokensAreTheirs, HistoryIsKept, Undrawn, Mails, SavesFirst,
          codeKeys, history
  <1>0. /\ issue[r] \in Issue /\ flow \in AllFlows
        /\ Others(r) /\ TypeOK'
    BY IssueKeepsTypes DEF TypeOK
  <1>q. ASSUME \A c \in Codes : token'[c] \in {token[c], Nobody}, UNCHANGED history,
               issue'[r].code = issue[r].code, issue'[r].subject = issue[r].subject,
               issue[r].at \notin {"new", "reserve", "done"},
               issue'[r].at \notin {"new", "reserve"}
        PROVE  HistoryIsKept'
    <2>1. \A i \in spent' : issue'[i].code # Nobody
      BY <1>0, <1>q, SMTT(30) DEF TypeOK, Others
    <2>2. \A q \in Issues : \A i \in before'[q] :
            /\ issue'[i].at = "done" /\ issue'[q].at # "new"
            /\ issue'[i].subject = issue'[q].subject
            /\ i # q
            /\ \A c \in Codes : token'[c] = i => issue'[q].code # c
      BY <1>0, <1>q DEF TypeOK, Others
    <2>3. \A s \in Subjects : \A i \in reserved'[s] :
            Mails /\ issue'[i].subject = s /\ issue'[i].at \notin {"new", "reserve"}
      BY <1>0, <1>q DEF TypeOK, Others
    <2> QED BY <2>1, <2>2, <2>3
  <1>1. ASSUME NEW s \in Subjects, BeginIssue(r, s) PROVE HistoryIsKept'
    BY <1>0, <1>1 DEF TypeOK, BeginIssue, Issue, Others
  <1>2. CASE Reserve(r)
    BY <1>0, <1>2 DEF TypeOK, Reserve, Goto, Issue, Others
  <1>3. CASE SendNotice(r)
    BY <1>0, <1>3 DEF TypeOK, SendNotice, Goto, Issue, Others
  <1>4. CASE ReadPrevious(r)
    BY <1>0, <1>4 DEF TypeOK, ReadPrevious, Issue, Others
  <1>5. CASE SaveToken(r)
    BY <1>0, <1>5 DEF TypeOK, SaveToken, Issue, Others
  <1>6. CASE Activate(r)
    BY <1>0, <1>6 DEF TypeOK, Activate, Goto, Issue, Others
  <1>7. CASE DropPrevious(r)
    BY <1>7, <1>q, DropEffect DEF otherKeys
  <1>8. CASE Deliver(r)
    BY <1>0, <1>8 DEF TypeOK, Deliver, Issue, Others
  <1>9. CASE ClearFailures(r)
    BY <1>0, <1>9 DEF TypeOK, ClearFailures, Goto, Issue, Others
  <1>10. CASE Throw(r)
    BY <1>10, <1>q, ThrowEffect DEF otherKeys
  <1>11. CASE Discard(r)
    BY <1>0, <1>11 DEF TypeOK, Discard, Goto, Deleted, Issue, Others
  <1>12. CASE Compare(r)
    BY <1>0, <1>12 DEF TypeOK, Compare, Code, Issue, Others
  <1>13. CASE FindActive(r)
    BY <1>0, <1>13 DEF TypeOK, FindActive, Issue, Others
  <1>14. CASE DiscardActive(r)
    BY <1>0, <1>14 DEF TypeOK, DiscardActive, Deleted, Code, Issue, Others
  <1>15. CASE Unset(r)
    BY <1>0, <1>15 DEF TypeOK, Unset, Issue, Others
  <1>16. CASE GiveUp(r)
    BY <1>0, <1>16 DEF TypeOK, GiveUp, Issue, Others
  <1>17. CASE Release(r)
    BY <1>0, <1>17 DEF TypeOK, Release, Goto, Issue, Others
  <1>18. CASE Stop(r)
    BY <1>0, <1>18 DEF TypeOK, Stop, Issue, Others
  <1> QED
    BY <1>1, <1>2, <1>3, <1>4, <1>5, <1>6, <1>7, <1>8, <1>9, <1>10, <1>11, <1>12, <1>13,
       <1>14, <1>15, <1>16, <1>17, <1>18 DEF IssueStep

(* A step of a request that draws nothing, activates nothing and tells     *)
(* nothing about how it ended, and leaves the reservations alone.          *)
Quiet(r) ==
  /\ KeysShrink /\ UNCHANGED <<flow, cooldown, history>>
  /\ issue[r].at \notin {"new", "done"}
  /\ Reserving(r)' => Reserving(r)
  /\ issue'[r].code = issue[r].code /\ issue'[r].subject = issue[r].subject
  /\ Passed(r)' => Passed(r)
  /\ issue'[r].at = "unset" => issue[r].at = "unset" \/ flow = "emailChange"
  /\ issue'[r].result \in {"cleaned", "delivered"} => issue'[r].result = issue[r].result

(* The actions that are quiet in a flow that mails its codes.              *)
LEMMA QuietActions ==
  ASSUME TypeOK, RequestsAreInOrder, flow' = flow, Mails, NEW r \in Issues,
         \/ SendNotice(r) \/ ReadPrevious(r) \/ DropPrevious(r) \/ ClearFailures(r)
         \/ Throw(r) \/ Discard(r) \/ FindActive(r) \/ DiscardActive(r)
         \/ GiveUp(r) \/ Stop(r)
  PROVE  Quiet(r)
  <1> USE CodesAssumption
      DEF Quiet, KeysShrink, Reserving, Passed, RequestsAreInOrder, CleanUps, codeKeys,
          otherKeys, history
  <1>0. issue[r] \in Issue
    BY DEF TypeOK
  <1>1. CASE SendNotice(r)
    BY <1>0, <1>1 DEF TypeOK, SendNotice, Goto, Issue
  <1>2. CASE ReadPrevious(r)
    BY <1>0, <1>2 DEF TypeOK, ReadPrevious, Issue
  <1>3. CASE DropPrevious(r)
    BY <1>0, <1>3 DEF TypeOK, DropPrevious, Deleted, Mails, Issue
  <1>4. CASE ClearFailures(r)
    BY <1>0, <1>4 DEF TypeOK, ClearFailures, Goto, Issue
  <1>5. CASE Throw(r)
    BY <1>0, <1>5 DEF TypeOK, Throw, Issued, Issue
  <1>6. CASE Discard(r)
    BY <1>0, <1>6 DEF TypeOK, Discard, Goto, Deleted, Issue
  <1>7. CASE FindActive(r)
    BY <1>0, <1>7 DEF TypeOK, FindActive, Issue
  <1>8. CASE DiscardActive(r)
    BY <1>0, <1>8 DEF TypeOK, DiscardActive, Deleted, Issue
  <1>9. CASE GiveUp(r)
    BY <1>0, <1>9 DEF TypeOK, GiveUp, Issue
  <1>10. CASE Stop(r)
    BY <1>0, <1>10 DEF TypeOK, Stop, Issue
  <1> QED BY <1>1, <1>2, <1>3, <1>4, <1>5, <1>6, <1>7, <1>8, <1>9, <1>10

(* A quiet step of a request lets the requests take turns.                 *)
LEMMA QuietKeepsTurns ==
  ASSUME TypeOK, TypeOK', RequestsAreInOrder, TokensAreTheirs, RequestsTakeTurns,
         NEW r \in Issues, Others(r), Quiet(r)
  PROVE  RequestsTakeTurns'
  <1> SUFFICES ASSUME ~late, Mails
               PROVE  /\ WorkIsReserved' /\ DeliveryIsReserved' /\ UnsetIsItsOwn'
                      /\ DrawnAgainIsOver' /\ SupersededIsGone' /\ CleanedIsGone'
    BY DEF RequestsTakeTurns, Quiet, Mails, history
  <1> USE CodesAssumption DEF Others, Quiet, KeysShrink, history, RequestsTakeTurns
  <1>0. /\ \A q \in Issues : /\ issue'[q].code = issue[q].code
                             /\ issue'[q].subject = issue[q].subject
                             /\ issue[q].at = "done" => issue'[q].at = "done"
        /\ \A c \in Codes : token'[c] # Nobody => token'[c] = token[c]
        /\ \A c \in Codes : token[c] # Nobody => Owner(token[c]) \in Subjects
        /\ \A q \in Issues : issue[q].at # "new" => issue[q].subject \in Subjects
    <2>1. \A q \in Issues : issue[q].at # "new" => issue[q].subject \in Subjects
      BY Typed DEF RequestsAreInOrder
    <2>2. \A c \in Codes : token[c] # Nobody => Owner(token[c]) \in Subjects
      BY <2>1, Typed DEF TypeOK, Owner, RequestsAreInOrder, TokensAreTheirs, Undrawn
    <2> QED BY <2>1, <2>2
  <1>1. WorkIsReserved'
    BY <1>0 DEF TypeOK, WorkIsReserved, Reserving
  <1>2. DeliveryIsReserved'
    BY <1>0 DEF TypeOK, DeliveryIsReserved
  <1>c. \A t \in Subjects : Code(active[t])' \in {Code(active[t]), Nobody}
    BY <1>0 DEF TypeOK, Code
  <1>3. UnsetIsItsOwn'
    <2>1. \A q \in Issues : issue'[q].at = "unset" /\ flow # "emailChange" =>
            issue[q].at = "unset" /\ issue[q].subject \in Subjects
      BY <1>0
    <2> QED BY <1>0, <1>c, <2>1 DEF UnsetIsItsOwn
  <1>4. DrawnAgainIsOver'
    BY <1>0 DEF TypeOK, DrawnAgainIsOver, Owner
  <1>5. SupersededIsGone'
    <2>1. ASSUME NEW q \in Issues, Passed(q)' PROVE Passed(q) /\ issue[q].subject \in Subjects
      <3>1. Passed(q)
        BY <2>1 DEF Passed
      <3> QED BY <1>0, <3>1 DEF Passed, RequestsAreInOrder
    <2> QED BY <1>0, <1>c, <2>1 DEF TypeOK, SupersededIsGone
  <1>6. CleanedIsGone'
    <2>1. \A c \in Codes : token'[c] # Nobody =>
            /\ token'[c] \in Issues /\ Owner(token[c])' = Owner(token[c])
            /\ issue'[token'[c]].result = "cleaned" => issue[token[c]].result = "cleaned"
      BY <1>0 DEF TypeOK, Owner
    <2> QED BY <1>0, <1>c, <2>1 DEF CleanedIsGone
  <1> QED BY <1>1, <1>2, <1>3, <1>4, <1>5, <1>6

(* What was cleaned up stays gone from the active keys.                    *)
LEMMA IssueKeepsCleaned ==
  ASSUME TypeOK, RequestsAreInOrder, TokensAreTheirs, ActiveIsCurrent, CleanedIsGone,
         flow' = flow, NEW r \in Issues, Others(r),
         \/ \E s \in Subjects : BeginIssue(r, s)
         \/ Reserve(r) \/ SaveToken(r) \/ Deliver(r) \/ Compare(r) \/ Unset(r) \/ Release(r)
  PROVE  CleanedIsGone'
  <1> DEFINE HasCode(i) == issue[i].code # Nobody
             Step == /\ HasCode(r) => /\ issue'[r].code = issue[r].code
                                      /\ issue'[r].subject = issue[r].subject
                     /\ issue'[r].result = "cleaned" =>
                          \/ issue[r].result = "cleaned"
                          \/ issue[r].at = "compare"
                          \/ active'[issue[r].subject] = Nobody
                     /\ \A c \in Codes :
                          \/ token'[c] = token[c]
                          \/ token'[c] = r /\ issue'[r].result # "cleaned"
                     /\ \A s \in Subjects : active'[s] \in {active[s], Nobody}
  <1>0. issue[r] \in Issue /\ \A q \in Issues : HasCode(q) => issue[q].subject \in Subjects
    BY Typed DEF TypeOK, RequestsAreInOrder, Undrawn
  <1> USE CodesAssumption DEF Others
  <1>1. ASSUME NEW s \in Subjects, BeginIssue(r, s) PROVE Step
    BY <1>0, <1>1 DEF TypeOK, BeginIssue, Issue, RequestsAreInOrder, Undrawn, codeKeys
  <1>2. ASSUME Reserve(r) PROVE Step
    BY <1>0, <1>2 DEF TypeOK, Reserve, Goto, Issue, codeKeys
  <1>3. ASSUME SaveToken(r) PROVE Step
    <2>1. issue[r].code = Nobody /\ issue[r].result # "cleaned"
      BY <1>3 DEF SaveToken, RequestsAreInOrder, Undrawn
    <2>2. PICK c \in Codes : /\ token' = [token EXCEPT ![c] = r]
                             /\ issue' = [issue EXCEPT ![r] =
                                  [@ EXCEPT !.code = c,
                                            !.at = IF SavesFirst THEN "previous"
                                                   ELSE "activate"]]
      BY <1>3, ZenonT(60) DEF SaveToken
    <2>3. issue'[r].result = issue[r].result
      BY <1>0, <2>2 DEF TypeOK, Issue
    <2> QED BY <1>3, <2>1, <2>2, <2>3 DEF TypeOK, SaveToken
  <1>4. ASSUME Deliver(r) PROVE Step
    BY <1>0, <1>4 DEF TypeOK, Deliver, Issue, codeKeys
  <1>5. ASSUME Compare(r) PROVE Step
    BY <1>0, <1>5 DEF TypeOK, Compare, Issue, codeKeys
  <1>6. ASSUME Unset(r) PROVE Step
    <2>1. issue[r].subject \in Subjects
      BY <1>0, <1>6 DEF Unset, RequestsAreInOrder, CleanUps
    <2> QED BY <1>0, <1>6, <2>1 DEF TypeOK, Unset, Issue
  <1>7. ASSUME Release(r) PROVE Step
    BY <1>0, <1>7 DEF TypeOK, Release, Goto, Issue, codeKeys
  <1>8. Step
    BY <1>1, <1>2, <1>3, <1>4, <1>5, <1>6, <1>7
  <1> SUFFICES ASSUME NEW c \in Codes, token'[c] # Nobody,
                      issue'[token'[c]].result = "cleaned"
               PROVE  Code(active[Owner(token[c])])' # c
    BY DEF CleanedIsGone
  <1> DEFINE t == issue[token[c]].subject
  <1>9. token'[c] = token[c] /\ token[c] \in Issues /\ issue[token[c]].code = c
    BY <1>8 DEF TypeOK, TokensAreTheirs
  <1>10. issue'[token[c]].subject = t /\ t \in Subjects
    BY <1>0, <1>8, <1>9
  <1>11. \A s \in Subjects : Code(active[s])' \in {Code(active[s]), Nobody}
    BY <1>8 DEF TypeOK, ActiveIsCurrent, Code
  <1>12. CASE issue[token[c]].result = "cleaned"
    BY <1>9, <1>10, <1>11, <1>12 DEF CleanedIsGone, Owner
  <1>13. CASE issue[token[c]].result # "cleaned"
    <2>1. token[c] = r
      BY <1>9, <1>13
    <2>2. issue[r].at # "compare"
      BY <1>9, <2>1 DEF TokensAreTheirs, RequestsAreInOrder
    <2> QED BY <1>8, <1>9, <1>10, <1>13, <2>1, <2>2 DEF Owner, Code
  <1> QED BY <1>12, <1>13

(* The requests of a subject take turns, as long as no key expires early.  *)
LEMMA IssueKeepsTurns ==
  ASSUME TypeOK, RequestsAreInOrder, TokensAreTheirs, ActiveIsCurrent, HistoryIsKept,
         RequestsTakeTurns, flow' = flow, NEW r \in Issues, IssueStep(r)
  PROVE  RequestsTakeTurns'
  <1> DEFINE Turns == /\ WorkIsReserved' /\ DeliveryIsReserved' /\ UnsetIsItsOwn'
                      /\ DrawnAgainIsOver' /\ SupersededIsGone' /\ CleanedIsGone'
  <1>0. /\ issue[r] \in Issue /\ Others(r) /\ TypeOK' /\ late' = late
        /\ issue[r].at # "new" => issue[r].subject \in Subjects
    <2>1. TypeOK' /\ Others(r)
      BY IssueKeepsTypes
    <2>2. late' = late
      BY DEF IssueStep, history, BeginIssue, Reserve, SendNotice, ReadPrevious, SaveToken,
             Activate, DropPrevious, Deliver, ClearFailures, Throw, Discard, Compare,
             FindActive, DiscardActive, Unset, GiveUp, Release, Stop
    <2> QED BY <2>1, <2>2, Typed DEF RequestsAreInOrder
  <1> SUFFICES ASSUME ~late, Mails, flow \in AllFlows PROVE Turns
    BY <1>0, CodesAssumption DEF RequestsTakeTurns, Mails, TypeOK
  <1>t. /\ WorkIsReserved /\ DeliveryIsReserved /\ UnsetIsItsOwn
        /\ DrawnAgainIsOver /\ SupersededIsGone /\ CleanedIsGone
    BY DEF RequestsTakeTurns
  <1> USE CodesAssumption DEF Mails, SavesFirst, Code, Owner, Passed, Reserving,
      RequestsAreInOrder, TokensAreTheirs, ActiveIsCurrent, HistoryIsKept,
      Undrawn, CleanUps, Others, codeKeys, otherKeys, history
  <1>1. ASSUME NEW s \in Subjects, BeginIssue(r, s) PROVE Turns
    <2>1. WorkIsReserved'
      BY <1>0, <1>t, <1>1 DEF TypeOK, Issue, WorkIsReserved, BeginIssue
    <2>2. DeliveryIsReserved'
      BY <1>0, <1>t, <1>1 DEF TypeOK, Issue, DeliveryIsReserved, BeginIssue
    <2>3. UnsetIsItsOwn'
      BY <1>0, <1>t, <1>1 DEF TypeOK, Issue, UnsetIsItsOwn, BeginIssue
    <2>4. DrawnAgainIsOver'
      BY <1>0, <1>t, <1>1 DEF TypeOK, Issue, DrawnAgainIsOver, BeginIssue
    <2>5. SupersededIsGone'
      BY <1>0, <1>t, <1>1 DEF TypeOK, Issue, SupersededIsGone, BeginIssue
    <2>6. CleanedIsGone'
      BY <1>0, <1>t, <1>1, IssueKeepsCleaned
    <2> QED BY <2>1, <2>2, <2>3, <2>4, <2>5, <2>6
  <1>2. CASE Reserve(r)
    <2>1. WorkIsReserved'
      BY <1>0, <1>t, <1>2 DEF TypeOK, Issue, WorkIsReserved, Reserve, Goto
    <2>2. DeliveryIsReserved'
      BY <1>0, <1>t, <1>2 DEF TypeOK, Issue, DeliveryIsReserved, Reserve, Goto
    <2>3. UnsetIsItsOwn'
      BY <1>0, <1>t, <1>2 DEF TypeOK, Issue, UnsetIsItsOwn, Reserve, Goto
    <2>4. DrawnAgainIsOver'
      BY <1>0, <1>t, <1>2 DEF TypeOK, Issue, DrawnAgainIsOver, Reserve, Goto
    <2>5. SupersededIsGone'
      BY <1>0, <1>t, <1>2 DEF TypeOK, Issue, SupersededIsGone, Reserve, Goto
    <2>6. CleanedIsGone'
      BY <1>0, <1>t, <1>2, IssueKeepsCleaned
    <2> QED BY <2>1, <2>2, <2>3, <2>4, <2>5, <2>6
  <1>3. CASE SaveToken(r)
    <2>1. WorkIsReserved'
      BY <1>0, <1>t, <1>3 DEF TypeOK, Issue, WorkIsReserved, SaveToken
    <2>2. DeliveryIsReserved'
      BY <1>0, <1>t, <1>3 DEF TypeOK, Issue, DeliveryIsReserved, SaveToken
    <2>3. UnsetIsItsOwn'
      BY <1>0, <1>t, <1>3 DEF TypeOK, Issue, UnsetIsItsOwn, SaveToken
    <2>4. DrawnAgainIsOver'
      <3>1. PICK c \in Codes : /\ token' = [token EXCEPT ![c] = r]
                               /\ issue' = [issue EXCEPT ![r] =
                                    [@ EXCEPT !.code = c,
                                              !.at = IF SavesFirst THEN "previous"
                                                     ELSE "activate"]]
        BY <1>3, ZenonT(60) DEF SaveToken
      <3>2. /\ issue[r].at = "save" /\ issue[r].code = Nobody
            /\ issue'[r].code = c /\ issue'[r].subject = issue[r].subject
            /\ token'[c] = r /\ \A d \in Codes \ {c} : token'[d] = token[d]
        BY <1>0, <1>3, <3>1 DEF SaveToken, TypeOK, Issue
      <3>3. ASSUME NEW q \in Issues \ {r}, issue[q].code = c,
                   issue[q].subject = issue[r].subject
            PROVE  issue[q].at = "done"
        <4>1. issue[q].at \notin {"new", "reserve"}
          BY <3>3
        <4> QED BY <1>t, <3>2, <3>3, <4>1 DEF WorkIsReserved
      <3>4. ASSUME NEW d \in Codes \ {c}, token[d] # Nobody,
                   NEW q \in Issues \ {token[d]}, issue'[q].code = d,
                   issue'[q].subject = Owner(token[d])'
            PROVE  issue'[q].at = "done"
        <4>1. token[d] \in Issues /\ token[d] # r /\ q # r
          BY <3>2, <3>4 DEF TypeOK
        <4>2. /\ issue'[q] = issue[q] /\ issue'[token[d]] = issue[token[d]]
              /\ token'[d] = token[d]
          BY <1>0, <3>2, <4>1
        <4>3. issue[q].code = d /\ issue[q].subject = issue[token[d]].subject
          BY <3>4, <4>2
        <4> QED BY <1>t, <3>4, <4>1, <4>2, <4>3 DEF DrawnAgainIsOver
      <3>5. ASSUME NEW q \in Issues \ {r}, issue'[q].code = c,
                   issue'[q].subject = Owner(r)'
            PROVE  issue'[q].at = "done"
        BY <1>0, <3>2, <3>3, <3>5
      <3> QED BY <3>2, <3>4, <3>5 DEF DrawnAgainIsOver
    <2>5. SupersededIsGone'
      BY <1>0, <1>t, <1>3 DEF TypeOK, Issue, SupersededIsGone, SaveToken
    <2>6. CleanedIsGone'
      BY <1>0, <1>t, <1>3, IssueKeepsCleaned
    <2> QED BY <2>1, <2>2, <2>3, <2>4, <2>5, <2>6
  <1>4. CASE Activate(r)
    <2> DEFINE t == issue[r].subject
    <2>0. /\ UNCHANGED <<token, cooldown, history>>
          /\ issue[r].at = "activate" /\ issue'[r].at = "drop"
          /\ t \in Subjects /\ active' = [active EXCEPT ![t] = r]
          /\ \A q \in Issues : /\ issue'[q].code = issue[q].code
                               /\ issue'[q].subject = issue[q].subject
                               /\ issue'[q].result = issue[q].result
      BY <1>0, <1>4 DEF Activate, Goto, TypeOK, Issue
    <2>a. /\ Code(active[t])' = issue[r].code
          /\ \A u \in Subjects \ {t} : Code(active[u])' = Code(active[u])
      BY <2>0 DEF TypeOK
    <2>b. ASSUME NEW c \in Codes, token[c] # Nobody, token[c] # r,
                 issue[token[c]].subject = t
          PROVE  issue[r].code # c
      BY <1>t, <2>0, <2>b DEF DrawnAgainIsOver
    <2>1. WorkIsReserved'
      BY <1>0, <1>t, <1>4 DEF TypeOK, Issue, WorkIsReserved, Activate, Goto
    <2>2. DeliveryIsReserved'
      BY <1>0, <1>t, <1>4 DEF TypeOK, Issue, DeliveryIsReserved, Activate, Goto
    <2>3. UnsetIsItsOwn'
      <3>1. ASSUME NEW q \in Issues, issue'[q].at = "unset"
            PROVE  issue[q].at = "unset" /\ issue[q].subject \in Subjects \ {t}
        <4>1. q # r /\ issue[q].at = "unset"
          BY <1>0, <2>0, <3>1
        <4>2. issue[q].subject \in Subjects
          BY <4>1, Typed
        <4> QED BY <1>t, <2>0, <4>1, <4>2 DEF WorkIsReserved
      <3> QED BY <1>t, <2>0, <2>a, <3>1 DEF UnsetIsItsOwn
    <2>4. DrawnAgainIsOver'
      BY <1>0, <1>t, <1>4 DEF TypeOK, Issue, DrawnAgainIsOver, Activate, Goto
    <2>5. SupersededIsGone'
      <3> SUFFICES ASSUME NEW c \in Codes, token[c] # Nobody,
                          NEW q \in Issues, token[c] \in before[q], Passed(q)'
                   PROVE  Code(active[issue[q].subject])' # c
        BY <2>0 DEF SupersededIsGone
      <3>1. /\ issue[q].subject \in Subjects
            /\ token[c] \in Issues /\ token[c] # r
            /\ issue[token[c]].subject = issue[q].subject
        BY <2>0, Typed DEF TypeOK
      <3>2. CASE issue[q].subject = t
        BY <2>0, <2>a, <2>b, <3>1, <3>2
      <3>3. CASE issue[q].subject # t
        <4>1. q # r /\ Passed(q)
          BY <1>0, <3>3
        <4> QED BY <1>t, <2>0, <2>a, <3>1, <3>3, <4>1 DEF SupersededIsGone
      <3> QED BY <3>2, <3>3
    <2>6. CleanedIsGone'
      <3> SUFFICES ASSUME NEW c \in Codes, token[c] # Nobody,
                          issue[token[c]].result = "cleaned"
                   PROVE  Code(active[issue[token[c]].subject])' # c
        BY <2>0 DEF CleanedIsGone, TypeOK
      <3>1. token[c] \in Issues /\ token[c] # r /\ issue[token[c]].subject \in Subjects
        BY <2>0, Typed DEF TypeOK
      <3>2. Code(active[issue[token[c]].subject]) # c
        BY <1>t, <3>1 DEF CleanedIsGone
      <3>3. CASE issue[token[c]].subject = t
        BY <2>0, <2>a, <2>b, <3>1, <3>3
      <3>4. CASE issue[token[c]].subject # t
        <4>1. issue'[token'[c]].subject = issue[token[c]].subject
          BY <2>0, <3>1
        <4>2. issue[token[c]].subject \in Subjects \ {t}
          BY <3>1, <3>4
        <4> QED BY <2>a, <3>2, <4>1, <4>2
      <3> QED BY <3>3, <3>4
    <2> QED BY <2>1, <2>2, <2>3, <2>4, <2>5, <2>6
  <1>5. CASE Deliver(r)
    <2>1. WorkIsReserved'
      BY <1>0, <1>t, <1>5 DEF TypeOK, Issue, WorkIsReserved, Deliver
    <2>2. DeliveryIsReserved'
      <3>1. /\ issue[r].at = "mail" /\ UNCHANGED <<cooldown, reserved>>
            /\ \A q \in Issues \ {r} : issue'[q].result = issue[q].result
        BY <1>0, <1>5 DEF Deliver
      <3>2. \A s \in Subjects : r \in reserved[s] => cooldown[s] = r
        BY <1>0, <1>t, <3>1 DEF WorkIsReserved
      <3> QED BY <1>t, <3>1, <3>2 DEF DeliveryIsReserved, TypeOK
    <2>3. UnsetIsItsOwn'
      BY <1>0, <1>t, <1>5 DEF TypeOK, Issue, UnsetIsItsOwn, Deliver
    <2>4. DrawnAgainIsOver'
      BY <1>0, <1>t, <1>5 DEF TypeOK, Issue, DrawnAgainIsOver, Deliver
    <2>5. SupersededIsGone'
      BY <1>0, <1>t, <1>5 DEF TypeOK, Issue, SupersededIsGone, Deliver
    <2>6. CleanedIsGone'
      BY <1>0, <1>t, <1>5, IssueKeepsCleaned
    <2> QED BY <2>1, <2>2, <2>3, <2>4, <2>5, <2>6
  <1>6. CASE Compare(r)
    <2>1. WorkIsReserved'
      BY <1>0, <1>t, <1>6 DEF TypeOK, Issue, WorkIsReserved, Compare
    <2>2. DeliveryIsReserved'
      BY <1>0, <1>t, <1>6 DEF TypeOK, Issue, DeliveryIsReserved, Compare
    <2>3. UnsetIsItsOwn'
      BY <1>0, <1>t, <1>6 DEF TypeOK, Issue, UnsetIsItsOwn, Compare
    <2>4. DrawnAgainIsOver'
      BY <1>0, <1>t, <1>6 DEF TypeOK, Issue, DrawnAgainIsOver, Compare
    <2>5. SupersededIsGone'
      <3>1. UNCHANGED <<token, active, before>>
        BY <1>6 DEF Compare
      <3>2. \A q \in Issues : /\ issue'[q].code = issue[q].code
                              /\ issue'[q].subject = issue[q].subject
                              /\ Passed(q)' => Passed(q)
        BY <1>0, <1>6 DEF TypeOK, Issue, Compare
      <3>3. \A t \in Subjects : Code(active[t])' = Code(active[t])
        BY <3>1, <3>2 DEF TypeOK
      <3>4. \A q \in Issues : Passed(q) => issue[q].subject \in Subjects
        BY Typed
      <3> HIDE DEF Code, Passed
      <3> QED BY <1>t, <3>1, <3>2, <3>3, <3>4 DEF SupersededIsGone
    <2>6. CleanedIsGone'
      BY <1>0, <1>t, <1>6, IssueKeepsCleaned
    <2> QED BY <2>1, <2>2, <2>3, <2>4, <2>5, <2>6
  <1>7. CASE Unset(r)
    <2>1. WorkIsReserved'
      BY <1>0, <1>t, <1>7 DEF TypeOK, Issue, WorkIsReserved, Unset
    <2>2. DeliveryIsReserved'
      BY <1>0, <1>t, <1>7 DEF TypeOK, Issue, DeliveryIsReserved, Unset
    <2>3. UnsetIsItsOwn'
      BY <1>0, <1>t, <1>7 DEF TypeOK, Issue, UnsetIsItsOwn, Unset
    <2>4. DrawnAgainIsOver'
      BY <1>0, <1>t, <1>7 DEF TypeOK, Issue, DrawnAgainIsOver, Unset
    <2>5. SupersededIsGone'
      BY <1>0, <1>t, <1>7 DEF TypeOK, Issue, SupersededIsGone, Unset
    <2>6. CleanedIsGone'
      BY <1>0, <1>t, <1>7, IssueKeepsCleaned
    <2> QED BY <2>1, <2>2, <2>3, <2>4, <2>5, <2>6
  <1>8. CASE Release(r)
    <2>1. WorkIsReserved'
      BY <1>0, <1>t, <1>8 DEF TypeOK, Issue, WorkIsReserved, Release, Goto
    <2>2. DeliveryIsReserved'
      <3>1. /\ issue[r].at = "release" /\ UNCHANGED reserved
            /\ issue[r].subject \in Subjects
            /\ cooldown' = [cooldown EXCEPT ![issue[r].subject] = Nobody]
            /\ \A q \in Issues : issue'[q].result = issue[q].result
        BY <1>0, <1>8 DEF Release, Goto, TypeOK, Issue
      <3>2. cooldown[issue[r].subject] = r /\ issue[r].result # "delivered"
        BY <1>t, <3>1 DEF WorkIsReserved
      <3> QED BY <1>t, <3>1, <3>2 DEF DeliveryIsReserved, TypeOK
    <2>3. UnsetIsItsOwn'
      BY <1>0, <1>t, <1>8 DEF TypeOK, Issue, UnsetIsItsOwn, Release, Goto
    <2>4. DrawnAgainIsOver'
      BY <1>0, <1>t, <1>8 DEF TypeOK, Issue, DrawnAgainIsOver, Release, Goto
    <2>5. SupersededIsGone'
      BY <1>0, <1>t, <1>8 DEF TypeOK, Issue, SupersededIsGone, Release, Goto
    <2>6. CleanedIsGone'
      BY <1>0, <1>t, <1>8, IssueKeepsCleaned
    <2> QED BY <2>1, <2>2, <2>3, <2>4, <2>5, <2>6
  <1>9. CASE \/ SendNotice(r) \/ ReadPrevious(r) \/ DropPrevious(r) \/ ClearFailures(r)
             \/ Throw(r) \/ Discard(r) \/ FindActive(r) \/ DiscardActive(r)
             \/ GiveUp(r) \/ Stop(r)
    <2>1. Quiet(r)
      BY <1>9, QuietActions
    <2>2. RequestsTakeTurns'
      BY <1>0, <2>1, QuietKeepsTurns
    <2> QED BY <1>0, <2>2 DEF RequestsTakeTurns
  <1> QED
    BY <1>1, <1>2, <1>3, <1>4, <1>5, <1>6, <1>7, <1>8, <1>9 DEF IssueStep

-----------------------------------------------------------------------------
(* Confirmations, and keys that expire.                                    *)

(* Taking keys away, and spending the code of a key that is taken away,    *)
(* disturbs nothing of the requests.                                       *)
LEMMA ShrinkKeepsRequests ==
  ASSUME TypeOK, TypeOK', RequestsAreInOrder, TokensAreTheirs, ActiveIsCurrent,
         HistoryIsKept, RequestsTakeTurns,
         KeysShrink, UNCHANGED <<flow, issue, before, cooldown, reserved>>,
         late => late',
         \/ spent' = spent
         \/ \E c \in Codes : /\ token[c] # Nobody /\ token'[c] = Nobody
                             /\ spent' = spent \cup {token[c]}
  PROVE  /\ RequestsAreInOrder' /\ TokensAreTheirs' /\ ActiveIsCurrent'
         /\ HistoryIsKept' /\ RequestsTakeTurns'
  <1> USE CodesAssumption DEF KeysShrink
  <1>0. /\ \A i \in spent' \ spent : \E c \in Codes : /\ token[c] = i /\ token'[c] = Nobody
                                                      /\ i # Nobody
        /\ \A c \in Codes : token'[c] # Nobody => token'[c] = token[c]
        /\ \A u \in Subjects : active'[u] # Nobody => active'[u] = active[u]
        /\ \A u \in Subjects : Code(active[u])' \in {Code(active[u]), Nobody}
        /\ \A i \in Issues : issue[i].code # Nobody => issue[i].subject \in Subjects
    <2>1. \A i \in Issues : issue[i].code # Nobody => issue[i].subject \in Subjects
      BY Typed DEF RequestsAreInOrder, Undrawn
    <2> QED BY <2>1 DEF Code
  <1>1. RequestsAreInOrder'
    BY DEF RequestsAreInOrder, Undrawn, Mails, SavesFirst
  <1>2. TokensAreTheirs'
    BY <1>0 DEF TypeOK, TokensAreTheirs
  <1>3. ActiveIsCurrent'
    BY <1>0 DEF ActiveIsCurrent, Passed
  <1>4. HistoryIsKept'
    <2>1. \A i \in spent' : issue'[i].code # Nobody
      BY <1>0 DEF TypeOK, TokensAreTheirs, HistoryIsKept
    <2>2. \A r \in Issues : \A i \in before'[r] :
            /\ issue'[i].at = "done" /\ issue'[r].at # "new"
            /\ issue'[i].subject = issue'[r].subject
            /\ i # r
            /\ \A c \in Codes : token'[c] = i => issue'[r].code # c
      BY <1>0 DEF TypeOK, HistoryIsKept
    <2> QED BY <2>1, <2>2 DEF HistoryIsKept, Mails
  <1>5. RequestsTakeTurns'
    <2> SUFFICES ASSUME ~late, Mails
                 PROVE  /\ WorkIsReserved' /\ DeliveryIsReserved' /\ UnsetIsItsOwn'
                        /\ DrawnAgainIsOver' /\ SupersededIsGone' /\ CleanedIsGone'
      BY DEF TypeOK, RequestsTakeTurns, Mails
    <2> USE DEF RequestsTakeTurns
    <2>1. WorkIsReserved' /\ DeliveryIsReserved'
      BY DEF WorkIsReserved, DeliveryIsReserved, Reserving
    <2>2. UnsetIsItsOwn'
      <3>1. \A r \in Issues : issue[r].at = "unset" => issue[r].subject \in Subjects
        BY Typed DEF RequestsAreInOrder
      <3> QED BY <1>0, <3>1 DEF UnsetIsItsOwn
    <2>3. DrawnAgainIsOver'
      BY <1>0 DEF DrawnAgainIsOver, Owner
    <2>4. SupersededIsGone'
      <3>1. \A r \in Issues : Passed(r) => issue[r].subject \in Subjects
        BY Typed DEF RequestsAreInOrder, Passed
      <3> QED BY <1>0, <3>1 DEF SupersededIsGone, Passed
    <2>5. CleanedIsGone'
      <3>1. \A c \in Codes : token[c] # Nobody =>
              token[c] \in Issues /\ Owner(token[c]) \in Subjects
        BY <1>0 DEF TypeOK, TokensAreTheirs, Owner
      <3>2. \A c \in Codes : token'[c] # Nobody => Owner(token[c])' = Owner(token[c])
        BY <1>0 DEF Owner
      <3> QED BY <1>0, <3>1, <3>2 DEF CleanedIsGone
    <2> QED BY <2>1, <2>2, <2>3, <2>4, <2>5
  <1> QED BY <1>1, <1>2, <1>3, <1>4, <1>5

(* So does the end of a reservation, of a request that is over.            *)
LEMMA ExpireCooldownKeepsRequests ==
  ASSUME TypeOK, TypeOK', RequestsAreInOrder, TokensAreTheirs, ActiveIsCurrent,
         HistoryIsKept, RequestsTakeTurns, flow' = flow,
         NEW u \in Subjects, ExpireCooldown(u)
  PROVE  /\ RequestsAreInOrder' /\ TokensAreTheirs' /\ ActiveIsCurrent'
         /\ HistoryIsKept' /\ RequestsTakeTurns'
  <1> USE CodesAssumption DEF codeKeys, ExpireCooldown
  <1>1. RequestsAreInOrder' /\ TokensAreTheirs' /\ ActiveIsCurrent'
    BY DEF RequestsAreInOrder, Undrawn, Mails, SavesFirst, TokensAreTheirs,
           ActiveIsCurrent, Passed
  <1>2. HistoryIsKept'
    BY DEF TypeOK, HistoryIsKept, Mails
  <1>3. RequestsTakeTurns'
    <2> SUFFICES ASSUME ~late, ~InFlight(cooldown[u]), Mails
                 PROVE  /\ WorkIsReserved' /\ DeliveryIsReserved' /\ UnsetIsItsOwn'
                        /\ DrawnAgainIsOver' /\ SupersededIsGone' /\ CleanedIsGone'
      BY DEF TypeOK, RequestsTakeTurns, Mails
    <2>1. WorkIsReserved'
      <3>1. \A r \in Issues : Reserving(r) => cooldown[issue[r].subject] = r
        BY DEF RequestsTakeTurns, WorkIsReserved
      <3>2. \A r \in Issues : Reserving(r) => issue[r].subject # u
        BY <3>1 DEF InFlight, Reserving
      <3> QED BY <3>1, <3>2, Typed DEF TypeOK, RequestsAreInOrder, WorkIsReserved, Reserving
    <2>2. DeliveryIsReserved'
      BY DEF TypeOK, RequestsTakeTurns, DeliveryIsReserved
    <2>3. UnsetIsItsOwn' /\ DrawnAgainIsOver' /\ SupersededIsGone' /\ CleanedIsGone'
      BY DEF RequestsTakeTurns, UnsetIsItsOwn, DrawnAgainIsOver, SupersededIsGone,
             CleanedIsGone, Code, Owner, Passed
    <2> QED BY <2>1, <2>2, <2>3
  <1> QED BY <1>1, <1>2, <1>3

(* The keys that expire keep the types.                                    *)
LEMMA ExpiryKeepsTypes ==
  ASSUME TypeOK, flow' = flow,
         \/ \E c \in Codes : ExpireToken(c)
         \/ \E s \in Subjects : \/ ExpireActive(s) \/ ExpireCooldown(s)
                                \/ ExpireAttempts(s) \/ ExpireLockout(s)
  PROVE  TypeOK'
  <1> USE DEF TypeOK, codeKeys, otherKeys, history
  <1>1. ASSUME NEW c \in Codes, ExpireToken(c) PROVE TypeOK'
    BY <1>1 DEF ExpireToken, Deleted, InFlight
  <1>2. ASSUME NEW s \in Subjects, ExpireActive(s) PROVE TypeOK'
    BY <1>2 DEF ExpireActive
  <1>3. ASSUME NEW s \in Subjects, ExpireCooldown(s) PROVE TypeOK'
    BY <1>3 DEF ExpireCooldown, InFlight
  <1>4. ASSUME NEW s \in Subjects, ExpireAttempts(s) PROVE TypeOK'
    BY <1>4 DEF ExpireAttempts
  <1>5. ASSUME NEW s \in Subjects, ExpireLockout(s) PROVE TypeOK'
    BY <1>5 DEF ExpireLockout
  <1> QED BY <1>1, <1>2, <1>3, <1>4, <1>5

-----------------------------------------------------------------------------
(* Attempts.                                                               *)

MayCount == {"lookup", "lockUser", "consume", "count"}

(* The counter of s and the confirmations that may still count: none more, *)
(* or the counter is below the limit, or one has counted.                  *)
Spared(s) ==
  \/ attempts'[s] <= attempts[s] /\ Checked(s)' \subseteq Checked(s)
  \/ attempts'[s] < MaxAttempts
  \/ \E p \in Checked(s) : /\ attempts'[s] = attempts[s] + 1
                           /\ Checked(s)' \subseteq Checked(s) \ {p}

(* What every step of a confirmation does to them.                         *)
LEMMA ConfirmSpares ==
  ASSUME TypeOK, ConfirmsAreInOrder, flow' = flow, NEW p \in Confirms, ConfirmStep(p)
  PROVE  \A s \in Subjects : Spared(s)
  <1>0. /\ confirm[p] \in Confirm /\ TypeOK' /\ Apart(p)
        /\ confirm[p].at # "idle" => confirm[p].subject \in Subjects
        /\ \A s \in Subjects : attempts[s] \in Nat /\ MaxAttempts \in Nat \ {0}
    BY ConfirmKeepsTypes, Typed, CodesAssumption DEF TypeOK, ConfirmsAreInOrder
  <1> DEFINE Leaves == \/ confirm'[p].at \notin MayCount
                       \/ /\ confirm[p].at \in MayCount
                          /\ confirm'[p].subject = confirm[p].subject
  <1>q. ASSUME attempts' = attempts \/ \E s \in Subjects : attempts' = [attempts EXCEPT ![s] = 0],
               Leaves
        PROVE  \A s \in Subjects : Spared(s)
    <2>1. \A s \in Subjects : Checked(s)' \subseteq Checked(s)
      BY <1>0, <1>q DEF Checked, Apart, MayCount
    <2>2. \A s \in Subjects : attempts'[s] <= attempts[s]
      BY <1>0, <1>q DEF TypeOK
    <2> QED BY <2>1, <2>2 DEF Spared
  <1>r. Return(p) => Leaves
    BY ReturnEffect DEF Idle, MayCount
  <1>g. ASSUME NEW at \in ConfirmSteps, Proceed(p, at),
               at \in MayCount => confirm[p].at \in MayCount
        PROVE  Leaves
    BY <1>g, ProceedEffect
  <1> USE DEF otherKeys, ConfirmSteps
  <1>1. ASSUME NEW s \in Subjects, NEW c \in Codes, BeginConfirm(p, s, c)
        PROVE  \A t \in Subjects : Spared(t)
    <2>1. Leaves
      BY <1>0, <1>1 DEF TypeOK, BeginConfirm, Idle, MayCount
    <2> QED BY <1>1, <1>q, <2>1 DEF BeginConfirm
  <1>2. CASE CheckAttempts(p)
    <2> DEFINE s == confirm[p].subject
    <2>1. s \in Subjects /\ attempts' = attempts /\ attempts[s] < MaxAttempts
      BY <1>0, <1>2 DEF CheckAttempts
    <2>2. Apart(p) /\ confirm'[p].subject = s
      BY <1>2, ProceedEffect DEF CheckAttempts
    <2>3. \A t \in Subjects \ {s} : Checked(t)' \subseteq Checked(t)
      BY <2>2 DEF Checked, Apart
    <2> QED BY <1>0, <2>1, <2>3 DEF Spared
  <1>3. CASE LookUp(p)
    <2>1. confirm'[p].subject = confirm[p].subject /\ confirm[p].at = "lookup"
      BY <1>0, <1>3 DEF TypeOK, LookUp, Confirm
    <2> QED BY <1>3, <1>q, <2>1 DEF LookUp, MayCount
  <1>4. CASE LockUser(p)
    BY <1>4, <1>q, <1>g DEF LockUser, MayCount
  <1>5. CASE Consume(p)
    <2>1. CASE confirm' = [confirm EXCEPT ![p] =
                 [@ EXCEPT !.at = "commit", !.found = token[confirm[p].code]]]
      <3>1. confirm'[p].at = "commit"
        BY <1>0, <2>1 DEF TypeOK, Confirm
      <3> QED BY <1>5, <1>q, <3>1 DEF Consume, MayCount
    <2>2. CASE Proceed(p, "count")
      BY <1>5, <1>q, <1>g, <2>2 DEF Consume, MayCount
    <2>3. CASE Return(p)
      BY <1>5, <1>q, <1>r, <2>3 DEF Consume
    <2> QED BY <1>5, <2>1, <2>2, <2>3 DEF Consume
  <1>6. CASE RefuseCode(p)
    BY <1>6, <1>q, <1>g, <1>r DEF RefuseCode, MayCount
  <1>7. CASE Commit(p)
    BY <1>7, <1>q, <1>g DEF Commit, MayCount
  <1>8. CASE ClearAttempts(p)
    BY <1>0, <1>8, <1>q, <1>g, <1>r DEF ClearAttempts, MayCount
  <1>9. CASE Unlock(p)
    BY <1>9, <1>q, <1>r DEF Unlock
  <1>10. CASE Count(p)
    <2>0. PICK s \in Subjects : s = confirm[p].subject
      BY <1>0, <1>10 DEF Count
    <2>1. s \in Subjects /\ p \in Checked(s) /\ attempts' = [attempts EXCEPT ![s] = @ + 1]
      BY <1>10, <2>0 DEF Count, Checked
    <2>2. Apart(p) /\ confirm'[p].at \notin MayCount
      <3>1. CASE Proceed(p, "remaining")
        BY <1>0, <3>1, ProceedEffect DEF MayCount
      <3>2. CASE Return(p)
        BY <1>0, <3>2, ReturnEffect DEF MayCount, Idle
      <3> QED BY <1>10, <3>1, <3>2 DEF Count
    <2>3. /\ Checked(s)' \subseteq Checked(s) \ {p}
          /\ \A t \in Subjects \ {s} : Checked(t)' \subseteq Checked(t)
      BY <2>0, <2>2 DEF Checked, Apart, MayCount
    <2>4. attempts'[s] = attempts[s] + 1 /\ \A t \in Subjects \ {s} : attempts'[t] <= attempts[t]
      BY <1>0, <2>1 DEF TypeOK
    <2> QED BY <2>1, <2>3, <2>4 DEF Spared
  <1>11. CASE Remaining(p)
    BY <1>11, <1>q, <1>g, <1>r DEF Remaining, MayCount
  <1>12. CASE Invalidate(p)
    <2>1. CASE confirm' = [confirm EXCEPT ![p] =
                 [@ EXCEPT !.at = "discardActive", !.found = active[confirm[p].subject]]]
      <3>1. confirm'[p].at = "discardActive"
        BY <1>0, <2>1 DEF TypeOK, Confirm
      <3> QED BY <1>12, <1>q, <3>1 DEF Invalidate, MayCount
    <2>2. CASE confirm' = [confirm EXCEPT ![p] = [@ EXCEPT !.at = "unset", !.found = Nobody]]
      <3>1. confirm'[p].at = "unset"
        BY <1>0, <2>2 DEF TypeOK, Confirm
      <3> QED BY <1>12, <1>q, <3>1 DEF Invalidate, MayCount
    <2>3. CASE Proceed(p, "lockout")
      BY <1>12, <1>q, <1>g, <2>3 DEF Invalidate, MayCount
    <2> QED BY <1>12, <2>1, <2>2, <2>3 DEF Invalidate
  <1>13. CASE LockOut(p)
    BY <1>13, <1>q, <1>r DEF LockOut
  <1>14. CASE Fail(p)
    BY <1>14, <1>q, <1>r DEF Fail
  <1>15. ASSUME NEW u \in Subjects, Status(p, u) PROVE \A s \in Subjects : Spared(s)
    <2>1. attempts' = attempts \/ \E s \in Subjects : attempts' = [attempts EXCEPT ![s] = 0]
      BY <1>15 DEF Status
    <2>2. CASE confirm' = [confirm EXCEPT ![p] = [Idle EXCEPT !.at = "statusAttempts",
                                                             !.subject = u]]
      <3>1. confirm'[p].at = "statusAttempts"
        BY <2>2 DEF TypeOK, Idle
      <3> QED BY <1>q, <2>1, <3>1 DEF MayCount
    <2>3. CASE Proceed(p, "statusClear")
      BY <1>q, <1>g, <2>1, <2>3 DEF MayCount
    <2>4. CASE confirm' = [confirm EXCEPT ![p] = Idle]
      BY <1>q, <2>1, <2>4 DEF TypeOK, Idle, MayCount
    <2> QED BY <1>15, <2>2, <2>3, <2>4 DEF Status
  <1> QED
    BY <1>1, <1>2, <1>3, <1>4, <1>5, <1>6, <1>7, <1>8, <1>9, <1>10, <1>11, <1>12, <1>13,
       <1>14, <1>15 DEF ConfirmStep

(* The counter and those who may still count stay within the limit and the *)
(* number of confirmations.                                                *)
LEMMA SparedKeepsAttempts ==
  ASSUME TypeOK, TypeOK', AttemptsAreReserved, \A s \in Subjects : Spared(s)
  PROVE  AttemptsAreReserved'
  <1> USE CodesAssumption
  <1> SUFFICES ASSUME NEW s \in Subjects
               PROVE  attempts'[s] + Cardinality(Checked(s)') <=
                        MaxAttempts - 1 + Cardinality(Confirms)
    BY DEF AttemptsAreReserved
  <1>0. /\ attempts[s] \in Nat /\ attempts'[s] \in Nat /\ MaxAttempts \in Nat
        /\ attempts[s] + Cardinality(Checked(s)) <= MaxAttempts - 1 + Cardinality(Confirms)
    BY DEF TypeOK, AttemptsAreReserved
  <1>1. Checked(s) \subseteq Confirms /\ Checked(s)' \subseteq Confirms
    BY DEF Checked
  <1>2. /\ IsFiniteSet(Checked(s)) /\ Cardinality(Checked(s)) \in Nat
        /\ IsFiniteSet(Checked(s)') /\ Cardinality(Checked(s)') \in Nat
        /\ Cardinality(Checked(s)') <= Cardinality(Confirms) /\ Cardinality(Confirms) \in Nat
    BY <1>1, FS_Subset, FS_CardinalityType
  <1>3. CASE attempts'[s] <= attempts[s] /\ Checked(s)' \subseteq Checked(s)
    <2>1. Cardinality(Checked(s)') <= Cardinality(Checked(s))
      BY <1>2, <1>3, FS_Subset
    <2> QED BY <1>0, <1>2, <1>3, <2>1
  <1>4. CASE attempts'[s] < MaxAttempts
    BY <1>0, <1>2, <1>4
  <1>5. ASSUME NEW p \in Checked(s), attempts'[s] = attempts[s] + 1,
               Checked(s)' \subseteq Checked(s) \ {p}
        PROVE  attempts'[s] + Cardinality(Checked(s)') <=
                 MaxAttempts - 1 + Cardinality(Confirms)
    <2>1. /\ IsFiniteSet(Checked(s) \ {p})
          /\ Cardinality(Checked(s) \ {p}) = Cardinality(Checked(s)) - 1
      BY <1>2, FS_RemoveElement
    <2>2. Cardinality(Checked(s)') <= Cardinality(Checked(s) \ {p})
      BY <1>5, <2>1, FS_Subset
    <2> QED BY <1>0, <1>2, <1>5, <2>1, <2>2
  <1> QED BY <1>3, <1>4, <1>5 DEF Spared

(* A request resets the counter or leaves it; keys that expire do so too.  *)
LEMMA OthersSpare ==
  ASSUME TypeOK,
         \/ \E r \in Issues : IssueStep(r)
         \/ \E c \in Codes : ExpireToken(c)
         \/ \E s \in Subjects : \/ ExpireActive(s) \/ ExpireCooldown(s)
                                \/ ExpireAttempts(s) \/ ExpireLockout(s)
  PROVE  \A s \in Subjects : Spared(s)
  <1> USE DEF otherKeys
  <1>1. confirm' = confirm
    BY DEF IssueStep, BeginIssue, Reserve, SendNotice, ReadPrevious, SaveToken,
           Activate, DropPrevious, Deliver, ClearFailures, Throw, Discard, Compare,
           FindActive, DiscardActive, Unset, GiveUp, Release, Stop,
           ExpireToken, ExpireActive, ExpireCooldown, ExpireAttempts, ExpireLockout
  <1>2. \/ attempts' = attempts
        \/ \E u \in Subjects \cup {Nobody} : attempts' = [attempts EXCEPT ![u] = 0]
    BY Typed DEF IssueStep, BeginIssue, Reserve, SendNotice,
           ReadPrevious, SaveToken, Activate, DropPrevious, Deliver, ClearFailures, Throw,
           Discard, Compare, FindActive, DiscardActive, Unset, GiveUp, Release, Stop,
           ExpireToken, ExpireActive, ExpireCooldown, ExpireAttempts, ExpireLockout
  <1>3. \A s \in Subjects : attempts'[s] <= attempts[s]
    BY <1>2 DEF TypeOK
  <1> QED BY <1>1, <1>3 DEF Spared, Checked

-----------------------------------------------------------------------------
(* The invariant, and what follows from it.                                *)

(* The invariant holds before anything was requested.                      *)
LEMMA InitHolds ==
  ASSUME Init
  PROVE  TypeOK /\ CodesInv
  <1> USE CodesAssumption DEF Init, Idle
  <1>1. TypeOK
    BY DEF TypeOK, Issue, IssueSteps, Confirm, ConfirmSteps
  <1>2. RequestsAreInOrder /\ ConfirmsAreInOrder /\ TokensAreTheirs /\ ActiveIsCurrent
    BY DEF RequestsAreInOrder, ConfirmsAreInOrder, TokensAreTheirs, ActiveIsCurrent,
           Undrawn, CleanUps, AllFlows, Mails
  <1>3. HistoryIsKept /\ RequestsTakeTurns
    <2>1. \A r \in Issues : issue[r].at = "new" /\ issue[r].result = "none"
      OBVIOUS
    <2>2. HistoryIsKept
      BY DEF HistoryIsKept
    <2>3. WorkIsReserved /\ DeliveryIsReserved /\ UnsetIsItsOwn
      BY <2>1 DEF WorkIsReserved, DeliveryIsReserved, UnsetIsItsOwn, Reserving
    <2>4. DrawnAgainIsOver /\ SupersededIsGone /\ CleanedIsGone
      BY DEF DrawnAgainIsOver, SupersededIsGone, CleanedIsGone
    <2> QED BY <2>2, <2>3, <2>4 DEF RequestsTakeTurns
  <1>4. AttemptsAreReserved
    <2>1. \A s \in Subjects : Checked(s) = {}
      BY DEF Checked
    <2>2. Cardinality({}) = 0 /\ Cardinality(Confirms) \in Nat
      BY FS_EmptySet, FS_CardinalityType
    <2>3. \A s \in Subjects : attempts[s] = 0 /\ Cardinality(Checked(s)) = 0
      BY <2>1, FS_EmptySet
    <2> QED BY <2>2, <2>3 DEF AttemptsAreReserved
  <1> QED BY <1>1, <1>2, <1>3, <1>4 DEF CodesInv

(* Every step of a request for a code, of a confirmation and of an expiry  *)
(* keeps the invariant.                                                    *)
LEMMA NextKeeps ==
  ASSUME TypeOK, CodesInv, [Next]_vars
  PROVE  TypeOK' /\ CodesInv'
  <1> USE DEF CodesInv
  <1>1. ASSUME flow' = flow, NEW r \in Issues, IssueStep(r) PROVE TypeOK' /\ CodesInv'
    <2>1. TypeOK'
      BY <1>1, IssueKeepsTypes
    <2>2. /\ RequestsAreInOrder' /\ TokensAreTheirs' /\ ActiveIsCurrent'
          /\ HistoryIsKept' /\ RequestsTakeTurns'
      BY <1>1, IssueKeepsOrder, IssueKeepsTokens, IssueKeepsActive, IssueKeepsHistory,
         IssueKeepsTurns
    <2>3. AttemptsAreReserved'
      BY <1>1, <2>1, OthersSpare, SparedKeepsAttempts
    <2>4. confirm' = confirm
      BY <1>1 DEF IssueStep, BeginIssue, Reserve, SendNotice, ReadPrevious, SaveToken,
           Activate, DropPrevious, Deliver, ClearFailures, Throw, Discard, Compare,
           FindActive, DiscardActive, Unset, GiveUp, Release, Stop
    <2> QED BY <2>1, <2>2, <2>3, <2>4 DEF ConfirmsAreInOrder
  <1>2. ASSUME flow' = flow, NEW p \in Confirms, ConfirmStep(p) PROVE TypeOK' /\ CodesInv'
    <2>1. TypeOK' /\ ConfirmsAreInOrder'
      BY <1>2, ConfirmKeepsTypes, ConfirmKeepsOrder
    <2>2. /\ RequestsAreInOrder' /\ TokensAreTheirs' /\ ActiveIsCurrent'
          /\ HistoryIsKept' /\ RequestsTakeTurns'
      BY <1>2, <2>1, ConfirmEffect, ShrinkKeepsRequests
    <2>3. AttemptsAreReserved'
      BY <1>2, <2>1, ConfirmSpares, SparedKeepsAttempts
    <2> QED BY <2>1, <2>2, <2>3
  <1>3. ASSUME flow' = flow,
               \/ \E c \in Codes : ExpireToken(c)
               \/ \E s \in Subjects : \/ ExpireActive(s) \/ ExpireCooldown(s)
                                      \/ ExpireAttempts(s) \/ ExpireLockout(s)
        PROVE  TypeOK' /\ CodesInv'
    <2>1. TypeOK'
      BY <1>3, ExpiryKeepsTypes
    <2>2. AttemptsAreReserved'
      BY <1>3, <2>1, OthersSpare, SparedKeepsAttempts
    <2>3. ConfirmsAreInOrder'
      BY <1>3 DEF ConfirmsAreInOrder, ExpireToken, ExpireActive, ExpireCooldown,
                  ExpireAttempts, ExpireLockout
    <2>4. CASE \E s \in Subjects : ExpireCooldown(s)
      BY <1>3, <2>1, <2>2, <2>3, <2>4, ExpireCooldownKeepsRequests
    <2>5. CASE \/ \E c \in Codes : ExpireToken(c)
               \/ \E s \in Subjects : ExpireActive(s) \/ ExpireAttempts(s) \/ ExpireLockout(s)
      <3>1. /\ KeysShrink /\ UNCHANGED <<issue, before, cooldown, reserved, spent>>
            /\ late => late'
        BY <2>5 DEF TypeOK, KeysShrink, ExpireToken, Deleted, ExpireActive, ExpireAttempts,
                    ExpireLockout, codeKeys, otherKeys, history
      <3> QED BY <1>3, <2>1, <2>2, <2>3, <3>1, ShrinkKeepsRequests
    <2> QED BY <1>3, <2>4, <2>5
  <1>4. CASE UNCHANGED vars
    <2>1. TypeOK'
      BY <1>4 DEF TypeOK, vars, codeKeys, otherKeys, history
    <2>2. RequestsAreInOrder' /\ ConfirmsAreInOrder' /\ TokensAreTheirs' /\ ActiveIsCurrent'
      BY <1>4 DEF vars, codeKeys, otherKeys, history, RequestsAreInOrder, ConfirmsAreInOrder,
                  TokensAreTheirs, ActiveIsCurrent, Undrawn, Mails, SavesFirst, Passed
    <2>3. HistoryIsKept' /\ RequestsTakeTurns'
      BY <1>4, <2>1, ShrinkKeepsRequests
         DEF vars, codeKeys, otherKeys, history, KeysShrink
    <2>4. AttemptsAreReserved'
      BY <1>4 DEF vars, otherKeys, AttemptsAreReserved, Checked
    <2> QED BY <2>1, <2>2, <2>3, <2>4
  <1> QED BY <1>1, <1>2, <1>3, <1>4 DEF Next

(* The invariant holds in every behaviour.                                 *)
THEOREM CodesAreKept == Spec => [](TypeOK /\ CodesInv)
  BY InitHolds, NextKeeps, PTL DEF Spec

(* Every variable has its type.                                            *)
THEOREM TypeCorrect == Spec => []TypeOK
  BY CodesAreKept, PTL

(* The counter of failed attempts exceeds the limit by at most the number  *)
(* of confirmations that were in flight together.                          *)
THEOREM AttemptsStayLimited == Spec => []AttemptsAreLimited
  <1>1. TypeOK /\ CodesInv => AttemptsAreLimited
    <2> SUFFICES ASSUME TypeOK, AttemptsAreReserved, NEW s \in Subjects
                 PROVE  attempts[s] <= MaxAttempts - 1 + Cardinality(Confirms)
      BY DEF CodesInv, AttemptsAreLimited
    <2>1. Checked(s) \subseteq Confirms
      BY DEF Checked
    <2>2. Cardinality(Checked(s)) \in Nat /\ Cardinality(Confirms) \in Nat
      BY <2>1, CodesAssumption, FS_Subset, FS_CardinalityType
    <2> QED BY <2>2, CodesAssumption DEF TypeOK, AttemptsAreReserved
  <1> QED BY <1>1, CodesAreKept, PTL

(* Only the script that consumes the code lets a confirmation commit.      *)
LEMMA AcceptedEffect ==
  ASSUME TypeOK, CodesInv, [Next]_vars, NEW p \in Confirms, Accepted(p)
  PROVE  LET s == confirm[p].subject
             c == confirm[p].code
         IN  /\ s \in Subjects /\ c \in Codes
             /\ Accepts(s, c) /\ Matches(p, token[c])
             /\ confirm'[p].found = token[c]
  <1>0. /\ confirm[p] \in Confirm /\ confirm[p].at = "consume"
        /\ confirm'[p].at = "commit"
        /\ confirm[p].subject \in Subjects /\ confirm[p].code \in Codes
    BY Typed DEF CodesInv, ConfirmsAreInOrder, Accepted, TypeOK
  <1>1. PICK q \in Confirms : flow' = flow /\ ConfirmStep(q)
    BY <1>0 DEF Next, vars, IssueStep, BeginIssue, Reserve, SendNotice, ReadPrevious,
           SaveToken, Activate, DropPrevious, Deliver, ClearFailures, Throw, Discard, Compare,
           FindActive, DiscardActive, Unset, GiveUp, Release, Stop,
           ExpireToken, ExpireActive, ExpireCooldown, ExpireAttempts, ExpireLockout
  <1>2. q = p
    BY <1>0, <1>1, ConfirmKeepsTypes DEF CodesInv, Apart
  <1>3. ASSUME Return(p) PROVE FALSE
    BY <1>0, <1>3, ReturnEffect DEF Idle
  <1>4. ASSUME Proceed(p, "count") PROVE FALSE
    BY <1>0, <1>4, ProceedEffect DEF ConfirmSteps
  <1>5. Consume(p)
    <2>1. confirm[p] # Idle
      BY <1>0 DEF Idle
    <2>2. ~RefuseCode(p) /\ ~Fail(p)
      BY <1>3, <1>4 DEF RefuseCode, Fail
    <2>3. /\ \A s \in Subjects : ~Status(p, s)
          /\ \A s \in Subjects, c \in Codes : ~BeginConfirm(p, s, c)
      BY <1>0, <2>1 DEF Status, BeginConfirm
    <2> QED BY <1>0, <1>1, <1>2, <2>2, <2>3 DEF ConfirmStep, CheckAttempts, LookUp,
       LockUser, Commit, ClearAttempts, Unlock, Count, Remaining, Invalidate, LockOut
  <1>6. /\ Accepts(confirm[p].subject, confirm[p].code)
        /\ Matches(p, token[confirm[p].code])
        /\ confirm' = [confirm EXCEPT ![p] =
               [@ EXCEPT !.at = "commit", !.found = token[confirm[p].code]]]
    BY <1>3, <1>4, <1>5 DEF Consume
  <1>7. confirm'[p].found = token[confirm[p].code]
    BY <1>0, <1>6 DEF TypeOK, Confirm
  <1> QED BY <1>0, <1>6, <1>7

(* A code is accepted at most once, for the subject it was issued to.      *)
THEOREM SpentOnce == Spec => CodeIsSpentOnce
  <1> DEFINE Step(p) == Accepted(p) => /\ confirm'[p].found \notin spent
                                       /\ Owner(confirm'[p].found) = confirm[p].subject
  <1>1. TypeOK /\ CodesInv /\ [Next]_vars => \A p \in Confirms : Step(p)
    BY AcceptedEffect DEF CodesInv, TokensAreTheirs, Accepts, Matches
  <1>2. TypeOK /\ CodesInv /\ [Next]_vars =>
          [\A p \in Confirms :
             Accepted(p) => /\ confirm'[p].found \notin spent
                            /\ Owner(confirm'[p].found) = confirm[p].subject]_vars
    BY <1>1
  <1> QED BY <1>2, CodesAreKept, PTL DEF Spec, CodeIsSpentOnce

(* The digits that are accepted were drawn by a request which no delivered *)
(* request followed; without overlap so was the token they find.           *)
THEOREM LatestWins == Spec => LatestIsSpent
  <1>1. ASSUME TypeOK, CodesInv, [Next]_vars, NEW p \in Confirms, Accepted(p)
        PROVE  /\ \E i \in Issues : Drawn(i, p) /\ ~Superseded(i)
               /\ Mails /\ ~late => ~Superseded(confirm'[p].found)
    <2> DEFINE s == confirm[p].subject
               c == confirm[p].code
    <2>1. /\ s \in Subjects /\ c \in Codes /\ token[c] # Nobody /\ Code(active[s]) = c
          /\ Owner(token[c]) = s /\ confirm'[p].found = token[c]
      BY <1>1, AcceptedEffect DEF Accepts, Matches
    <2>2. active[s] \in Issues /\ token[c] \in Issues
      BY <2>1, CodesAssumption, <1>1 DEF TypeOK, Code
    <2>3. active[s] # Nobody
      BY <2>2, CodesAssumption
    <2>4. Drawn(active[s], p)
      BY <1>1, <2>1, <2>2, <2>3 DEF CodesInv, ActiveIsCurrent, Drawn, Code
    <2>5. ~Superseded(active[s])
      BY <1>1, <2>1, <2>3 DEF CodesInv, ActiveIsCurrent, Superseded, Passed
    <2>6. ASSUME Mails, ~late, NEW r \in Issues, token[c] \in before[r],
                 issue[r].result = "delivered"
          PROVE  FALSE
      <3>1. issue[r].subject = s
        BY <1>1, <2>1, <2>2, <2>6 DEF CodesInv, HistoryIsKept, Owner
      <3> QED BY <1>1, <2>1, <2>6, <3>1 DEF CodesInv, RequestsTakeTurns, SupersededIsGone, Passed
    <2> QED BY <2>1, <2>2, <2>4, <2>5, <2>6 DEF Superseded
  <1>2. TypeOK /\ CodesInv /\ [Next]_vars =>
          [\A p \in Confirms : Accepted(p) =>
             /\ \E i \in Issues : Drawn(i, p) /\ ~Superseded(i)
             /\ Mails /\ ~late => ~Superseded(confirm'[p].found)]_vars
    BY <1>1
  <1> QED BY <1>2, CodesAreKept, PTL DEF Spec, LatestIsSpent

(* The digits that are accepted were drawn by a request that has not       *)
(* cleaned up after a failed delivery.                                     *)
THEOREM FailedStayUnspent == Spec => FailedIsNeverSpent
  <1>1. ASSUME TypeOK, CodesInv, [Next]_vars, NEW p \in Confirms, Accepted(p)
        PROVE  /\ \E i \in Issues : Drawn(i, p) /\ issue[i].result # "cleaned"
               /\ ~(flow = "emailChange" /\ late)
                    => issue[confirm'[p].found].result # "cleaned"
    <2> DEFINE s == confirm[p].subject
               c == confirm[p].code
    <2>1. /\ s \in Subjects /\ c \in Codes /\ token[c] # Nobody /\ Code(active[s]) = c
          /\ Owner(token[c]) = s /\ confirm'[p].found = token[c]
      BY <1>1, AcceptedEffect DEF Accepts, Matches
    <2>2. active[s] \in Issues /\ token[c] \in Issues
      BY <2>1, CodesAssumption, <1>1 DEF TypeOK, Code
    <2>3. active[s] # Nobody
      BY <2>2, CodesAssumption
    <2>4. Drawn(active[s], p) /\ issue[active[s]].result # "cleaned"
      BY <1>1, <2>1, <2>2, <2>3 DEF CodesInv, ActiveIsCurrent, Drawn, Code
    <2>5. ~(flow = "emailChange" /\ late) => issue[token[c]].result # "cleaned"
      BY <1>1, <2>1 DEF CodesInv, TokensAreTheirs, RequestsTakeTurns, CleanedIsGone, Mails
    <2> QED BY <2>1, <2>2, <2>4, <2>5
  <1>2. TypeOK /\ CodesInv /\ [Next]_vars =>
          [\A p \in Confirms : Accepted(p) =>
             /\ \E i \in Issues : Drawn(i, p) /\ issue[i].result # "cleaned"
             /\ ~(flow = "emailChange" /\ late)
                  => issue[confirm'[p].found].result # "cleaned"]_vars
    BY <1>1
  <1> QED BY <1>2, CodesAreKept, PTL DEF Spec, FailedIsNeverSpent

(* The clean-up of a failed request, other than of an email change, takes  *)
(* no live code of other digits away.                                      *)
THEOREM FailureIsLocal == Spec => FailureSparesOthers
  <1>1. ASSUME TypeOK, CodesInv, [Next]_vars, NEW r \in Issues, NEW i \in Issues,
               CleanUp(r), Live(i), Code(i) # Code(r), ~late
        PROVE  Live(i)'
    <2> USE CodesAssumption
    <2>0. /\ issue[r] \in Issue /\ issue[r].at \in {"discard", "unset"}
          /\ issue[r].subject \in Subjects /\ issue'[r] # issue[r] /\ flow # "emailChange"
      BY <1>1, Typed DEF TypeOK, CodesInv, RequestsAreInOrder, CleanUp
    <2>1. PICK q \in Issues : flow' = flow /\ IssueStep(q)
      <3>1. issue' # issue
        BY <2>0
      <3>2. ~\E p \in Confirms : flow' = flow /\ ConfirmStep(p)
        BY <1>1, <3>1, ConfirmEffect DEF CodesInv
      <3> QED BY <1>1, <3>1, <3>2 DEF Next, vars, ExpireToken, ExpireActive, ExpireCooldown,
             ExpireAttempts, ExpireLockout
    <2>2. q = r /\ TypeOK'
      BY <1>1, <2>0, <2>1, IssueKeepsTypes DEF CodesInv, Others
    <2>3. PICK s \in Subjects : active[s] = i /\ token[Code(i)] = i
      BY <1>1 DEF Live
    <2>4. issue[i].code # Nobody /\ i # Nobody /\ Code(i) = issue[i].code
      BY <1>1, <2>3 DEF CodesInv, ActiveIsCurrent, Code
    <2>a. ASSUME issue'[i].code = issue[i].code, active'[s] = i,
                 token'[issue[i].code] = i
          PROVE  Live(i)'
      BY <2>a, <2>4 DEF Live, Code
    <2>b. issue[i].code \in Codes
      BY <2>4, Typed, <1>1
    <2>5. CASE Discard(r)
      <3>1. /\ active' = active /\ issue'[i].code = issue[i].code
            /\ token'[issue[i].code] = token[issue[i].code]
        BY <1>1, <2>b, <2>4, <2>5 DEF TypeOK, Issue, Discard, Goto, Deleted, Code
      <3> QED BY <2>3, <2>4, <2>a, <3>1
    <2>6. CASE Unset(r)
      <3>1. Code(active[issue[r].subject]) \in {Nobody, issue[r].code}
        BY <1>1, <2>0, <2>6 DEF CodesInv, RequestsTakeTurns, UnsetIsItsOwn, Unset,
           RequestsAreInOrder, Mails
      <3>2. s # issue[r].subject
        BY <1>1, <2>3, <2>4, <3>1 DEF Code
      <3>3. /\ active'[s] = active[s] /\ issue'[i].code = issue[i].code
            /\ token' = token
        BY <1>1, <2>6, <3>2 DEF TypeOK, Issue, Unset
      <3> QED BY <2>3, <2>4, <2>a, <3>3
    <2>7. CASE GiveUp(r) \/ Stop(r)
      <3>1. /\ active' = active /\ issue'[i].code = issue[i].code
            /\ token' = token
        BY <1>1, <2>7 DEF TypeOK, Issue, GiveUp, Stop, codeKeys
      <3> QED BY <2>3, <2>4, <2>a, <3>1
    <2> QED BY <2>0, <2>1, <2>2, <2>5, <2>6, <2>7 DEF IssueStep, BeginIssue, Reserve,
       SendNotice, ReadPrevious, SaveToken, Activate, DropPrevious, Deliver, ClearFailures,
       Throw, Compare, FindActive, DiscardActive, Release
  <1>2. TypeOK /\ CodesInv /\ [Next]_vars =>
          [\A r, i \in Issues :
             CleanUp(r) /\ Live(i) /\ Code(i) # Code(r) /\ ~late => Live(i)']_vars
    BY <1>1
  <1> QED BY <1>2, CodesAreKept, PTL DEF Spec, FailureSparesOthers

(* A request reserves its subject after no delivered request whose         *)
(* reservation has not expired.                                            *)
THEOREM CooldownIsKept == Spec => CooldownHolds
  <1>1. ASSUME TypeOK, CodesInv, [Next]_vars, NEW r \in Issues, NEW s \in Subjects, ~late,
               cooldown'[s] = r, cooldown[s] # r, NEW i \in reserved[s]
        PROVE  issue[i].result # "delivered"
    <2> USE CodesAssumption
    <2>1. PICK q \in Issues : flow' = flow /\ Reserve(q)
      <3>1. cooldown'[s] \notin {cooldown[s], Nobody}
        BY <1>1
      <3>2. ~\E p \in Confirms : flow' = flow /\ ConfirmStep(p)
        BY <1>1, <3>1, ConfirmEffect DEF CodesInv
      <3>3. ~\E u \in Subjects : ExpireCooldown(u)
        BY <1>1, <3>1 DEF ExpireCooldown, TypeOK
      <3>4. ~\E q \in Issues : Release(q)
        BY <1>1, <3>1 DEF Release, TypeOK
      <3> QED BY <1>1, <3>1, <3>2, <3>3, <3>4 DEF Next, vars, otherKeys, ExpireToken,
         ExpireActive, ExpireAttempts, ExpireLockout, IssueStep, BeginIssue, SendNotice,
         ReadPrevious, SaveToken, Activate, DropPrevious, Deliver, ClearFailures, Throw,
         Discard, Compare, FindActive, DiscardActive, Unset, GiveUp, Stop
    <2>2. cooldown[s] = Nobody
      BY <1>1, <2>1 DEF Reserve, TypeOK
    <2>3. i \in Issues /\ Mails
      BY <1>1 DEF TypeOK, CodesInv, HistoryIsKept
    <2> QED BY <1>1, <2>2, <2>3 DEF CodesInv, RequestsTakeTurns, DeliveryIsReserved
  <1>2. TypeOK /\ CodesInv /\ [Next]_vars =>
          [\A r \in Issues, s \in Subjects : ~late => ReservesInTime(r, s)]_vars
    BY <1>1 DEF ReservesInTime
  <1> QED BY <1>2, CodesAreKept, PTL DEF Spec, CooldownHolds
=============================================================================
