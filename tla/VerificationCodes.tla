-------------------------- MODULE VerificationCodes --------------------------
(***************************************************************************)
(* Six-digit verification codes: TokensService and the five flows that     *)
(* issue a code, deliver it and confirm it.  The state is Redis: the token *)
(* under a code, the active code of a subject (an email or an account),    *)
(* its counter of failed attempts, the reservation that keeps the next     *)
(* request away, the lockout.  A process makes one Redis call per step, so *)
(* calls of others come in between, and keys expire in between.            *)
(*                                                                         *)
(* An issue is one request for a code.  A key holds the issue that wrote   *)
(* it; what the program reads and compares is the code of that issue.      *)
(***************************************************************************)
EXTENDS Integers, FiniteSets

CONSTANTS
  Flows,         \* the flows that are modelled, each with keys of its own
  Subjects,      \* emails (registration, reset) or accounts
  Codes,         \* the six-digit codes
  Issues,        \* requests for a code; each is made at most once
  Confirms,      \* confirmations in flight
  Nobody,        \* the value of a key that is absent
  MaxAttempts    \* DEFAULT_VERIFICATION_ATTEMPTS

AllFlows == {"registration", "reset", "emailChange", "currentReset", "passwordChange"}

ASSUME CodesAssumption ==
  /\ Flows \subseteq AllFlows
  /\ Nobody \notin Issues \cup Confirms \cup Codes \cup Subjects
  /\ IsFiniteSet(Confirms)
  /\ MaxAttempts \in Nat \ {0}

VARIABLES
  flow,       \* the flow whose keys are followed
  token,      \* the key of each code
  active,     \* the active key of each subject
  attempts,   \* the counter of failed attempts of each subject
  cooldown,   \* the resend reservation of each subject
  lockout,    \* whether the lockout key of each subject is there
  userLock,   \* who holds the row lock of each account
  issue,      \* the requests for a code
  confirm,    \* the confirmations
  spent,      \* history: issues whose code has been accepted
  before,     \* history: issues of the subject that were over when each began
  reserved,   \* history: issues that reserved since the reservation expired
  late        \* history: whether a key expired before its request was over

codeKeys == <<token, active>>
otherKeys == <<attempts, cooldown, lockout>>
history == <<spent, before, reserved, late>>
vars == <<flow, codeKeys, otherKeys, userLock, issue, confirm, history>>

(* Flows in which too many failures invalidate the code and lock out.      *)
LocksOut == flow \in {"registration", "reset", "emailChange"}

(* Flows that reserve the subject and send the code by mail.               *)
Mails == flow # "passwordChange"

(* Flows that save the token before they read the code it replaces.        *)
SavesFirst == flow \in {"currentReset", "passwordChange"}

IssueSteps == {"new", "reserve", "previous", "save", "activate", "drop", "mail", "notice",
               "clear", "discard", "compare", "findActive", "discardActive", "unset",
               "release", "done"}
ConfirmSteps == {"idle", "attempts", "lookup", "lockUser", "consume", "commit", "clear",
                 "unlock", "count", "remaining", "findActive", "discardActive", "unset",
                 "lockout", "statusAttempts", "statusClear"}

Issue == [at : IssueSteps, subject : Subjects \cup {Nobody}, code : Codes \cup {Nobody},
          found : Issues \cup {Nobody},   \* the issue read from the active key
          result : {"none", "delivered", "failed", "cleaned"}]
Confirm == [at : ConfirmSteps, subject : Subjects \cup {Nobody},
            code : Codes \cup {Nobody}, found : Issues \cup {Nobody}]

Idle == [at |-> "idle", subject |-> Nobody, code |-> Nobody, found |-> Nobody]

Code(i) == IF i = Nobody THEN Nobody ELSE issue[i].code
Owner(i) == IF i = Nobody THEN Nobody ELSE issue[i].subject

(* Redis DEL of the key of a code; of no code, nothing.                    *)
Deleted(c) == [k \in Codes |-> IF k = c THEN Nobody ELSE token[k]]

(* Fault: the script does not compare the active code.                     *)
AcceptsAnyToken(s, c) == token[c] # Nobody

(* What CONSUME_ACTIVE_TOKEN_SCRIPT asks for before it deletes both keys.  *)
Accepts(s, c) == token[c] # Nobody /\ Code(active[s]) = c

(* A code that its subject could confirm now.                              *)
Live(i) == \E s \in Subjects : active[s] = i /\ token[Code(i)] = i

-----------------------------------------------------------------------------
(* Requesting a code.                                                      *)

Goto(r, at) == issue' = [issue EXCEPT ![r].at = at]

(* request or resend, past its checks of the lockout and the account.      *)
BeginIssue(r, s) ==
  /\ issue[r].at = "new"
  /\ LocksOut => ~lockout[s]
  /\ issue' = [issue EXCEPT ![r] =
         [@ EXCEPT !.subject = s,
                   !.at = IF Mails THEN "reserve" ELSE "save"]]
  /\ before' = [before EXCEPT ![r] =
       {i \in Issues : issue[i].at = "done" /\ issue[i].subject = s}]
  /\ UNCHANGED <<codeKeys, otherKeys, userLock, confirm, spent, reserved, late>>

(* Fault: the reservation is written without NX.                           *)
ReserveAnyway(r) ==
  LET s == issue[r].subject IN
  /\ issue[r].at = "reserve"
  /\ cooldown' = [cooldown EXCEPT ![s] = r]
  /\ reserved' = [reserved EXCEPT ![s] = @ \cup {r}]
  /\ Goto(r, IF SavesFirst THEN "save" ELSE "previous")
  /\ UNCHANGED <<codeKeys, attempts, lockout, userLock, confirm, spent, before, late>>

(* SET NX; a request that comes too soon is answered 429 and is over.      *)
Reserve(r) ==
  LET s == issue[r].subject IN
  /\ issue[r].at = "reserve"
  /\ cooldown[s] = Nobody
  /\ cooldown' = [cooldown EXCEPT ![s] = r]
  /\ reserved' = [reserved EXCEPT ![s] = @ \cup {r}]
  /\ Goto(r, IF SavesFirst THEN "save" ELSE "previous")
  /\ UNCHANGED <<codeKeys, attempts, lockout, userLock, confirm, spent, before, late>>

(* Registration of an account that exists, reset of one that does not, a   *)
(* resend without an active code: a notice or nothing is sent instead, and *)
(* the reservation stays.                                                  *)
SendNotice(r) ==
  /\ issue[r].at = "previous"
  /\ flow \in {"registration", "reset"}
  /\ Goto(r, "notice")
  /\ UNCHANGED <<codeKeys, otherKeys, userLock, confirm, history>>

ReadPrevious(r) ==
  /\ issue[r].at = "previous"
  /\ issue' = [issue EXCEPT ![r] =
         [@ EXCEPT !.found = active[issue[r].subject],
                   !.at = IF SavesFirst THEN "activate" ELSE "save"]]
  /\ UNCHANGED <<codeKeys, otherKeys, userLock, confirm, history>>

(* saveVerificationToken: SET NX under a random code that is free.         *)
SaveToken(r) ==
  /\ issue[r].at = "save"
  /\ \E c \in Codes :
       /\ token[c] = Nobody
       /\ token' = [token EXCEPT ![c] = r]
       /\ issue' = [issue EXCEPT ![r] =
              [@ EXCEPT !.code = c,
                        !.at = IF SavesFirst THEN "previous" ELSE "activate"]]
  /\ UNCHANGED <<active, otherKeys, userLock, confirm, history>>

Activate(r) ==
  /\ issue[r].at = "activate"
  /\ active' = [active EXCEPT ![issue[r].subject] = r]
  /\ Goto(r, "drop")
  /\ UNCHANGED <<token, otherKeys, userLock, confirm, history>>

(* The code is returned to the client (passwordChange) or mailed next.     *)
DropPrevious(r) ==
  LET previous == Code(issue[r].found) IN
  /\ issue[r].at = "drop"
  /\ token' = IF previous # issue[r].code THEN Deleted(previous) ELSE token
  /\ issue' = [issue EXCEPT ![r] =
         [@ EXCEPT !.at = IF Mails THEN "mail" ELSE "done",
                   !.found = Nobody,
                   !.result = IF Mails THEN "none" ELSE "delivered"]]
  /\ UNCHANGED <<active, otherKeys, userLock, confirm, history>>

Deliver(r) ==
  /\ issue[r].at = "mail"
  /\ issue' = [issue EXCEPT ![r] = [@ EXCEPT !.at = "clear", !.result = "delivered"]]
  /\ UNCHANGED <<codeKeys, otherKeys, userLock, confirm, history>>

ClearFailures(r) ==
  /\ issue[r].at = "clear"
  /\ attempts' = [attempts EXCEPT ![issue[r].subject] = 0]
  /\ Goto(r, "done")
  /\ UNCHANGED <<codeKeys, cooldown, lockout, userLock, confirm, history>>

(* Whether issuedCode is set when the request throws.                      *)
Issued(r) ==
  \/ issue[r].at \in {"mail", "clear"}
  \/ flow = "emailChange" /\ issue[r].at \in {"activate", "drop"}

(* The catch block: a Redis call or the delivery has failed.               *)
Throw(r) ==
  /\ issue[r].at \in {"previous", "save", "activate", "drop", "mail", "notice", "clear"}
  /\ Mails
  /\ issue' = [issue EXCEPT ![r] =
         [@ EXCEPT !.result = "failed", !.found = Nobody,
                   !.at = CASE ~Issued(r) -> "release"
                             [] Issued(r) /\ flow = "emailChange" -> "findActive"
                             [] Issued(r) /\ flow # "emailChange" -> "discard"]]
  /\ UNCHANGED <<codeKeys, otherKeys, userLock, confirm, history>>

(* Fault: the code of a failed delivery is kept.                           *)
DiscardNothing(r) ==
  /\ issue[r].at = "discard"
  /\ issue' = [issue EXCEPT ![r] = [@ EXCEPT !.at = "release", !.result = "cleaned"]]
  /\ UNCHANGED <<codeKeys, otherKeys, userLock, confirm, history>>

(* deleteRegistrationCode, deletePassResetCode and                         *)
(* deleteCurrentUserPasswordResetCode: three calls.                        *)
Discard(r) ==
  /\ issue[r].at = "discard"
  /\ token' = Deleted(issue[r].code)
  /\ Goto(r, "compare")
  /\ UNCHANGED <<active, otherKeys, userLock, confirm, history>>

Compare(r) ==
  /\ issue[r].at = "compare"
  /\ issue' = IF Code(active[issue[r].subject]) = issue[r].code
              THEN [issue EXCEPT ![r].at = "unset"]
              ELSE [issue EXCEPT ![r] =
                [@ EXCEPT !.at = "release", !.result = "cleaned"]]
  /\ UNCHANGED <<codeKeys, otherKeys, userLock, confirm, history>>

(* EmailChangeService.invalidateActiveCode: whatever code is active.       *)
FindActive(r) ==
  /\ issue[r].at = "findActive"
  /\ issue' = [issue EXCEPT ![r] = [@ EXCEPT !.at = "discardActive",
                                             !.found = active[issue[r].subject]]]
  /\ UNCHANGED <<codeKeys, otherKeys, userLock, confirm, history>>

DiscardActive(r) ==
  /\ issue[r].at = "discardActive"
  /\ token' = Deleted(Code(issue[r].found))
  /\ issue' = [issue EXCEPT ![r] = [@ EXCEPT !.at = "unset", !.found = Nobody]]
  /\ UNCHANGED <<active, otherKeys, userLock, confirm, history>>

Unset(r) ==
  /\ issue[r].at = "unset"
  /\ active' = [active EXCEPT ![issue[r].subject] = Nobody]
  /\ issue' = [issue EXCEPT ![r] = [@ EXCEPT !.at = "release", !.result = "cleaned"]]
  /\ UNCHANGED <<token, otherKeys, userLock, confirm, history>>

(* Each part of the clean-up ignores the failure of the one before.        *)
GiveUp(r) ==
  /\ issue[r].at \in {"discard", "compare", "findActive", "discardActive", "unset"}
  /\ issue' = [issue EXCEPT ![r] = [@ EXCEPT !.at = "release", !.found = Nobody]]
  /\ UNCHANGED <<codeKeys, otherKeys, userLock, confirm, history>>

(* releaseVerificationCodeRequest, whoever holds the reservation by now.   *)
Release(r) ==
  /\ issue[r].at = "release"
  /\ cooldown' = [cooldown EXCEPT ![issue[r].subject] = Nobody]
  /\ Goto(r, "done")
  /\ UNCHANGED <<codeKeys, attempts, lockout, userLock, confirm, history>>

(* The request is answered, or the process dies.                           *)
Stop(r) ==
  /\ issue[r].at \notin {"new", "done"}
  /\ issue' = [issue EXCEPT ![r] = [@ EXCEPT !.at = "done", !.found = Nobody]]
  /\ UNCHANGED <<codeKeys, otherKeys, userLock, confirm, history>>

-----------------------------------------------------------------------------
(* Confirming a code.                                                      *)

Proceed(p, at) == confirm' = [confirm EXCEPT ![p].at = at]

(* The handler returns or throws; its transaction has ended.               *)
Return(p) ==
  /\ confirm' = [confirm EXCEPT ![p] = Idle]
  /\ userLock' = [s \in Subjects |-> IF userLock[s] = p THEN Nobody ELSE userLock[s]]

BeginConfirm(p, s, c) ==
  /\ confirm[p] = Idle
  /\ LocksOut => ~lockout[s]
  /\ confirm' = [confirm EXCEPT ![p] = [Idle EXCEPT !.at = "attempts", !.subject = s,
                                                   !.code = c]]
  /\ UNCHANGED <<codeKeys, otherKeys, userLock, issue, history>>

(* Fault: assertVerificationAttemptsAvailable is not called.               *)
PassAttempts(p) ==
  /\ confirm[p].at = "attempts"
  /\ Proceed(p, IF flow = "registration" THEN "consume" ELSE "lookup")
  /\ UNCHANGED <<codeKeys, otherKeys, userLock, issue, history>>

CheckAttempts(p) ==
  /\ confirm[p].at = "attempts"
  /\ attempts[confirm[p].subject] < MaxAttempts
  /\ Proceed(p, IF flow = "registration" THEN "consume" ELSE "lookup")
  /\ UNCHANGED <<codeKeys, otherKeys, userLock, issue, history>>

(* A reset finds its account by the code, the others compare it.           *)
LookUp(p) ==
  LET i == token[confirm[p].code] IN
  /\ confirm[p].at = "lookup"
  /\ confirm' = [confirm EXCEPT ![p] =
         [@ EXCEPT !.found = i,
                   !.at = IF i # Nobody /\ (flow # "reset" => Owner(i) = confirm[p].subject)
                          THEN "lockUser" ELSE "count"]]
  /\ UNCHANGED <<codeKeys, otherKeys, userLock, issue, history>>

(* SELECT ... FOR UPDATE of the account, then the checks that come before  *)
(* the code is consumed; the checks that end the handler are in Fail.      *)
LockUser(p) ==
  LET u == Owner(confirm[p].found) IN
  /\ confirm[p].at = "lockUser"
  /\ userLock[u] = Nobody
  /\ userLock' = [userLock EXCEPT ![u] = p]
  /\ Proceed(p, IF u = confirm[p].subject THEN "consume" ELSE "count")
  /\ UNCHANGED <<codeKeys, otherKeys, issue, history>>

(* What the handler asks of the token that the script has returned: it is  *)
(* of the subject; in an email change, also for the address looked up      *)
(* before.  Another request than the one looked up may be for that address *)
(* or for another one.                                                     *)
Matches(p, i) == Owner(i) = confirm[p].subject

MayDiffer(p, i) ==
  \/ ~Matches(p, i)
  \/ flow = "emailChange" /\ i # confirm[p].found

(* Fault: the code is deleted, but the earlier look decides.               *)
ConsumeAsLookedUp(p) ==
  LET s == confirm[p].subject
      c == confirm[p].code
  IN
  /\ confirm[p].at = "consume"
  /\ token' = Deleted(c)
  /\ active' = [active EXCEPT ![s] = Nobody]
  /\ Proceed(p, "commit")
  /\ spent' = spent \cup {confirm[p].found}
  /\ UNCHANGED <<otherKeys, userLock, issue, before, reserved, late>>

Consume(p) ==
  LET s == confirm[p].subject
      c == confirm[p].code
  IN
  /\ confirm[p].at = "consume"
  /\ Accepts(s, c)
  /\ token' = Deleted(c)
  /\ active' = [active EXCEPT ![s] = Nobody]
  /\ \/ /\ Matches(p, token[c])
        /\ confirm' = [confirm EXCEPT ![p] =
               [@ EXCEPT !.at = "commit", !.found = token[c]]]
        /\ spent' = spent \cup {token[c]}
        /\ UNCHANGED userLock
     \/ /\ MayDiffer(p, token[c])
        /\ IF LocksOut THEN Proceed(p, "count") /\ UNCHANGED userLock ELSE Return(p)
        /\ UNCHANGED spent
  /\ UNCHANGED <<otherKeys, issue, before, reserved, late>>

RefuseCode(p) ==
  /\ confirm[p].at = "consume"
  /\ ~Accepts(confirm[p].subject, confirm[p].code)
  /\ IF LocksOut THEN Proceed(p, "count") /\ UNCHANGED userLock ELSE Return(p)
  /\ UNCHANGED <<codeKeys, otherKeys, issue, history>>

(* The change itself and its revocations: see Sessions.                    *)
Commit(p) ==
  /\ confirm[p].at = "commit"
  /\ Proceed(p, "clear")
  /\ userLock' = [s \in Subjects |-> IF userLock[s] = p THEN Nobody ELSE userLock[s]]
  /\ UNCHANGED <<codeKeys, otherKeys, issue, history>>

ClearAttempts(p) ==
  /\ confirm[p].at = "clear"
  /\ attempts' = [attempts EXCEPT ![confirm[p].subject] = 0]
  /\ IF LocksOut THEN Proceed(p, "unlock") /\ UNCHANGED userLock ELSE Return(p)
  /\ UNCHANGED <<codeKeys, cooldown, lockout, issue, history>>

Unlock(p) ==
  /\ confirm[p].at = "unlock"
  /\ lockout' = [lockout EXCEPT ![confirm[p].subject] = FALSE]
  /\ Return(p)
  /\ UNCHANGED <<codeKeys, attempts, cooldown, issue, history>>

(* Fault: the counter holds the attempts that are left.                    *)
CountDown(p) ==
  /\ confirm[p].at = "count"
  /\ attempts' = [attempts EXCEPT ![confirm[p].subject] = @ - 1]
  /\ IF LocksOut THEN Proceed(p, "remaining") /\ UNCHANGED userLock ELSE Return(p)
  /\ UNCHANGED <<codeKeys, cooldown, lockout, issue, history>>

(* rejectInvalidCode, or registerVerificationFailure alone.                *)
Count(p) ==
  /\ confirm[p].at = "count"
  /\ attempts' = [attempts EXCEPT ![confirm[p].subject] = @ + 1]
  /\ IF LocksOut THEN Proceed(p, "remaining") /\ UNCHANGED userLock ELSE Return(p)
  /\ UNCHANGED <<codeKeys, cooldown, lockout, issue, history>>

Remaining(p) ==
  /\ confirm[p].at = "remaining"
  /\ IF attempts[confirm[p].subject] < MaxAttempts
     THEN Return(p)
     ELSE Proceed(p, "findActive") /\ UNCHANGED userLock
  /\ UNCHANGED <<codeKeys, otherKeys, issue, history>>

Invalidate(p) ==
  LET s == confirm[p].subject IN
  /\ \/ /\ confirm[p].at = "findActive"
        /\ confirm' = [confirm EXCEPT ![p] =
               [@ EXCEPT !.at = "discardActive", !.found = active[s]]]
        /\ UNCHANGED codeKeys
     \/ /\ confirm[p].at = "discardActive"
        /\ token' = Deleted(Code(confirm[p].found))
        /\ confirm' = [confirm EXCEPT ![p] =
               [@ EXCEPT !.at = "unset", !.found = Nobody]]
        /\ UNCHANGED active
     \/ /\ confirm[p].at = "unset"
        /\ active' = [active EXCEPT ![s] = Nobody]
        /\ Proceed(p, "lockout")
        /\ UNCHANGED token
  /\ UNCHANGED <<otherKeys, userLock, issue, history>>

LockOut(p) ==
  /\ confirm[p].at = "lockout"
  /\ lockout' = [lockout EXCEPT ![confirm[p].subject] = TRUE]
  /\ Return(p)
  /\ UNCHANGED <<codeKeys, attempts, cooldown, issue, history>>

(* A check fails, a call throws, the process dies: the transaction rolls   *)
(* back, what Redis has done stays.                                        *)
Fail(p) ==
  /\ confirm[p].at # "idle"
  /\ Return(p)
  /\ UNCHANGED <<codeKeys, otherKeys, issue, history>>

(* EmailChangeService.getStatus clears a counter that no lockout guards.   *)
Status(p, s) ==
  /\ flow = "emailChange"
  /\ \/ /\ confirm[p] = Idle
        /\ ~lockout[s]
        /\ confirm' = [confirm EXCEPT ![p] = [Idle EXCEPT !.at = "statusAttempts",
                                                         !.subject = s]]
        /\ UNCHANGED attempts
     \/ /\ confirm[p].at = "statusAttempts" /\ confirm[p].subject = s
        /\ attempts[s] >= MaxAttempts
        /\ Proceed(p, "statusClear")
        /\ UNCHANGED attempts
     \/ /\ confirm[p].at = "statusClear" /\ confirm[p].subject = s
        /\ attempts' = [attempts EXCEPT ![s] = 0]
        /\ confirm' = [confirm EXCEPT ![p] = Idle]
  /\ UNCHANGED <<codeKeys, cooldown, lockout, userLock, issue, history>>

-----------------------------------------------------------------------------
(* Keys that expire.                                                       *)

InFlight(r) == issue[r].at # "done"

(* Between saving a token and mailing its code a request makes a few calls *)
(* to Redis, which take far less than the token's lifetime.                *)
Writing(r) == issue[r].at \in {"previous", "activate", "drop"}

ExpireToken(c) ==
  /\ token[c] # Nobody
  /\ ~Writing(token[c])
  /\ token' = Deleted(c)
  /\ late' = (late \/ InFlight(token[c]))
  /\ UNCHANGED <<active, otherKeys, userLock, issue, confirm, spent, before, reserved>>

(* The active key is written after the token, with the same EX.            *)
ExpireActive(s) ==
  /\ active[s] # Nobody
  /\ token[Code(active[s])] # active[s]
  /\ active' = [active EXCEPT ![s] = Nobody]
  /\ UNCHANGED <<token, otherKeys, userLock, issue, confirm, history>>

ExpireCooldown(s) ==
  /\ cooldown[s] # Nobody
  /\ cooldown' = [cooldown EXCEPT ![s] = Nobody]
  /\ reserved' = [reserved EXCEPT ![s] = {}]
  /\ late' = (late \/ InFlight(cooldown[s]))
  /\ UNCHANGED <<codeKeys, attempts, lockout, userLock, issue, confirm, spent, before>>

ExpireAttempts(s) ==
  /\ attempts[s] # 0
  /\ attempts' = [attempts EXCEPT ![s] = 0]
  /\ UNCHANGED <<codeKeys, cooldown, lockout, userLock, issue, confirm, history>>

ExpireLockout(s) ==
  /\ lockout[s]
  /\ lockout' = [lockout EXCEPT ![s] = FALSE]
  /\ UNCHANGED <<codeKeys, attempts, cooldown, userLock, issue, confirm, history>>

-----------------------------------------------------------------------------

Init ==
  /\ flow \in Flows
  /\ token = [c \in Codes |-> Nobody]
  /\ active = [s \in Subjects |-> Nobody]
  /\ attempts = [s \in Subjects |-> 0]
  /\ cooldown = [s \in Subjects |-> Nobody]
  /\ lockout = [s \in Subjects |-> FALSE]
  /\ userLock = [s \in Subjects |-> Nobody]
  /\ issue = [r \in Issues |-> [at |-> "new", subject |-> Nobody, code |-> Nobody,
                                found |-> Nobody, result |-> "none"]]
  /\ confirm = [p \in Confirms |-> Idle]
  /\ spent = {}
  /\ before = [r \in Issues |-> {}]
  /\ reserved = [s \in Subjects |-> {}]
  /\ late = FALSE

IssueStep(r) ==
  \/ \E s \in Subjects : BeginIssue(r, s)
  \/ Reserve(r)
  \/ SendNotice(r)
  \/ ReadPrevious(r)
  \/ SaveToken(r)
  \/ Activate(r)
  \/ DropPrevious(r)
  \/ Deliver(r)
  \/ ClearFailures(r)
  \/ Throw(r)
  \/ Discard(r)
  \/ Compare(r)
  \/ FindActive(r)
  \/ DiscardActive(r)
  \/ Unset(r)
  \/ GiveUp(r)
  \/ Release(r)
  \/ Stop(r)

ConfirmStep(p) ==
  \/ \E s \in Subjects, c \in Codes : BeginConfirm(p, s, c)
  \/ CheckAttempts(p)
  \/ LookUp(p)
  \/ LockUser(p)
  \/ Consume(p)
  \/ RefuseCode(p)
  \/ Commit(p)
  \/ ClearAttempts(p)
  \/ Unlock(p)
  \/ Count(p)
  \/ Remaining(p)
  \/ Invalidate(p)
  \/ LockOut(p)
  \/ Fail(p)
  \/ \E s \in Subjects : Status(p, s)

Next ==
  /\ \/ \E r \in Issues : IssueStep(r)
     \/ \E p \in Confirms : ConfirmStep(p)
     \/ \E c \in Codes : ExpireToken(c)
     \/ \E s \in Subjects : \/ ExpireActive(s)
                            \/ ExpireCooldown(s)
                            \/ ExpireAttempts(s)
                            \/ ExpireLockout(s)
  /\ UNCHANGED flow

Spec == Init /\ [][Next]_vars

-----------------------------------------------------------------------------
(* Properties.                                                             *)

(* Every variable has its type.                                            *)
TypeOK ==
  /\ flow \in Flows
  /\ token \in [Codes -> Issues \cup {Nobody}]
  /\ active \in [Subjects -> Issues \cup {Nobody}]
  /\ attempts \in [Subjects -> Nat]
  /\ cooldown \in [Subjects -> Issues \cup {Nobody}]
  /\ lockout \in [Subjects -> BOOLEAN]
  /\ userLock \in [Subjects -> Confirms \cup {Nobody}]
  /\ issue \in [Issues -> Issue]
  /\ confirm \in [Confirms -> Confirm]
  /\ spent \subseteq Issues
  /\ before \in [Issues -> SUBSET Issues]
  /\ reserved \in [Subjects -> SUBSET Issues]
  /\ late \in BOOLEAN

(* What holds of the requests besides: why the properties below do.        *)

(* The reservation is the request's, unless it has expired.                *)
Reserving(r) == issue[r].at \notin {"new", "reserve", "done"}

(* The code is not drawn yet.                                              *)
Undrawn(r) ==
  \/ issue[r].at \in {"new", "reserve", "save"}
  \/ issue[r].at = "previous" /\ ~SavesFirst

CleanUps == {"discard", "compare", "findActive", "discardActive", "unset"}

(* The code of r is active, or was, on the way to its delivery.            *)
Passed(r) == issue[r].at \in {"drop", "mail", "clear"} \/ issue[r].result = "delivered"

(* Where a request stands tells what it has drawn and how it ended.        *)
RequestsAreInOrder ==
  \A r \in Issues :
    /\ issue[r].at = "new" <=> issue[r].subject = Nobody
    /\ Undrawn(r) => issue[r].code = Nobody
    /\ issue[r].at \in {"activate", "drop", "mail", "clear"} \cup CleanUps
         => issue[r].code # Nobody
    /\ issue[r].at = "previous" /\ SavesFirst => issue[r].code # Nobody
    /\ issue[r].result = "delivered" => issue[r].at \in {"clear", "done"}
    /\ issue[r].result = "failed" => issue[r].at \in CleanUps \cup {"release", "done"}
    /\ issue[r].result = "cleaned"
         => issue[r].at \in {"release", "done"} /\ issue[r].code # Nobody
    /\ issue[r].at \in CleanUps \cup {"release"} => issue[r].result # "none"
    /\ ~Mails => issue[r].at \in {"new", "save", "previous", "activate", "drop", "done"}
    /\ issue[r].at \in {"findActive", "discardActive"} => flow = "emailChange"
    /\ issue[r].at \in {"discard", "compare"} => flow # "emailChange"

ConfirmsAreInOrder ==
  \A p \in Confirms :
    /\ confirm[p].at # "idle" => confirm[p].subject # Nobody
    /\ confirm[p].at \in {"attempts", "lookup", "lockUser", "consume"}
         => confirm[p].code # Nobody

(* A token is that of the request which drew the code, is not spent, and   *)
(* is gone when the request has discarded it.                              *)
TokensAreTheirs ==
  \A c \in Codes : token[c] # Nobody =>
    /\ issue[token[c]].code = c
    /\ token[c] \notin spent
    /\ flow # "emailChange" => /\ issue[token[c]].at \notin {"compare", "unset"}
                               /\ issue[token[c]].result # "cleaned"

(* The active request is of the subject, has drawn a code and not failed;  *)
(* a request that began when it was over has not passed.                   *)
ActiveIsCurrent ==
  \A s \in Subjects : active[s] # Nobody =>
    /\ issue[active[s]].subject = s
    /\ issue[active[s]].code # Nobody
    /\ issue[active[s]].at \notin {"previous", "activate"}
    /\ issue[active[s]].result # "cleaned"
    /\ \A r \in Issues : active[s] \in before[r] => ~Passed(r)

HistoryIsKept ==
  /\ \A i \in spent : issue[i].code # Nobody
  /\ \A r \in Issues : \A i \in before[r] :
        /\ issue[i].at = "done" /\ issue[r].at # "new"
        /\ issue[i].subject = issue[r].subject
        /\ i # r
        /\ \A c \in Codes : token[c] = i => issue[r].code # c
  /\ \A s \in Subjects : \A i \in reserved[s] :
        Mails /\ issue[i].subject = s /\ issue[i].at \notin {"new", "reserve"}

(* Whoever is past the reservation has it, and so has the delivered one.   *)
WorkIsReserved == \A r \in Issues : Reserving(r) => cooldown[issue[r].subject] = r

DeliveryIsReserved ==
  \A s \in Subjects : \A i \in reserved[s] :
    issue[i].result = "delivered" => cooldown[s] = i

(* What a clean-up unsets is the request's own.                            *)
UnsetIsItsOwn ==
  \A r \in Issues : issue[r].at = "unset" /\ flow # "emailChange" =>
    Code(active[issue[r].subject]) \in {Nobody, issue[r].code}

(* A code under which another request of the subject has a token is that   *)
(* of a request that is over; the active code is not that of a token which *)
(* was superseded or cleaned up.                                           *)
DrawnAgainIsOver ==
  \A c \in Codes : token[c] # Nobody => \A r \in Issues \ {token[c]} :
    issue[r].code = c /\ issue[r].subject = Owner(token[c]) => issue[r].at = "done"

SupersededIsGone ==
  \A c \in Codes : token[c] # Nobody => \A r \in Issues :
    token[c] \in before[r] /\ Passed(r) => Code(active[issue[r].subject]) # c

CleanedIsGone ==
  \A c \in Codes : token[c] # Nobody /\ issue[token[c]].result = "cleaned" =>
    Code(active[Owner(token[c])]) # c

(* As long as no key expires early, the requests of a subject take turns.  *)
RequestsTakeTurns ==
  ~late /\ Mails => /\ WorkIsReserved /\ DeliveryIsReserved
                    /\ UnsetIsItsOwn
                    /\ DrawnAgainIsOver /\ SupersededIsGone /\ CleanedIsGone

(* Confirmations that may still count a failure.                           *)
Checked(s) ==
  {p \in Confirms : /\ confirm[p].subject = s
                    /\ confirm[p].at \in {"lookup", "lockUser", "consume", "count"}}

AttemptsAreReserved ==
  \A s \in Subjects :
    attempts[s] + Cardinality(Checked(s)) <= MaxAttempts - 1 + Cardinality(Confirms)

(* What the five flows keep in every state, between any two calls of       *)
(* Redis: the inductive invariant of the properties below.                 *)
CodesInv ==
  /\ RequestsAreInOrder
  /\ ConfirmsAreInOrder
  /\ TokensAreTheirs
  /\ ActiveIsCurrent
  /\ HistoryIsKept
  /\ RequestsTakeTurns
  /\ AttemptsAreReserved

(* A confirmation that goes on to commit.                                  *)
Accepted(p) == confirm[p].at = "consume" /\ confirm'[p].at = "commit"

(* A code is accepted at most once, and only for the subject it was issued *)
(* to, whatever confirmations of it overlap, though the code itself may be *)
(* drawn again (the Lua script, and the checks around it).                 *)
CodeIsSpentOnce ==
  [][\A p \in Confirms :
       Accepted(p) => /\ confirm'[p].found \notin spent
                      /\ Owner(confirm'[p].found) = confirm[p].subject]_vars

(* The request of a code was over before a delivered one began.            *)
Superseded(i) == \E r \in Issues : i \in before[r] /\ issue[r].result = "delivered"

(* The code that p confirms is one that the request i drew for its subject. *)
Drawn(i, p) ==
  issue[i].code = confirm[p].code /\ issue[i].subject = confirm[p].subject

(* README.md, "Verification codes": "only the latest issued code can be    *)
(* consumed": a code whose request was over before a delivered one began   *)
(* is never accepted after that delivery, also when requests overlapped,   *)
(* failed half way or left its token behind.  What is sent and compared is *)
(* digits: when two requests have drawn the same, those of the later one   *)
(* may find the token of the earlier one, but only if requests overlap.    *)
LatestIsSpent ==
  [][\A p \in Confirms : Accepted(p) =>
       /\ \E i \in Issues : Drawn(i, p) /\ ~Superseded(i)
       /\ Mails /\ ~late => ~Superseded(confirm'[p].found)]_vars

(* A code whose delivery failed is never accepted once its request has     *)
(* cleaned up, whatever other requests did to the active key meanwhile.    *)
(* Again another request may have drawn the same code.  Its token is gone, *)
(* but that of an email change may have stayed, with the address in it; it *)
(* is not found by the other code as long as requests do not overlap.      *)
FailedIsNeverSpent ==
  [][\A p \in Confirms : Accepted(p) =>
       /\ \E i \in Issues : Drawn(i, p) /\ issue[i].result # "cleaned"
       /\ ~(flow = "emailChange" /\ late)
            => issue[confirm'[p].found].result # "cleaned"]_vars

(* The counter never exceeds the limit by more than the confirmations that *)
(* were in flight together, though it is checked and incremented in two    *)
(* separate calls.                                                         *)
AttemptsAreLimited ==
  \A s \in Subjects : attempts[s] <= MaxAttempts - 1 + Cardinality(Confirms)

(* A step of a failed request that deletes its token or its active key.    *)
CleanUp(r) ==
  /\ flow # "emailChange"
  /\ issue[r].at \in {"discard", "unset"}
  /\ issue'[r].at # issue[r].at

(* README.md, "Verification codes": "Failed mail delivery releases the     *)
(* request reservation and invalidates the newly issued challenge where    *)
(* applicable": its own challenge, so the clean-up of a failed request     *)
(* takes no other live code away.  It holds as long as requests are over   *)
(* before their keys expire, and not of an email change, which invalidates *)
(* the code that is active by then, its own or not.  Nor does it hold of   *)
(* the same six digits: a request that replaces a code that has expired    *)
(* and been drawn again deletes the new one, and the third to draw it      *)
(* loses it to the clean-up of the second.                                 *)
FailureSparesOthers ==
  [][\A r, i \in Issues :
       CleanUp(r) /\ Live(i) /\ Code(i) # Code(r) /\ ~late => Live(i)']_vars

(* A request that reserves a subject follows no request whose code was     *)
(* delivered under a reservation that has not expired.                     *)
ReservesInTime(r, s) ==
  cooldown'[s] = r /\ cooldown[s] # r
    => \A i \in reserved[s] : issue[i].result # "delivered"

(* README.md, "Verification codes": "`VERIFICATION_CODE_RESEND_COOLDOWN`   *)
(* limits code re-issuance".  It does as long as requests are over before  *)
(* their keys expire: a failed request releases no reservation but its     *)
(* own.  Once one is late, releaseVerificationCodeRequest deletes whatever *)
(* reservation is there, that of a later, delivered request included.      *)
CooldownHolds ==
  [][\A r \in Issues, s \in Subjects : ~late => ReservesInTime(r, s)]_vars

=============================================================================
