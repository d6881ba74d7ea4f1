------------------------------ MODULE Accounts ------------------------------
(***************************************************************************)
(* Requests that create, change, block and delete accounts, from the first *)
(* query to the answer: RegistrationService, PasswordResetService,         *)
(* PasswordChangeService, EmailChangeService, UsersService, AdminService   *)
(* and the sign-in of AuthController, with the rows of "user" in           *)
(* PostgreSQL, the codes in Redis and what happens between the two.        *)
(*                                                                         *)
(* All requests are in flight at the beginning, past their guards.  Each   *)
(* follows a script of steps.  A write that nobody can see or wait for     *)
(* before the commit is a part of the commit; an INSERT or UPDATE that     *)
(* claims a unique value is a step of its own.                             *)
(***************************************************************************)
EXTENDS Integers, Sequences

CONSTANTS
    Requests,   \* requests in flight, each is one operation
    Users,      \* ids of accounts, those of registrations to come included
    Admin,      \* the administrator
    Emails, Nicknames, Passwords,
    FirstRows,  \* id -> its row when the requests are made
    Asked,      \* request -> the operations it may be, with their inputs
    Unborn,     \* the row of an id that is not used yet
    Gone,       \* the row of a deleted account
    Nobody      \* the holder of a free row; an input the operation has not

RowType == [email: Emails, nickname: Nicknames, password: Passwords,
            blocked: BOOLEAN]

(* Fault: the failures are cleared without a catch, as after a reset.      *)
ClearingUpdate == <<"lookUp", "lock", "consume", "commit", "clear">>

(* Fault: the code is consumed before the row is looked at.                *)
HastyUpdate == <<"lookUp", "consume", "lock", "commit">>

(* confirm and confirmReset of PasswordChangeService.                      *)
UpdatePassword == <<"lookUp", "lock", "consume", "commit">>

(* The steps of each operation, in the order of the calls of its handler;  *)
(* that of a registration ends with AuthService.login.                     *)
Script ==
    [register   |-> <<"consume", "draw", "claim", "commit", "clear",
                      "revoke", "session">>,
     reset      |-> <<"lookUp", "lock", "consume", "commit", "clear",
                      "compare", "session">>,
     change     |-> UpdatePassword,
     email      |-> <<"lookUp", "lock", "taken", "consume", "claim",
                      "commit">>,
     profile    |-> <<"claim", "commit">>,
     deleteOwn  |-> <<"compare", "delete", "commit">>,
     block      |-> <<"administrator", "lock", "commit", "mail">>,
     deleteUser |-> <<"administrator", "lock", "commit", "mail">>,
     unblock    |-> <<"verify", "lock", "commit", "mail">>,
     signIn     |-> <<"compare", "session">>]

Kinds == DOMAIN Script

(* Those that are confirmed with a code.                                   *)
Confirmations == {"register", "reset", "change", "email"}

(* An operation on an account: for a sign-in, a registration and a reset   *)
(* the address it was asked with; the new address, nickname or password of *)
(* a change, the password given to prove oneself of the others.            *)
Operation ==
    [kind: Kinds, user: Users \cup {Nobody}, email: Emails \cup {Nobody},
     nickname: Nicknames \cup {Nobody}, password: Passwords \cup {Nobody}]

(* What the guards and the DTOs have let through.                          *)
WellAsked(op) ==
    /\ op.kind \notin {"register", "signIn"} => op.user \in Users
    /\ op.kind \in {"register", "reset", "email", "signIn"} => op.email \in Emails
    /\ op.kind = "profile" => op.nickname \in Nicknames
    /\ op.kind \notin {"email", "profile"} => op.password \in Passwords

(* The rows there are at first obey the unique constraints, and an         *)
(* operation on an account is asked by or for one that is there.           *)
ASSUME AccountsAssumption ==
    /\ Admin \in Users /\ FirstRows[Admin] # Unborn
    /\ {Unborn, Gone} \cap RowType = {} /\ Unborn # Gone
    /\ Nobody \notin
           UNION {Requests, Users, Emails, Nicknames, Passwords}
    /\ FirstRows \in [Users -> RowType \cup {Unborn}]
    /\ \A u, v \in Users :
           u # v /\ FirstRows[u] # Unborn /\ FirstRows[v] # Unborn =>
               /\ FirstRows[u].email # FirstRows[v].email
               /\ FirstRows[u].nickname # FirstRows[v].nickname
    /\ Asked \in [Requests -> SUBSET {op \in Operation : WellAsked(op)}]
    /\ \A r \in Requests : \A op \in Asked[r] :
           op.user # Nobody => FirstRows[op.user] # Unborn

VARIABLES
    rows,      \* table "user", what is committed
    holder,    \* id -> the request whose transaction has locked its row
    req,       \* request -> its operation, the steps left and its answer
    sessions,  \* sessions that are not revoked
    codes      \* live verification codes

vars == <<rows, holder, req, sessions, codes>>
-----------------------------------------------------------------------------
(* Rows, codes and sessions.                                               *)

Exists(u) == rows[u] \notin {Unborn, Gone}

(* The code of an operation: kept for an address by a registration, for an *)
(* account by the others.                                                  *)
CodeOf(op) ==
    [kind |-> op.kind,
     about |-> IF op.kind = "register" THEN op.email ELSE op.user]

(* A session of u opened with an address and a password.  Its id is the    *)
(* request that opened it; the session that asks for changes of u was      *)
(* there before and is named like u.                                       *)
Session(id, u, email, password) ==
    [id |-> id, user |-> u, email |-> email, password |-> password,
     late |-> <<email, password>> # <<rows[u].email, rows[u].password>>]

(* What its session was opened with is no longer right.                    *)
Outdated(s) ==
    <<s.email, s.password>> # <<rows[s.user].email, rows[s.user].password>>

Init ==
    /\ rows = FirstRows
    /\ holder = [u \in Users |-> Nobody]
    /\ \E op \in [Requests -> UNION {Asked[r] : r \in Requests}] :
          /\ \A r \in Requests : op[r] \in Asked[r]
          /\ req = [r \in Requests |->
                [op |-> op[r], todo |-> Script[op[r].kind],
                 consumed |-> FALSE, done |-> FALSE, answer |-> "none"]]
          /\ codes = {CodeOf(op[r]) : r \in
                       {q \in Requests : op[q].kind \in Confirmations}}
    /\ sessions = {Session(u, u, rows[u].email, rows[u].password) :
                      u \in {v \in Users : Exists(v)}}
-----------------------------------------------------------------------------
(* Steps of a request.                                                     *)

Op(r) == req[r].op

At(r, step) == req[r].todo # <<>> /\ Head(req[r].todo) = step

(* r goes on with the next step, or is answered with success.              *)
Proceed(r, operation) ==
    req' = [req EXCEPT
        ![r] = [req[r] EXCEPT !.op = operation,
                              !.todo = Tail(@),
                              !.answer = IF Tail(req[r].todo) = <<>> THEN "ok" ELSE @]]

(* Fault: the transaction is left open.                                    *)
EndWithoutRollback(r, answer) ==
    /\ req' = [req EXCEPT ![r] = [req[r] EXCEPT !.todo = <<>>, !.answer = answer]]
    /\ UNCHANGED <<rows, holder, sessions, codes>>

(* r ends with an answer; a transaction that is open is rolled back.       *)
End(r, answer) ==
    /\ req' = [req EXCEPT ![r] = [req[r] EXCEPT !.todo = <<>>, !.answer = answer]]
    /\ holder' = [u \in Users |-> IF holder[u] = r THEN Nobody ELSE holder[u]]
    /\ UNCHANGED <<rows, sessions, codes>>

Lock(r, u) == holder' = [holder EXCEPT ![u] = r]

(* A confirmation reads its code before it opens a transaction.            *)
LookUp(r) ==
    /\ At(r, "lookUp")
    /\ \/ /\ CodeOf(Op(r)) \in codes
          /\ Proceed(r, Op(r))
          /\ UNCHANGED <<rows, holder, sessions, codes>>
       \/ /\ CodeOf(Op(r)) \notin codes
          /\ End(r, "invalid")

(* Fault: the row is read without a lock.                                  *)
VerifyUnlocked(r) ==
    /\ At(r, "administrator")
    /\ \/ /\ rows[Admin].password = Op(r).password
          /\ Proceed(r, Op(r))
          /\ UNCHANGED <<rows, holder, sessions, codes>>
       \/ /\ rows[Admin].password # Op(r).password
          /\ End(r, "refused")

(* The check of the administrator's password, with the row locked.         *)
VerifyAdministrator(r) ==
    /\ At(r, "administrator")
    /\ holder[Admin] = Nobody
    /\ \/ /\ rows[Admin].password = Op(r).password
          /\ Lock(r, Admin)
          /\ Proceed(r, Op(r))
          /\ UNCHANGED <<rows, sessions, codes>>
       \/ /\ rows[Admin].password # Op(r).password
          /\ End(r, "refused")

(* The controller of unblockUser checks it before the transaction.         *)
VerifyOutside(r) ==
    /\ At(r, "verify")
    /\ \/ /\ rows[Admin].password = Op(r).password
          /\ Proceed(r, Op(r))
          /\ UNCHANGED <<rows, holder, sessions, codes>>
       \/ /\ rows[Admin].password # Op(r).password
          /\ End(r, "refused")

(* What a transaction says of the row it has locked.                       *)
Objection(op) ==
    LET row == rows[op.user]
    IN  CASE op.kind = "reset" /\ (~Exists(op.user) \/ row.email # op.email)
                 -> "invalid"
          [] op.kind # "reset" /\ ~Exists(op.user) -> "refused"
          [] op.kind = "change" /\ row.password = op.password -> "refused"
          [] op.kind = "email" /\ (row.blocked \/ row.email = op.email)
                 -> "refused"
          [] op.kind \in {"block", "deleteUser"} /\ op.user = Admin
                 -> "refused"
          [] op.kind = "block" /\ row.blocked -> "refused"
          [] op.kind = "unblock" /\ ~row.blocked -> "refused"
          [] OTHER -> "none"

(* SELECT ... FOR UPDATE of the account, and the checks that follow.       *)
LockAccount(r) ==
    /\ At(r, "lock")
    /\ holder[Op(r).user] \in {Nobody, r}
    /\ LET objection == Objection(Op(r))
       IN  \/ /\ objection = "none"
              /\ Lock(r, Op(r).user)
              /\ Proceed(r, Op(r))
              /\ UNCHANGED <<rows, sessions, codes>>
           \/ /\ objection # "none"
              /\ End(r, objection)

(* DELETE of one's own account; it is all the same whether there is a row. *)
Delete(r) ==
    /\ At(r, "delete")
    /\ holder[Op(r).user] = Nobody
    /\ Lock(r, Op(r).user)
    /\ Proceed(r, Op(r))
    /\ UNCHANGED <<rows, sessions, codes>>

(* The new address is looked for, without a lock on it.                    *)
CheckTaken(r) ==
    /\ At(r, "taken")
    /\ \/ /\ \A u \in Users : Exists(u) => rows[u].email # Op(r).email
          /\ Proceed(r, Op(r))
          /\ UNCHANGED <<rows, holder, sessions, codes>>
       \/ /\ \E u \in Users : Exists(u) /\ rows[u].email = Op(r).email
          /\ End(r, "refused")

(* The code is consumed in Redis, once, if it is still there.              *)
Consume(r) ==
    /\ At(r, "consume")
    /\ \/ /\ CodeOf(Op(r)) \in codes
          /\ codes' = codes \ {CodeOf(Op(r))}
          /\ req' = [req EXCEPT ![r] = [req[r] EXCEPT !.todo = Tail(@), !.consumed = TRUE]]
          /\ UNCHANGED <<rows, holder, sessions>>
       \/ /\ CodeOf(Op(r)) \notin codes
          /\ End(r, "invalid")

(* Redis consumes the code and the reply is lost.                          *)
LoseReply(r) ==
    /\ At(r, "consume") /\ CodeOf(Op(r)) \in codes
    /\ codes' = codes \ {CodeOf(Op(r))}
    /\ req' = [req EXCEPT ![r] = [req[r] EXCEPT !.todo = <<>>, !.answer = "error",
                                                !.consumed = TRUE]]
    /\ holder' = [u \in Users |-> IF holder[u] = r THEN Nobody ELSE holder[u]]
    /\ UNCHANGED <<rows, sessions>>

(* A nickname that nobody has is drawn; or all of 100 draws had an owner.  *)
Draw(r) ==
    /\ At(r, "draw")
    /\ LET used == {rows[u].nickname : u \in {v \in Users : Exists(v)}}
       IN  \/ /\ \E n \in Nicknames \ used :
                    Proceed(r, [Op(r) EXCEPT !.nickname = n])
              /\ UNCHANGED <<rows, holder, sessions, codes>>
           \/ /\ used # {}
              /\ End(r, "error")

(* The row that an operation leaves behind.                                *)
NewRow(op) ==
    CASE op.kind = "register" ->
             [email |-> op.email, nickname |-> op.nickname,
              password |-> op.password, blocked |-> FALSE]
      [] op.kind \in {"reset", "change"} ->
             [rows[op.user] EXCEPT !.password = op.password]
      [] op.kind = "email" -> [rows[op.user] EXCEPT !.email = op.email]
      [] op.kind = "profile" -> [rows[op.user] EXCEPT !.nickname = op.nickname]
      [] op.kind = "block" -> [rows[op.user] EXCEPT !.blocked = TRUE]
      [] op.kind = "unblock" -> [rows[op.user] EXCEPT !.blocked = FALSE]
      [] op.kind \in {"deleteOwn", "deleteUser"} -> Gone

(* Fault: a schema without UQ_user_nickname.                               *)
ClashOfEmails(row, other) == row.email = other.email

(* Two rows that the unique constraints do not allow together.             *)
Clash(row, other) ==
    row.email = other.email \/ row.nickname = other.nickname

(* Others have claimed a value of the row, or given up one of theirs, and  *)
(* have not committed: the constraint makes a statement wait for them.     *)
Undecided(r, row) ==
    \E q \in Requests \ {r} :
        /\ At(q, "commit") /\ Op(q).kind \in {"register", "email", "profile"}
        /\ \/ Clash(NewRow(Op(q)), row)
           \/ Exists(Op(q).user) /\ Clash(rows[Op(q).user], row)

(* The ids that are left bound the registrations that get so far.          *)
FreeIds == {u \in Users : rows[u] = Unborn /\ holder[u] = Nobody}

NextId == CHOOSE u \in FreeIds : TRUE

(* The row of a profile is not there.  UsersService rolls back, throws not *)
(* found, and rolls back again on its way out, which is an error that is   *)
(* answered instead.                                                       *)
RollBackTwice(r) ==
    /\ At(r, "claim") /\ Op(r).kind = "profile"
    /\ ~Exists(Op(r).user) /\ holder[Op(r).user] = Nobody
    /\ End(r, "error")

(* INSERT or UPDATE of a row with a unique value.                          *)
Claim(r) ==
    LET u == IF Op(r).kind = "register" THEN NextId ELSE Op(r).user
        op == [Op(r) EXCEPT !.user = u]
        rivals == {v \in Users \ {u} : Exists(v) /\ Clash(rows[v], NewRow(op))}
    IN
    /\ At(r, "claim")
    /\ Op(r).kind = "register" => FreeIds # {}
    /\ holder[u] \in {Nobody, r}
    /\ Op(r).kind = "profile" => Exists(u)
    /\ ~Undecided(r, NewRow(op))
    /\ \/ /\ rivals = {}
          /\ Lock(r, u)
          /\ Proceed(r, op)
          /\ UNCHANGED <<rows, sessions, codes>>
       \/ /\ rivals # {}
          /\ End(r, IF Op(r).kind = "register" THEN "error" ELSE "refused")

(* Fault: a change of address revokes nothing.                             *)
SparedByMore(op) ==
    CASE op.kind \in {"register", "profile", "unblock", "email"} -> sessions
      [] op.kind = "change" -> {s \in sessions : s.id = op.user}
      [] OTHER -> {}

(* The sessions of its account that an operation spares.                   *)
Spared(op) ==
    CASE op.kind \in {"register", "profile", "unblock"} -> sessions
      [] op.kind \in {"change", "email"} -> {s \in sessions : s.id = op.user}
      [] OTHER -> {}

(* The session that asked has shown that it knows of the change.           *)
Renewed(s, op) ==
    IF s.id = op.user /\ op.kind \in {"change", "email"}
    THEN [s EXCEPT !.email = NewRow(op).email,
                   !.password = NewRow(op).password]
    ELSE s

(* Revocations are in the transaction of the change they belong to, and a  *)
(* deleted account takes its sessions along.                               *)
Commit(r) ==
    LET op == Op(r)
        others == {s \in sessions : s.user # op.user}
        own == {Renewed(s, op) : s \in Spared(op) \ others}
    IN
    /\ At(r, "commit")
    /\ rows' = [rows EXCEPT ![op.user] = NewRow(op)]
    /\ sessions' = others \cup own
    /\ holder' = [u \in Users |-> IF holder[u] = r THEN Nobody ELSE holder[u]]
    /\ req' = [req EXCEPT
           ![r] = [req[r] EXCEPT !.todo = Tail(@),
                                 !.done = TRUE,
                                 !.answer = IF Tail(req[r].todo) = <<>> THEN "ok" ELSE @]]
    /\ UNCHANGED codes

(* Redis forgets the failures; mail is sent.                               *)
Notify(r) ==
    /\ At(r, "clear") \/ At(r, "mail")
    /\ Proceed(r, Op(r))
    /\ UNCHANGED <<rows, holder, sessions, codes>>

(* The password is compared with the row as it is committed, without a     *)
(* lock: of the account that has the address, or of one's own, unless that *)
(* is the administrator's.                                                 *)
Compare(r) ==
    LET op == Op(r)
        found == {u \in Users : Exists(u) /\ IF op.kind = "deleteOwn"
                                             THEN u = op.user
                                             ELSE rows[u].email = op.email}
        right == {u \in found : /\ rows[u].password = op.password
                                /\ IF op.kind = "deleteOwn" THEN u # Admin
                                                            ELSE ~rows[u].blocked}
    IN
    /\ At(r, "compare")
    /\ \/ /\ \E u \in right : Proceed(r, [op EXCEPT !.user = u])
          /\ UNCHANGED <<rows, holder, sessions, codes>>
       \/ /\ right = {}
          /\ End(r, "refused")

(* A registration signs in with login, which revokes all sessions first.   *)
RevokeAll(r) ==
    /\ At(r, "revoke")
    /\ sessions' = {s \in sessions : s.user # Op(r).user}
    /\ Proceed(r, Op(r))
    /\ UNCHANGED <<rows, holder, codes>>

(* createSession, a transaction of its own, without a look at the password *)
(* or at is_blocked.                                                       *)
OpenSession(r) ==
    LET op == Op(r)
    IN
    /\ At(r, "session")
    /\ holder[op.user] = Nobody
    /\ \/ /\ Exists(op.user)
          /\ sessions' =
                 sessions \cup {Session(r, op.user, op.email, op.password)}
          /\ req' = [req EXCEPT ![r] = [req[r] EXCEPT !.todo = <<>>, !.answer = "ok",
                                                      !.done = TRUE]]
          /\ UNCHANGED <<rows, holder, codes>>
       \/ /\ ~Exists(op.user)
          /\ End(r, "error")

(* A call of PostgreSQL, Redis or the mail server fails.  A sign-in takes  *)
(* the failure of its query for a wrong password.                          *)
Fail(r) ==
    /\ req[r].todo # <<>>
    /\ End(r, IF At(r, "compare") /\ Op(r).kind # "deleteOwn" THEN "refused"
              ELSE "error")

Next ==
    \E r \in Requests :
        \/ LookUp(r) \/ VerifyAdministrator(r) \/ VerifyOutside(r)
        \/ LockAccount(r) \/ Delete(r) \/ CheckTaken(r)
        \/ Consume(r) \/ LoseReply(r) \/ Draw(r)
        \/ RollBackTwice(r) \/ Claim(r) \/ Commit(r)
        \/ Notify(r) \/ Compare(r) \/ RevokeAll(r) \/ OpenSession(r) \/ Fail(r)

Spec == Init /\ [][Next]_vars
-----------------------------------------------------------------------------
Steps == {"lookUp", "administrator", "verify", "lock", "taken", "consume", "draw",
          "claim", "delete", "commit", "clear", "compare", "revoke", "session", "mail"}

RequestType ==
    [op: Operation, todo: Seq(Steps), consumed: BOOLEAN, done: BOOLEAN,
     answer: {"none", "ok", "refused", "invalid", "error"}]

SessionType ==
    [id: Requests \cup Users, user: Users, email: Emails, password: Passwords,
     late: BOOLEAN]

(* Types; a row is only locked by a transaction that is open, on that row  *)
(* or on behalf of the administrator; sessions go with their account.      *)
TypeOK ==
    /\ rows \in [Users -> RowType \cup {Unborn, Gone}]
    /\ holder \in [Users -> Requests \cup {Nobody}]
    /\ req \in [Requests -> RequestType]
    /\ codes \subseteq [kind: Confirmations, about: Emails \cup Users]
    /\ \A u \in Users :
          \/ holder[u] = Nobody
          \/ /\ req[holder[u]].todo # <<>>
             /\ ~req[holder[u]].done
             /\ u \in {Op(holder[u]).user, Admin}
    /\ \A r \in Requests :
          /\ WellAsked(Op(r))
          /\ \E i \in 0..Len(Script[Op(r).kind]) :
                 req[r].todo = SubSeq(Script[Op(r).kind], i + 1,
                                      Len(Script[Op(r).kind]))
          /\ req[r].answer = "none" <=> req[r].todo # <<>>
    /\ sessions \subseteq SessionType
    /\ \A s \in sessions : Exists(s.user)

(* What holds of the requests besides: why the properties below do.        *)

Now(r) == IF req[r].todo = <<>> THEN "end" ELSE Head(req[r].todo)

(* The change is committed behind r, or its session opened.                *)
Over(r) ==
    \/ Now(r) \in {"clear", "revoke", "mail"}
    \/ Now(r) \in {"compare", "session"} /\ Op(r).kind \in {"register", "reset"}

(* Where a request stands tells what it has done, and found out.           *)
ProgressIsTold ==
    \A r \in Requests :
        /\ Now(r) # "end" => (req[r].done <=> Over(r))
        /\ req[r].consumed =>
               /\ Op(r).kind \in Confirmations
               /\ Now(r) \notin {"lookUp", "lock", "taken", "consume"}
        /\ Op(r).kind = "register" /\ Now(r) \in {"claim", "commit"} =>
               Op(r).nickname \in Nicknames
        /\ Op(r).kind = "register" /\ (Now(r) = "commit" \/ Over(r)) => Op(r).user \in Users
        /\ Op(r).kind = "signIn" /\ Now(r) = "session" => Op(r).user \in Users

(* r has locked and checked the row that it changes.                       *)
HasChecked(r) ==
    \/ Now(r) = "commit"
    \/ Now(r) \in {"taken", "consume", "claim"} /\ Op(r).kind \in {"reset", "change", "email"}

(* The row that is changed is locked and as it was found; so is that of    *)
(* the administrator, with the password given.  Nothing else is locked.    *)
ChangesAreLocked ==
    \A r \in Requests :
        /\ \A u \in Users : holder[u] = r =>
               \/ HasChecked(r)
               \/ Op(r).kind \in {"block", "deleteUser"} /\ Now(r) = "lock"
        /\ HasChecked(r) =>
               /\ holder[Op(r).user] = r
               /\ Op(r).kind = "register" => rows[Op(r).user] = Unborn
               /\ Op(r).kind \notin {"register", "deleteOwn"} => Exists(Op(r).user)
        /\ Op(r).kind \in {"block", "deleteUser"} /\ Now(r) \in {"lock", "commit"} =>
               holder[Admin] = r /\ rows[Admin].password = Op(r).password

(* Nobody deletes the administrator.                                       *)
AdminStays ==
    /\ Exists(Admin)
    /\ \A r \in Requests :
          /\ Op(r).kind = "deleteOwn" /\ Now(r) \in {"delete", "commit"} => Op(r).user # Admin
          /\ Op(r).kind = "deleteUser" /\ Now(r) = "commit" => Op(r).user # Admin

(* Who is about to commit an address or a nickname of its own.             *)
Claims(r) == Now(r) = "commit" /\ Op(r).kind \in {"register", "email", "profile"}

(* It is nobody else's, and no other is about to commit it.                *)
ClaimsAreApart ==
    \A r \in Requests : Claims(r) =>
        /\ \A u \in Users \ {Op(r).user} :
              Exists(u) => ~Clash(rows[u], NewRow(Op(r)))
        /\ \A q \in Requests \ {r} :
              Claims(q) => ~Clash(NewRow(Op(q)), NewRow(Op(r)))

(* An address that was free when r looked is that of one who took it since.*)
Took(q, email) ==
    req[q].done /\ Op(q).kind \in {"register", "email"} /\ Op(q).email = email

TakenSince ==
    \A r \in Requests :
        Op(r).kind = "email" /\ Now(r) \in {"consume", "claim"} =>
            \A u \in Users : Exists(u) /\ rows[u].email = Op(r).email =>
                \E q \in Requests \ {r} : Took(q, Op(r).email)

(* No two accounts have an address or a nickname in common, though each is *)
(* looked for before the transaction that takes it holds anything.         *)
AccountsAreDistinct ==
    \A u, v \in Users :
        u # v /\ Exists(u) /\ Exists(v) =>
            /\ rows[u].email # rows[v].email
            /\ rows[u].nickname # rows[v].nickname

(* Who is told of success has changed what was asked, and who is refused   *)
(* has changed nothing, except that a reset is done although its sign-in   *)
(* is refused.  An error after the commit is only possible where Redis, a  *)
(* sign-in or the mail comes after it and its failure is not ignored.      *)
AnswersTellWhatHappened ==
    \A r \in Requests :
        /\ req[r].answer = "ok" => req[r].done
        /\ req[r].answer = "invalid" => ~req[r].done /\ ~req[r].consumed
        /\ req[r].answer = "refused" /\ req[r].done => Op(r).kind = "reset"
        /\ req[r].answer = "error" /\ req[r].done =>
               Op(r).kind \notin {"change", "email", "profile", "deleteOwn"}

(* A refusal does not cost the code: whatever can be objected is looked at *)
(* before the code is consumed in Redis, which no rollback undoes.  Only a *)
(* change of address can lose its code to one who took the address since.  *)
RefusedKeepTheirCode ==
    \A r \in Requests :
        req[r].answer = "refused" /\ req[r].consumed /\ ~req[r].done =>
            /\ Op(r).kind = "email"
            /\ \E q \in Requests \ {r} : Took(q, Op(r).email)

(* A session whose address or password is outdated was opened by a sign-in *)
(* that had compared them before the change was committed and opened the   *)
(* session after it (validateUserByEmailAndPassword and createSession have *)
(* no lock in common); none that was there at the change survives it, but  *)
(* the one that asked.                                                     *)
OutdatedWasLate ==
    \A s \in sessions : Outdated(s) => s.late

(* What the requests keep in every state, wherever each of them is: the    *)
(* inductive invariant, with the four properties above.                    *)
AccountsInv ==
    /\ ProgressIsTold /\ ChangesAreLocked /\ AdminStays
    /\ ClaimsAreApart /\ TakenSince
    /\ AccountsAreDistinct /\ AnswersTellWhatHappened
    /\ RefusedKeepTheirCode /\ OutdatedWasLate

(* An administrator blocks or deletes an account with a password that is   *)
(* right when the change is committed, though passwords change meanwhile.  *)
ProvenAtCommit ==
    [][\A r \in Requests :
          At(r, "commit") /\ req'[r].done
          /\ Op(r).kind \in {"block", "deleteUser"} =>
              rows[Admin].password = Op(r).password]_vars
=============================================================================
