-------------------------- MODULE AccountsProofs --------------------------
(***************************************************************************)
(* Theorems about Accounts, for every value of its constants.              *)
(***************************************************************************)
EXTENDS Accounts, SequenceTheorems, TLAPS

(* The steps of each operation, and the one that follows.                  *)
KindSteps ==
    [register   |-> {"consume", "draw", "claim", "commit", "clear", "revoke", "session"},
     reset      |-> {"lookUp", "lock", "consume", "commit", "clear", "compare", "session"},
     change     |-> {"lookUp", "lock", "consume", "commit"},
     email      |-> {"lookUp", "lock", "taken", "consume", "claim", "commit"},
     profile    |-> {"claim", "commit"},
     deleteOwn  |-> {"compare", "delete", "commit"},
     block      |-> {"administrator", "lock", "commit", "mail"},
     deleteUser |-> {"administrator", "lock", "commit", "mail"},
     unblock    |-> {"verify", "lock", "commit", "mail"},
     signIn     |-> {"compare", "session"}]

Following(k, step) ==
    CASE step = "lookUp" -> "lock"
      [] step \in {"administrator", "verify"} -> "lock"
      [] step = "lock" /\ k \in {"reset", "change"} -> "consume"
      [] step = "lock" /\ k = "email" -> "taken"
      [] step = "lock" /\ k \in {"block", "deleteUser", "unblock"} -> "commit"
      [] step = "taken" -> "consume"
      [] step = "consume" /\ k = "register" -> "draw"
      [] step = "consume" /\ k \in {"reset", "change"} -> "commit"
      [] step = "consume" /\ k = "email" -> "claim"
      [] step = "draw" -> "claim"
      [] step \in {"claim", "delete"} -> "commit"
      [] step = "commit" /\ k \in {"register", "reset"} -> "clear"
      [] step = "commit" /\ k \in {"change", "email", "profile", "deleteOwn"} -> "end"
      [] step = "commit" /\ k \in {"block", "deleteUser", "unblock"} -> "mail"
      [] step = "clear" /\ k = "register" -> "revoke"
      [] step = "clear" /\ k = "reset" -> "compare"
      [] step = "compare" /\ k = "deleteOwn" -> "delete"
      [] step = "compare" /\ k \in {"reset", "signIn"} -> "session"
      [] step = "revoke" -> "session"
      [] step \in {"session", "mail"} -> "end"

(* What is left of a script, and what is left after a step.                *)
Rest(k, todo) ==
    \E i \in 0..Len(Script[k]) : todo = SubSeq(Script[k], i + 1, Len(Script[k]))

(* The operations, by name.                                                *)
LEMMA KindNames ==
  Kinds = {"register", "reset", "change", "email", "profile", "deleteOwn", "block",
           "deleteUser", "unblock", "signIn"}
  BY DEF Kinds, Script

(* A step taken off what is left of a script.                              *)
LEMMA RestOf ==
  ASSUME NEW S, NEW s \in Seq(S), NEW i \in 0..Len(s), SubSeq(s, i + 1, Len(s)) # <<>>
  PROVE  LET todo == SubSeq(s, i + 1, Len(s))
         IN  /\ i < Len(s) /\ Head(todo) = s[i + 1]
             /\ Tail(todo) = SubSeq(s, i + 2, Len(s))
             /\ Tail(todo) = <<>> <=> i + 1 = Len(s)
             /\ i + 1 < Len(s) => Head(Tail(todo)) = s[i + 2]
  <1> DEFINE todo == SubSeq(s, i + 1, Len(s))
  <1>1. Len(s) \in Nat /\ i \in Nat /\ todo \in Seq(S)
    OBVIOUS
  <1>2. i < Len(s)
    OBVIOUS
  <1>3. Len(todo) = Len(s) - i /\ \A j \in 1..Len(s) - i : todo[j] = s[j + i]
    BY <1>1, <1>2
  <1>4. Head(todo) = s[i + 1]
    BY <1>2
  <1>5. Tail(todo) = SubSeq(s, i + 2, Len(s))
    BY <1>2
  <1>6. i + 1 = Len(s) => Tail(todo) = <<>>
    BY <1>1, <1>5, SubSeqEmpty
  <1>7. ASSUME i + 1 < Len(s) PROVE Tail(todo) # <<>> /\ Head(Tail(todo)) = s[i + 2]
    <2> DEFINE rest == SubSeq(s, i + 2, Len(s))
    <2>1. rest \in Seq(S) /\ Len(rest) = Len(s) - i - 1
      BY <1>1, <1>7
    <2>2. rest[1] = s[i + 2]
      BY <1>1, <1>7
    <2>3. Len(rest) # 0 /\ Head(rest) = rest[1]
      BY <1>1, <1>7, <2>1
    <2> HIDE DEF rest
    <2>4. rest # <<>>
      BY <2>1, <2>3, EmptySeq
    <2> QED BY <1>5, <2>2, <2>3, <2>4 DEF rest
  <1> HIDE DEF todo
  <1>8. Tail(todo) = <<>> <=> i + 1 = Len(s)
    BY <1>1, <1>2, <1>6, <1>7
  <1> QED BY <1>2, <1>4, <1>5, <1>7, <1>8 DEF todo

(* The scripts, step by step.                                              *)
LEMMA ScriptTable ==
  ASSUME NEW k \in Kinds
  PROVE  /\ Script[k] \in Seq(Steps) /\ Len(Script[k]) \in 2..7
         /\ \A j \in 1..Len(Script[k]) :
               /\ Script[k][j] \in KindSteps[k]
               /\ Following(k, Script[k][j]) =
                    IF j = Len(Script[k]) THEN "end" ELSE Script[k][j + 1]
  <1>1. CASE k = "register"
    BY <1>1 DEF Script, Steps, KindSteps, Following
  <1>2. CASE k = "reset"
    BY <1>2 DEF Script, Steps, KindSteps, Following
  <1>3. CASE k = "change"
    BY <1>3 DEF Script, UpdatePassword, Steps, KindSteps, Following
  <1>4. CASE k = "email"
    BY <1>4 DEF Script, Steps, KindSteps, Following
  <1>5. CASE k = "profile"
    BY <1>5 DEF Script, Steps, KindSteps, Following
  <1>6. CASE k = "deleteOwn"
    BY <1>6 DEF Script, Steps, KindSteps, Following
  <1>7. CASE k = "block"
    BY <1>7 DEF Script, Steps, KindSteps, Following
  <1>8. CASE k = "deleteUser"
    BY <1>8 DEF Script, Steps, KindSteps, Following
  <1>9. CASE k = "unblock"
    BY <1>9 DEF Script, Steps, KindSteps, Following
  <1>10. CASE k = "signIn"
    BY <1>10 DEF Script, Steps, KindSteps, Following
  <1> QED BY KindNames, <1>1, <1>2, <1>3, <1>4, <1>5, <1>6, <1>7, <1>8, <1>9, <1>10

(* A request that takes its next step has the rest of its script left, and *)
(* the step after it is the one that follows.                              *)
LEMMA NextStep ==
  ASSUME NEW k \in Kinds, NEW todo, Rest(k, todo), todo # <<>>
  PROVE  /\ Head(todo) \in KindSteps[k] /\ Rest(k, Tail(todo))
         /\ (IF Tail(todo) = <<>> THEN "end" ELSE Head(Tail(todo))) = Following(k, Head(todo))
  <1>1. PICK i \in 0..Len(Script[k]) : todo = SubSeq(Script[k], i + 1, Len(Script[k]))
    BY DEF Rest
  <1>2. /\ i < Len(Script[k]) /\ Head(todo) = Script[k][i + 1]
        /\ Tail(todo) = SubSeq(Script[k], i + 2, Len(Script[k]))
        /\ Tail(todo) = <<>> <=> i + 1 = Len(Script[k])
        /\ i + 1 < Len(Script[k]) => Head(Tail(todo)) = Script[k][i + 2]
    BY <1>1, ScriptTable, RestOf
  <1> DEFINE j == i + 1
  <1>3. j \in 1..Len(Script[k]) /\ j \in 0..Len(Script[k])
    BY <1>2, ScriptTable, SMTT(30)
  <1>4. Tail(todo) = SubSeq(Script[k], j + 1, Len(Script[k]))
    BY <1>2
  <1>5. Rest(k, Tail(todo))
    BY <1>3, <1>4 DEF Rest
  <1>6. Head(todo) \in KindSteps[k]
    BY <1>2, <1>3, ScriptTable
  <1>7. CASE j = Len(Script[k])
    <2>1. Following(k, Head(todo)) = "end" /\ Tail(todo) = <<>>
      BY <1>2, <1>3, <1>7, ScriptTable
    <2> QED BY <1>5, <1>6, <2>1
  <1>8. CASE j < Len(Script[k])
    <2>1. Following(k, Head(todo)) = Script[k][j + 1]
      BY <1>2, <1>3, <1>8, ScriptTable
    <2>2. Tail(todo) # <<>> /\ Head(Tail(todo)) = Script[k][j + 1]
      BY <1>2, <1>8, ScriptTable
    <2> QED BY <1>5, <1>6, <2>1, <2>2
  <1> QED BY <1>3, <1>7, <1>8, ScriptTable

-----------------------------------------------------------------------------
(* One step of a request.                                                  *)

(* What the types say of a request.                                        *)
LEMMA Typed ==
  ASSUME TypeOK, NEW r \in Requests
  PROVE  /\ req[r] \in RequestType /\ Op(r) \in Operation /\ Op(r).kind \in Kinds
         /\ WellAsked(Op(r)) /\ Rest(Op(r).kind, req[r].todo)
         /\ req[r].done \in BOOLEAN /\ req[r].consumed \in BOOLEAN
         /\ Now(r) \in KindSteps[Op(r).kind] \cup {"end"}
         /\ Now(r) = "end" <=> req[r].todo = <<>>
         /\ req[r].answer = "none" <=> Now(r) # "end"
         /\ \A step : step # "end" => (At(r, step) <=> Now(r) = step)
  <1>1. /\ req[r] \in RequestType /\ Op(r) \in Operation /\ Op(r).kind \in Kinds
        /\ WellAsked(Op(r)) /\ Rest(Op(r).kind, req[r].todo)
        /\ req[r].answer = "none" <=> req[r].todo # <<>>
    BY DEF TypeOK, RequestType, Operation, Op, Rest
  <1>2. CASE req[r].todo = <<>>
    BY <1>1, <1>2 DEF Now, At, RequestType
  <1>3. CASE req[r].todo # <<>>
    <2>1. Head(req[r].todo) \in KindSteps[Op(r).kind]
      BY <1>1, <1>3, NextStep
    <2>2. Head(req[r].todo) # "end"
      BY <1>1, <2>1, KindNames DEF KindSteps
    <2> QED BY <1>1, <1>3, <2>1, <2>2 DEF Now, At, RequestType
  <1> QED BY <1>2, <1>3

(* Which operations have which steps.                                      *)
LEMMA StepsOf ==
  ASSUME TypeOK, NEW r \in Requests
  PROVE  /\ Now(r) = "lookUp" => Op(r).kind \in {"reset", "change", "email"}
         /\ Now(r) = "administrator" => Op(r).kind \in {"block", "deleteUser"}
         /\ Now(r) = "verify" => Op(r).kind = "unblock"
         /\ Now(r) = "lock" =>
               Op(r).kind \in {"reset", "change", "email", "block", "deleteUser", "unblock"}
         /\ Now(r) = "taken" => Op(r).kind = "email"
         /\ Now(r) = "consume" => Op(r).kind \in {"register", "reset", "change", "email"}
         /\ Now(r) = "draw" => Op(r).kind = "register"
         /\ Now(r) = "claim" => Op(r).kind \in {"register", "email", "profile"}
         /\ Now(r) = "delete" => Op(r).kind = "deleteOwn"
         /\ Now(r) = "commit" => Op(r).kind \in Kinds \ {"signIn"}
         /\ Now(r) = "clear" => Op(r).kind \in {"register", "reset"}
         /\ Now(r) = "mail" => Op(r).kind \in {"block", "deleteUser", "unblock"}
         /\ Now(r) = "compare" => Op(r).kind \in {"reset", "deleteOwn", "signIn"}
         /\ Now(r) = "revoke" => Op(r).kind = "register"
         /\ Now(r) = "session" => Op(r).kind \in {"register", "reset", "signIn"}
  BY Typed, KindNames DEF KindSteps

(* Nobody is none of them.                                                 *)
LEMMA NobodyIsNone ==
  /\ Nobody \notin Requests /\ Nobody \notin Users /\ Admin \in Users
  /\ Unborn \notin RowType /\ Gone \notin RowType /\ Unborn # Gone
  BY AccountsAssumption

Others(r) == \A q \in Requests \ {r} : req'[q] = req[q]

(* r has come to a step, or its end, with an operation, and has consumed   *)
(* its code, has done its work and is answered as the rest says.           *)
Comes(r, op, now, consumed, done, answer) ==
  /\ req' \in [Requests -> RequestType] /\ Others(r)
  /\ Rest(op.kind, req'[r].todo)
  /\ now = "end" <=> req'[r].todo = <<>>
  /\ Op(r)' = op /\ Now(r)' = now
  /\ req'[r].consumed = consumed /\ req'[r].done = done /\ req'[r].answer = answer

(* What the next step of a script does to its request.                     *)
LEMMA Advance ==
  ASSUME TypeOK, NEW r \in Requests, Now(r) # "end",
         NEW op \in Operation, op.kind = Op(r).kind,
         NEW next \in RequestType, req' = [req EXCEPT ![r] = next],
         next.op = op, next.todo = Tail(req[r].todo)
  PROVE  Comes(r, op, Following(op.kind, Now(r)), next.consumed, next.done, next.answer)
  <1>1. /\ req[r].todo # <<>> /\ Rest(op.kind, req[r].todo) /\ op.kind \in Kinds
        /\ req[r].todo \in Seq(Steps) /\ Now(r) = Head(req[r].todo)
    BY Typed DEF RequestType, Now
  <1>2. /\ Rest(op.kind, Tail(req[r].todo))
        /\ (IF Tail(req[r].todo) = <<>> THEN "end" ELSE Head(Tail(req[r].todo)))
             = Following(op.kind, Now(r))
    BY <1>1, NextStep
  <1>3. req' \in [Requests -> RequestType] /\ Others(r) /\ req'[r] = next
    BY DEF TypeOK, Others
  <1>7. Now(r)' = Following(op.kind, Now(r))
    BY <1>2, <1>3 DEF Now
  <1>8. Following(op.kind, Now(r)) = "end" <=> Tail(req[r].todo) = <<>>
    <2>1. CASE Tail(req[r].todo) # <<>>
      <3>1. PICK rest : rest = Tail(req[r].todo)
        OBVIOUS
      <3>2. Rest(op.kind, rest) /\ rest # <<>> /\ op.kind \in Kinds
        BY <1>1, <1>2, <2>1, <3>1
      <3>3. Head(rest) \in KindSteps[op.kind]
        BY <3>2, NextStep
      <3>4. Head(rest) # "end"
        BY <1>1, <3>3, KindNames DEF KindSteps
      <3> QED BY <1>2, <2>1, <3>1, <3>4
    <2> QED BY <1>2, <2>1
  <1> QED BY <1>2, <1>3, <1>7, <1>8 DEF Comes, Op

(* Going on, unless that was the last step.                                *)
LEMMA ProceedEffect ==
  ASSUME TypeOK, NEW r \in Requests, Now(r) # "end",
         NEW op \in Operation, op.kind = Op(r).kind, Proceed(r, op)
  PROVE  Comes(r, op, Following(op.kind, Now(r)), req[r].consumed, req[r].done,
               IF Following(op.kind, Now(r)) = "end" THEN "ok" ELSE "none")
  <1>1. req[r] \in RequestType /\ req[r].answer = "none" /\ req[r].todo \in Seq(Steps)
        /\ req[r].todo # <<>>
    BY Typed DEF RequestType
  <1>2. Tail(req[r].todo) \in Seq(Steps)
    BY <1>1, HeadTailProperties
  <1> DEFINE a == IF Tail(req[r].todo) = <<>> THEN "ok" ELSE req[r].answer
             next == [req[r] EXCEPT !.op = op, !.todo = Tail(req[r].todo), !.answer = a]
  <1>3. a \in {"none", "ok", "refused", "invalid", "error"}
    BY <1>1
  <1>4. req' = [req EXCEPT ![r] = next]
    BY DEF Proceed
  <1> HIDE DEF a
  <1>5. /\ next \in RequestType /\ next.op = op /\ next.todo = Tail(req[r].todo)
        /\ next.consumed = req[r].consumed /\ next.done = req[r].done /\ next.answer = a
    BY <1>1, <1>2, <1>3 DEF RequestType
  <1> HIDE DEF next
  <1>6. Comes(r, op, Following(op.kind, Now(r)), req[r].consumed, req[r].done, a)
    BY <1>4, <1>5, Advance
  <1>7. a = IF Following(op.kind, Now(r)) = "end" THEN "ok" ELSE "none"
    <2>1. req'[r].todo = Tail(req[r].todo)
      BY <1>4, <1>5 DEF TypeOK
    <2> QED BY <1>1, <1>6, <2>1 DEF a, Comes
  <1> QED BY <1>6, <1>7

(* Ending, with the code consumed on the way or not.                       *)
LEMMA EndEffect ==
  ASSUME TypeOK, NEW r \in Requests, Now(r) # "end",
         NEW next \in RequestType, req' = [req EXCEPT ![r] = next],
         next.op = Op(r), next.todo = <<>>
  PROVE  Comes(r, Op(r), "end", next.consumed, next.done, next.answer)
  <1>1. Rest(Op(r).kind, <<>>)
    <2>1. Op(r).kind \in Kinds
      BY Typed
    <2>2. /\ Len(Script[Op(r).kind]) \in 0..Len(Script[Op(r).kind])
          /\ SubSeq(Script[Op(r).kind], Len(Script[Op(r).kind]) + 1, Len(Script[Op(r).kind]))
               = <<>>
      BY <2>1, ScriptTable, SubSeqEmpty
    <2> QED BY <2>2 DEF Rest
  <1>2. req' \in [Requests -> RequestType] /\ Others(r) /\ req'[r] = next
    BY DEF TypeOK, Others
  <1> QED BY <1>1, <1>2 DEF Comes, Op, Now

-----------------------------------------------------------------------------
(* The invariants, request by request.                                     *)

(* What is promised and granted to a request.                              *)
Told(r) ==
  /\ Rest(Op(r).kind, req[r].todo)
  /\ Now(r) = "end" <=> req[r].todo = <<>>
  /\ req[r].answer = "none" <=> Now(r) # "end"
  /\ WellAsked(Op(r))
  /\ Now(r) # "end" => (req[r].done <=> Over(r))
  /\ req[r].consumed =>
        /\ Op(r).kind \in Confirmations
        /\ Now(r) \notin {"lookUp", "lock", "taken", "consume"}
  /\ Op(r).kind = "register" /\ Now(r) \in {"claim", "commit"} => Op(r).nickname \in Nicknames
  /\ Op(r).kind = "register" /\ (Now(r) = "commit" \/ Over(r)) => Op(r).user \in Users
  /\ Op(r).kind = "signIn" /\ Now(r) = "session" => Op(r).user \in Users
  /\ Op(r).kind = "deleteOwn" /\ Now(r) \in {"delete", "commit"} => Op(r).user # Admin
  /\ Op(r).kind = "deleteUser" /\ Now(r) = "commit" => Op(r).user # Admin

(* What it answers.                                                        *)
Answers(r) ==
  /\ req[r].answer = "ok" => req[r].done
  /\ req[r].answer = "invalid" => ~req[r].done /\ ~req[r].consumed
  /\ req[r].answer = "refused" /\ req[r].done => Op(r).kind = "reset"
  /\ req[r].answer = "error" /\ req[r].done =>
        Op(r).kind \notin {"change", "email", "profile", "deleteOwn"}
  /\ req[r].answer = "refused" /\ req[r].consumed /\ ~req[r].done =>
        Op(r).kind = "email" /\ \E q \in Requests \ {r} : Took(q, Op(r).email)

(* What it has locked.                                                     *)
Locks(r) ==
  /\ \A u \in Users : holder[u] = r =>
        /\ u \in {Op(r).user, Admin}
        /\ HasChecked(r) \/ (Op(r).kind \in {"block", "deleteUser"} /\ Now(r) = "lock")
  /\ HasChecked(r) =>
        /\ holder[Op(r).user] = r
        /\ Op(r).kind = "register" => rows[Op(r).user] = Unborn
        /\ Op(r).kind \notin {"register", "deleteOwn"} => Exists(Op(r).user)
  /\ Op(r).kind \in {"block", "deleteUser"} /\ Now(r) \in {"lock", "commit"} =>
        holder[Admin] = r /\ rows[Admin].password = Op(r).password

(* What it is about to take.                                               *)
Takes(r) ==
  /\ Claims(r) => \A u \in Users \ {Op(r).user} : Exists(u) => ~Clash(rows[u], NewRow(Op(r)))
  /\ Claims(r) => \A q \in Requests \ {r} : Claims(q) => ~Clash(NewRow(Op(q)), NewRow(Op(r)))
  /\ Op(r).kind = "email" /\ Now(r) \in {"consume", "claim"} =>
        \A u \in Users : Exists(u) /\ rows[u].email = Op(r).email =>
            \E q \in Requests \ {r} : Took(q, Op(r).email)

Mine(r) == Told(r) /\ Answers(r) /\ Locks(r) /\ Takes(r)

(* What is said of the rows and the sessions.                              *)
Common ==
  /\ rows \in [Users -> RowType \cup {Unborn, Gone}]
  /\ holder \in [Users -> Requests \cup {Nobody}]
  /\ req \in [Requests -> RequestType]
  /\ codes \subseteq [kind: Confirmations, about: Emails \cup Users]
  /\ sessions \subseteq SessionType
  /\ \A s \in sessions : Exists(s.user) /\ (Outdated(s) => s.late)
  /\ Exists(Admin)
  /\ AccountsAreDistinct

ByRequest == Common /\ \A r \in Requests : Mine(r)

(* It is all the same.                                                     *)
LEMMA Apart == TypeOK /\ AccountsInv => Common /\ \A r \in Requests : Mine(r)
  <1> SUFFICES ASSUME TypeOK, AccountsInv PROVE Common /\ \A r \in Requests : Mine(r)
    OBVIOUS
  <1>1. Common
    BY DEF TypeOK, AccountsInv, Common, OutdatedWasLate, AdminStays
  <1>2. ASSUME NEW r \in Requests PROVE Mine(r)
    <2>1. Told(r)
      BY Typed DEF AccountsInv, ProgressIsTold, AdminStays, Told
    <2>2. Answers(r)
      BY DEF AccountsInv, AnswersTellWhatHappened, RefusedKeepTheirCode, Answers
    <2>3. Locks(r)
      <3>1. \A u \in Users : holder[u] = r => u \in {Op(r).user, Admin}
        BY NobodyIsNone DEF TypeOK
      <3>2. ChangesAreLocked
        BY DEF AccountsInv
      <3>3. \A u \in Users : holder[u] = r =>
               HasChecked(r) \/ (Op(r).kind \in {"block", "deleteUser"} /\ Now(r) = "lock")
        BY <3>2 DEF ChangesAreLocked
      <3>4. HasChecked(r) =>
              /\ holder[Op(r).user] = r
              /\ Op(r).kind = "register" => rows[Op(r).user] = Unborn
              /\ Op(r).kind \notin {"register", "deleteOwn"} => Exists(Op(r).user)
        BY <3>2 DEF ChangesAreLocked
      <3>5. Op(r).kind \in {"block", "deleteUser"} /\ Now(r) \in {"lock", "commit"} =>
              holder[Admin] = r /\ rows[Admin].password = Op(r).password
        BY <3>2 DEF ChangesAreLocked
      <3> QED BY <3>1, <3>3, <3>4, <3>5 DEF Locks
    <2>4. Takes(r)
      BY DEF AccountsInv, ClaimsAreApart, TakenSince, Takes
    <2> QED BY <2>1, <2>2, <2>3, <2>4 DEF Mine
  <1> QED BY <1>1, <1>2

(* What holds of the state as a whole and of each request is the           *)
(* invariant.                                                              *)
LEMMA Together == ByRequest => TypeOK /\ AccountsInv
  <1> SUFFICES ASSUME Common, \A r \in Requests : Mine(r) PROVE TypeOK /\ AccountsInv
    BY DEF ByRequest
  <1>1. TypeOK
    <2>1. ASSUME NEW r \in Requests
          PROVE  /\ WellAsked(Op(r))
                 /\ \E i \in 0..Len(Script[Op(r).kind]) :
                        req[r].todo = SubSeq(Script[Op(r).kind], i + 1, Len(Script[Op(r).kind]))
                 /\ req[r].answer = "none" <=> req[r].todo # <<>>
      BY DEF Mine, Told, Rest
    <2>2. ASSUME NEW u \in Users, holder[u] # Nobody
          PROVE  /\ req[holder[u]].todo # <<>>
                 /\ ~req[holder[u]].done
                 /\ u \in {Op(holder[u]).user, Admin}
      <3>1. PICK r \in Requests : holder[u] = r
        BY <2>2 DEF Common
      <3>2. /\ u \in {Op(r).user, Admin}
            /\ HasChecked(r) \/ (Op(r).kind \in {"block", "deleteUser"} /\ Now(r) = "lock")
            /\ Now(r) = "end" <=> req[r].todo = <<>>
            /\ Now(r) # "end" => (req[r].done <=> Over(r))
        BY <3>1 DEF Mine, Locks, Told
      <3> QED BY <3>1, <3>2 DEF HasChecked, Over
    <2> QED BY <2>1, <2>2 DEF Common, TypeOK
  <1>2. /\ ProgressIsTold /\ AdminStays /\ AnswersTellWhatHappened /\ RefusedKeepTheirCode
        /\ OutdatedWasLate /\ AccountsAreDistinct
    BY DEF Common, Mine, Told, Answers, ProgressIsTold, AdminStays, AnswersTellWhatHappened,
       RefusedKeepTheirCode, OutdatedWasLate
  <1>3. ChangesAreLocked
    BY DEF Mine, Locks, ChangesAreLocked
  <1>4. ClaimsAreApart /\ TakenSince
    BY DEF Mine, Takes, ClaimsAreApart, TakenSince
  <1> QED BY <1>1, <1>2, <1>3, <1>4 DEF AccountsInv

-----------------------------------------------------------------------------
(* What a step of one request leaves to the others.                        *)

(* Locks are taken and given back for oneself only.                        *)
LockedFor(r) ==
  /\ holder' \in [Users -> Requests \cup {Nobody}]
  /\ \A u \in Users : holder'[u] # holder[u] => {holder[u], holder'[u]} \subseteq {r, Nobody}

(* What is told of the others and what they answer is the same.            *)
LEMMA OthersTold ==
  ASSUME TypeOK, AccountsInv, NEW r \in Requests, Others(r), LockedFor(r),
         req'[r].op.kind = req[r].op.kind, req'[r].op.email = req[r].op.email,
         req[r].done => req'[r].done,
         NEW q \in Requests \ {r}
  PROVE  /\ Told(q)' /\ Answers(q)'
         /\ Op(q)' = Op(q) /\ Now(q)' = Now(q)
         /\ HasChecked(q)' = HasChecked(q) /\ Claims(q)' = Claims(q)
         /\ \A u \in Users : holder'[u] = q <=> holder[u] = q
         /\ \A p \in Requests : \A e : Took(p, e) => Took(p, e)'
  <1>1. Mine(q) /\ Common
    BY Apart
  <1>2. /\ req'[q] = req[q] /\ Op(q)' = Op(q) /\ Now(q)' = Now(q)
        /\ Over(q)' = Over(q) /\ HasChecked(q)' = HasChecked(q) /\ Claims(q)' = Claims(q)
    BY DEF Others, Op, Now, Over, HasChecked, Claims
  <1>3. \A u \in Users : holder'[u] = q <=> holder[u] = q
    BY <1>1, NobodyIsNone DEF LockedFor, Common
  <1>4. \A p \in Requests : \A e : Took(p, e) => Took(p, e)'
    BY DEF Took, Op, Others
  <1>5. Told(q)'
    BY <1>1, <1>2 DEF Mine, Told
  <1>6. Answers(q)'
    BY <1>1, <1>2, <1>4 DEF Mine, Answers
  <1> QED BY <1>2, <1>3, <1>4, <1>5, <1>6

(* A step of r that changes no row spares all the others.                  *)
LEMMA OthersKeep ==
  ASSUME TypeOK, AccountsInv, NEW r \in Requests, Others(r), LockedFor(r), UNCHANGED rows,
         req'[r].op.kind = req[r].op.kind, req'[r].op.email = req[r].op.email,
         req[r].done => req'[r].done, Mine(r)',
         NEW q \in Requests \ {r}
  PROVE  Mine(q)'
  <1>1. Mine(q) /\ Mine(r) /\ Common
    BY Apart
  <1>2. /\ Told(q)' /\ Answers(q)'
        /\ Op(q)' = Op(q) /\ Now(q)' = Now(q)
        /\ HasChecked(q)' = HasChecked(q) /\ Claims(q)' = Claims(q)
        /\ \A u \in Users : holder'[u] = q <=> holder[u] = q
        /\ \A p \in Requests : \A e : Took(p, e) => Took(p, e)'
    BY OthersTold
  <1>3. \A u \in Users : Exists(u)' = Exists(u)
    BY DEF Exists
  <1>4. Locks(q)'
    <2>1. HasChecked(q) => Op(q).user \in Users
      BY <1>1, StepsOf DEF HasChecked, Mine, Told, WellAsked
    <2> QED BY <1>1, <1>2, <1>3, <2>1, NobodyIsNone DEF Mine, Locks
  <1>5. Takes(q)'
    <2>1. \A p \in Requests \ {r} : Claims(p)' = Claims(p) /\ NewRow(Op(p))' = NewRow(Op(p))
      BY DEF Others, Claims, Now, Op, NewRow
    <2>2. Claims(q) => \A p \in Requests \ {q, r} : Claims(p)' =>
                          ~Clash(NewRow(Op(p)), NewRow(Op(q)))'
      BY <1>1, <2>1 DEF Mine, Takes, Clash
    <2>3. Claims(q) /\ Claims(r)' => ~Clash(NewRow(Op(r)), NewRow(Op(q)))'
      <3>1. Claims(q) /\ Claims(r)' => ~Clash(NewRow(Op(q)), NewRow(Op(r)))'
        BY <1>2 DEF Mine, Takes
      <3> QED BY <3>1 DEF Clash
    <2>4. Claims(q) => \A u \in Users \ {Op(q).user} :
                          Exists(u) => ~Clash(rows[u], NewRow(Op(q)))'
      BY <1>1, <2>1 DEF Mine, Takes, Clash
    <2>5. Op(q).kind = "email" /\ Now(q) \in {"consume", "claim"} =>
            \A u \in Users : Exists(u) /\ rows[u].email = Op(q).email =>
                \E p \in Requests \ {q} : Took(p, Op(q).email)'
      <3> SUFFICES ASSUME Op(q).kind = "email" /\ Now(q) \in {"consume", "claim"},
                          NEW u \in Users, Exists(u), rows[u].email = Op(q).email
                   PROVE  \E p \in Requests \ {q} : Took(p, Op(q).email)'
        OBVIOUS
      <3>1. PICK p \in Requests \ {q} : Took(p, Op(q).email)
        BY <1>1 DEF Mine, Takes
      <3> QED BY <1>2, <3>1 DEF Took
    <2> QED BY <1>2, <1>3, <2>2, <2>3, <2>4, <2>5 DEF Takes
  <1> QED BY <1>2, <1>4, <1>5 DEF Mine

(* Such a step keeps the invariants when it keeps those of r.              *)
LEMMA SessionStepKeeps ==
  ASSUME TypeOK, AccountsInv, NEW r \in Requests, Others(r), LockedFor(r),
         UNCHANGED rows, codes' \subseteq codes, req' \in [Requests -> RequestType],
         sessions' \subseteq SessionType,
         \A s \in sessions' : Exists(s.user) /\ (Outdated(s) => s.late),
         req'[r].op.kind = req[r].op.kind, req'[r].op.email = req[r].op.email,
         req[r].done => req'[r].done, Mine(r)'
  PROVE  (TypeOK /\ AccountsInv)'
  <1>1. \A q \in Requests : Mine(q)'
    BY OthersKeep
  <1>2. Common'
    <2>1. Common
      BY Apart
    <2>2. \A u \in Users : Exists(u)' = Exists(u)
      BY DEF Exists
    <2>3. \A s \in sessions' : Exists(s.user)' /\ (Outdated(s)' => s.late)
      BY <2>1 DEF Common, Exists, Outdated
    <2>4. AccountsAreDistinct'
      BY <2>1, <2>2 DEF Common, AccountsAreDistinct
    <2> QED BY <2>1, <2>2, <2>3, <2>4, NobodyIsNone DEF Common, LockedFor
  <1>3. ByRequest'
    BY <1>1, <1>2 DEF ByRequest
  <1> QED BY <1>3, Together, PTL

(* A step of r that changes no row and no session.                         *)
LEMMA StepKeeps ==
  ASSUME TypeOK, AccountsInv, NEW r \in Requests, Others(r), LockedFor(r),
         UNCHANGED <<rows, sessions>>, codes' \subseteq codes, req' \in [Requests -> RequestType],
         req'[r].op.kind = req[r].op.kind, req'[r].op.email = req[r].op.email,
         req[r].done => req'[r].done, Mine(r)'
  PROVE  (TypeOK /\ AccountsInv)'
  <1>1. /\ sessions' \subseteq SessionType
        /\ \A s \in sessions' : Exists(s.user) /\ (Outdated(s) => s.late)
    BY Apart DEF Common
  <1> QED BY <1>1, SessionStepKeeps

-----------------------------------------------------------------------------
(* Steps that end a request.                                               *)

(* It has nothing locked and nothing to come.                              *)
LEMMA EndIsMine ==
  ASSUME TypeOK, AccountsInv, NEW r \in Requests, Now(r) # "end",
         NEW c \in BOOLEAN, NEW a \in {"refused", "invalid", "error"},
         Comes(r, Op(r), "end", c, req[r].done, a),
         holder' = [u \in Users |-> IF holder[u] = r THEN Nobody ELSE holder[u]],
         UNCHANGED rows,
         c => Op(r).kind \in Confirmations,
         a = "invalid" => ~req[r].done /\ ~c,
         a = "refused" /\ req[r].done => Op(r).kind = "reset",
         a = "error" /\ req[r].done =>
             Op(r).kind \notin {"change", "email", "profile", "deleteOwn"},
         a = "refused" /\ c /\ ~req[r].done =>
             Op(r).kind = "email" /\ \E q \in Requests \ {r} : Took(q, Op(r).email)
  PROVE  Mine(r)' /\ LockedFor(r)
  <1>1. /\ Op(r)' = Op(r) /\ Now(r)' = "end" /\ Others(r)
        /\ req'[r].consumed = c /\ req'[r].done = req[r].done /\ req'[r].answer = a
        /\ Rest(Op(r).kind, req'[r].todo) /\ req'[r].todo = <<>>
    BY DEF Comes
  <1>2. \A u \in Users : holder'[u] # r
    BY NobodyIsNone
  <1>3. Mine(r)
    BY Apart
  <1>4. ~HasChecked(r)' /\ ~Claims(r)' /\ ~Over(r)'
    BY <1>1 DEF HasChecked, Claims, Over
  <1>5. Told(r)'
    BY <1>1, <1>3, <1>4 DEF Mine, Told
  <1>6. Answers(r)'
    <2>1. \A q \in Requests \ {r} : Took(q, Op(r).email) => Took(q, Op(r).email)'
      BY <1>1 DEF Took, Others, Op
    <2> QED BY <1>1, <2>1 DEF Answers
  <1>7. Locks(r)' /\ Takes(r)'
    BY <1>1, <1>2, <1>4 DEF Locks, Takes
  <1>8. LockedFor(r)
    BY DEF LockedFor, TypeOK
  <1> QED BY <1>5, <1>6, <1>7, <1>8 DEF Mine

(* A request ends with an answer it may give: only one that did not happen *)
(* is invalid, and only a reset is refused after it happened.              *)
LEMMA EndKeeps ==
  ASSUME TypeOK, AccountsInv, NEW r \in Requests, Now(r) # "end",
         NEW a \in {"refused", "invalid", "error"}, End(r, a),
         a = "invalid" => ~req[r].done /\ ~req[r].consumed,
         a = "refused" /\ req[r].done => Op(r).kind = "reset",
         a = "error" /\ req[r].done =>
             Op(r).kind \notin {"change", "email", "profile", "deleteOwn"},
         a = "refused" /\ req[r].consumed /\ ~req[r].done =>
             Op(r).kind = "email" /\ \E q \in Requests \ {r} : Took(q, Op(r).email)
  PROVE  (TypeOK /\ AccountsInv)'
  <1> DEFINE next == [req[r] EXCEPT !.todo = <<>>, !.answer = a]
  <1>1. req' = [req EXCEPT ![r] = next]
    BY DEF End
  <1>2. <<>> \in Seq(Steps) /\ req[r] \in RequestType
    BY EmptySeq, Typed
  <1>3. /\ next \in RequestType /\ next.op = Op(r) /\ next.todo = <<>> /\ next.answer = a
        /\ next.consumed = req[r].consumed /\ next.done = req[r].done
    BY <1>2 DEF RequestType, Op
  <1> HIDE DEF next
  <1>4. Comes(r, Op(r), "end", req[r].consumed, req[r].done, a)
    BY <1>1, <1>3, EndEffect
  <1>5. req[r].consumed \in BOOLEAN /\ (req[r].consumed => Op(r).kind \in Confirmations)
    BY Typed, Apart DEF Mine, Told
  <1>6. /\ holder' = [u \in Users |-> IF holder[u] = r THEN Nobody ELSE holder[u]]
        /\ UNCHANGED <<rows, sessions, codes>>
    BY DEF End
  <1>7. Mine(r)' /\ LockedFor(r)
    BY <1>4, <1>5, <1>6, EndIsMine
  <1>8. /\ Others(r) /\ req' \in [Requests -> RequestType] /\ req'[r].op = req[r].op
        /\ req'[r].done = req[r].done
    BY <1>4 DEF Comes, Op
  <1> QED BY <1>6, <1>7, <1>8, StepKeeps

(* The reply to the call that consumed the code is lost: an error, with    *)
(* the code gone and nothing done.                                         *)
LEMMA LoseReplyKeeps ==
  ASSUME TypeOK, AccountsInv, NEW r \in Requests, LoseReply(r)
  PROVE  (TypeOK /\ AccountsInv)'
  <1> DEFINE next == [req[r] EXCEPT !.todo = <<>>, !.answer = "error", !.consumed = TRUE]
  <1>1. /\ req' = [req EXCEPT ![r] = next] /\ UNCHANGED <<rows, sessions>>
        /\ codes' = codes \ {CodeOf(Op(r))}
        /\ holder' = [u \in Users |-> IF holder[u] = r THEN Nobody ELSE holder[u]]
    BY DEF LoseReply
  <1>2. <<>> \in Seq(Steps) /\ req[r] \in RequestType /\ Now(r) = "consume"
    BY EmptySeq, Typed DEF LoseReply
  <1>3. /\ next \in RequestType /\ next.op = Op(r) /\ next.todo = <<>> /\ next.answer = "error"
        /\ next.consumed = TRUE /\ next.done = req[r].done
    BY <1>2 DEF RequestType, Op
  <1> HIDE DEF next
  <1>4. Comes(r, Op(r), "end", TRUE, req[r].done, "error")
    BY <1>1, <1>2, <1>3, EndEffect
  <1>5. ~req[r].done /\ Op(r).kind \in Confirmations
    BY <1>2, Apart, StepsOf DEF Mine, Told, Over, Confirmations
  <1>6. Mine(r)' /\ LockedFor(r)
    BY <1>1, <1>2, <1>4, <1>5, EndIsMine
  <1>7. /\ Others(r) /\ req' \in [Requests -> RequestType] /\ req'[r].op = req[r].op
        /\ req'[r].done = req[r].done
    BY <1>4 DEF Comes, Op
  <1> QED BY <1>1, <1>6, <1>7, StepKeeps

-----------------------------------------------------------------------------
(* Steps after which a request goes on.                                    *)

(* What there is to show of a step before the last.                        *)
LEMMA ProceedKeeps ==
  ASSUME TypeOK, AccountsInv, NEW r \in Requests, Now(r) # "end",
         NEW op \in Operation, op.kind = Op(r).kind, op.email = Op(r).email,
         Proceed(r, op), UNCHANGED <<rows, sessions, codes>>, LockedFor(r),
         Following(op.kind, Now(r)) = "end" => req[r].done,
         Comes(r, op, Following(op.kind, Now(r)), req[r].consumed, req[r].done,
               IF Following(op.kind, Now(r)) = "end" THEN "ok" ELSE "none")
         => Told(r)' /\ Locks(r)' /\ Takes(r)'
  PROVE  (TypeOK /\ AccountsInv)'
  <1>1. Comes(r, op, Following(op.kind, Now(r)), req[r].consumed, req[r].done,
              IF Following(op.kind, Now(r)) = "end" THEN "ok" ELSE "none")
    BY ProceedEffect
  <1>2. Told(r)' /\ Locks(r)' /\ Takes(r)'
    BY <1>1
  <1>3. /\ Others(r) /\ req' \in [Requests -> RequestType] /\ req'[r].op = op
        /\ req'[r].done = req[r].done
    BY <1>1 DEF Comes, Op
  <1>4. Answers(r)'
    BY <1>1 DEF Comes, Answers
  <1>5. Mine(r)'
    BY <1>2, <1>4 DEF Mine
  <1> QED BY <1>3, <1>5, StepKeeps DEF Op

(* Looking up and verifying leave things as they are.                      *)
LEMMA LookUpKeeps ==
  ASSUME TypeOK, AccountsInv, NEW r \in Requests, LookUp(r)
  PROVE  (TypeOK /\ AccountsInv)'
  <1>1. /\ Now(r) = "lookUp" /\ Op(r).kind \in {"reset", "change", "email"}
        /\ Op(r) \in Operation /\ Mine(r)
    BY Typed, StepsOf, Apart DEF LookUp
  <1>2. ~req[r].done /\ ~req[r].consumed /\ Following(Op(r).kind, Now(r)) = "lock"
    BY <1>1 DEF Mine, Told, Over, Following
  <1>3. CASE End(r, "invalid")
    BY <1>1, <1>2, <1>3, EndKeeps
  <1>4. CASE Proceed(r, Op(r)) /\ UNCHANGED <<rows, holder, sessions, codes>>
    <2>1. LockedFor(r)
      BY <1>4 DEF LockedFor, TypeOK
    <2>2. Comes(r, Op(r), "lock", req[r].consumed, req[r].done, "none")
            => Told(r)' /\ Locks(r)' /\ Takes(r)'
      BY <1>1, <1>2, <1>4 DEF Comes, Mine, Told, Locks, Takes, Over, HasChecked, Claims
    <2> QED BY <1>1, <1>2, <1>4, <2>1, <2>2, ProceedKeeps
  <1> QED BY <1>3, <1>4 DEF LookUp

(* The administrator's row is locked with the password compared.           *)
LEMMA VerifyAdministratorKeeps ==
  ASSUME TypeOK, AccountsInv, NEW r \in Requests, VerifyAdministrator(r)
  PROVE  (TypeOK /\ AccountsInv)'
  <1>1. /\ Now(r) = "administrator" /\ Op(r).kind \in {"block", "deleteUser"}
        /\ Op(r) \in Operation /\ Mine(r)
    BY Typed, StepsOf, Apart DEF VerifyAdministrator
  <1>2. ~req[r].done /\ ~req[r].consumed /\ Following(Op(r).kind, Now(r)) = "lock"
    BY <1>1 DEF Mine, Told, Over, Following, Confirmations
  <1>3. CASE End(r, "refused")
    BY <1>1, <1>2, <1>3, EndKeeps
  <1>4. CASE /\ rows[Admin].password = Op(r).password /\ Lock(r, Admin) /\ Proceed(r, Op(r))
             /\ UNCHANGED <<rows, sessions, codes>>
    <2>1. /\ holder' = [holder EXCEPT ![Admin] = r] /\ holder[Admin] = Nobody
          /\ holder \in [Users -> Requests \cup {Nobody}]
      BY <1>4 DEF VerifyAdministrator, Lock, TypeOK
    <2>2. LockedFor(r)
      BY <2>1, NobodyIsNone DEF LockedFor
    <2>3. \A u \in Users : holder'[u] = r => u = Admin
      BY <1>1, <2>1, NobodyIsNone DEF Mine, Locks, HasChecked
    <2>4. holder'[Admin] = r
      BY <2>1, NobodyIsNone
    <2>5. Comes(r, Op(r), "lock", req[r].consumed, req[r].done, "none")
            => Told(r)' /\ Locks(r)' /\ Takes(r)'
      BY <1>1, <1>2, <1>4, <2>3, <2>4
         DEF Comes, Mine, Told, Locks, Takes, Over, HasChecked, Claims
    <2> QED BY <1>1, <1>2, <1>4, <2>2, <2>5, ProceedKeeps
  <1> QED BY <1>3, <1>4 DEF VerifyAdministrator

(* An unblocking compares the administrator's password before it locks     *)
(* anything.                                                               *)
LEMMA VerifyOutsideKeeps ==
  ASSUME TypeOK, AccountsInv, NEW r \in Requests, VerifyOutside(r)
  PROVE  (TypeOK /\ AccountsInv)'
  <1>1. /\ Now(r) = "verify" /\ Op(r).kind = "unblock" /\ Op(r) \in Operation /\ Mine(r)
    BY Typed, StepsOf, Apart DEF VerifyOutside
  <1>2. ~req[r].done /\ ~req[r].consumed /\ Following(Op(r).kind, Now(r)) = "lock"
    BY <1>1 DEF Mine, Told, Over, Following, Confirmations
  <1>3. CASE End(r, "refused")
    BY <1>1, <1>2, <1>3, EndKeeps
  <1>4. CASE Proceed(r, Op(r)) /\ UNCHANGED <<rows, holder, sessions, codes>>
    <2>1. LockedFor(r)
      BY <1>4 DEF LockedFor, TypeOK
    <2>2. Comes(r, Op(r), "lock", req[r].consumed, req[r].done, "none")
            => Told(r)' /\ Locks(r)' /\ Takes(r)'
      BY <1>1, <1>2, <1>4 DEF Comes, Mine, Told, Locks, Takes, Over, HasChecked, Claims
    <2> QED BY <1>1, <1>2, <1>4, <2>1, <2>2, ProceedKeeps
  <1> QED BY <1>3, <1>4 DEF VerifyOutside

(* What an account that nothing is objected to is like.                    *)
LEMMA NoObjection ==
  ASSUME NEW op, op.kind \in Kinds, Objection(op) = "none"
  PROVE  /\ Exists(op.user)
         /\ op.kind = "deleteUser" => op.user # Admin
  BY DEF Objection

(* An objection is answered with 401 or with a refusal.                    *)
LEMMA ObjectionAnswers ==
  ASSUME NEW op
  PROVE  Objection(op) \in {"none", "invalid", "refused"}
  BY DEF Objection

(* A transaction locks the row of its account, or ends with its objection. *)
LEMMA LockAccountKeeps ==
  ASSUME TypeOK, AccountsInv, NEW r \in Requests, LockAccount(r)
  PROVE  (TypeOK /\ AccountsInv)'
  <1>1. /\ Now(r) = "lock"
        /\ Op(r).kind \in {"reset", "change", "email", "block", "deleteUser", "unblock"}
        /\ Op(r).kind \in Kinds /\ Op(r) \in Operation /\ Mine(r)
        /\ Op(r).user \in Users /\ holder[Op(r).user] \in {Nobody, r}
    BY Typed, StepsOf, Apart DEF LockAccount, WellAsked
  <1>2. ~req[r].done /\ ~req[r].consumed
    BY <1>1 DEF Mine, Told, Over
  <1>3. Following(Op(r).kind, Now(r)) \in {"consume", "taken", "commit"}
        /\ (Op(r).kind \in {"reset", "change"} => Following(Op(r).kind, Now(r)) = "consume")
        /\ (Op(r).kind = "email" => Following(Op(r).kind, Now(r)) = "taken")
        /\ (Op(r).kind \in {"block", "deleteUser", "unblock"} =>
                Following(Op(r).kind, Now(r)) = "commit")
    BY <1>1 DEF Following
  <1>4. CASE Objection(Op(r)) # "none" /\ End(r, Objection(Op(r)))
    BY <1>1, <1>2, <1>4, EndKeeps, ObjectionAnswers
  <1>5. CASE /\ Objection(Op(r)) = "none" /\ Lock(r, Op(r).user) /\ Proceed(r, Op(r))
             /\ UNCHANGED <<rows, sessions, codes>>
    <2>1. /\ holder' = [holder EXCEPT ![Op(r).user] = r]
          /\ holder \in [Users -> Requests \cup {Nobody}]
      BY <1>5 DEF Lock, TypeOK
    <2>2. LockedFor(r) /\ holder'[Op(r).user] = r
      BY <1>1, <2>1, NobodyIsNone DEF LockedFor
    <2>3. \A u \in Users : holder'[u] = r => u \in {Op(r).user, Admin}
      BY <1>1, <2>1 DEF Mine, Locks
    <2>4. holder[Admin] = r => holder'[Admin] = r
      BY <1>1, <2>1, NobodyIsNone
    <2>5. Exists(Op(r).user) /\ (Op(r).kind = "deleteUser" => Op(r).user # Admin)
      BY <1>1, <1>5, NoObjection
    <2>6. ASSUME NEW now, now = Following(Op(r).kind, Now(r)),
                 Comes(r, Op(r), now, req[r].consumed, req[r].done, "none")
          PROVE  Told(r)' /\ Locks(r)' /\ Takes(r)'
      <3>1. Op(r)' = Op(r) /\ Now(r)' = now /\ HasChecked(r)' /\ ~Claims(r)' /\ ~Over(r)'
        BY <1>1, <1>3, <2>6 DEF Comes, HasChecked, Claims, Over
      <3>2. Told(r)'
        BY <1>1, <1>2, <1>3, <2>5, <2>6, <3>1 DEF Comes, Mine, Told
      <3>3. Locks(r)'
        BY <1>1, <1>3, <1>5, <2>2, <2>3, <2>4, <2>5, <2>6, <3>1 DEF Mine, Locks, Exists
      <3>4. Takes(r)'
        BY <1>1, <1>3, <2>6, <3>1 DEF Takes
      <3> QED BY <3>2, <3>3, <3>4
    <2> QED BY <1>1, <1>3, <1>5, <2>2, <2>6, ProceedKeeps
  <1> QED BY <1>4, <1>5 DEF LockAccount

(* deleteCurrentUser locks the row it is about to delete.                  *)
LEMMA DeleteKeeps ==
  ASSUME TypeOK, AccountsInv, NEW r \in Requests, Delete(r)
  PROVE  (TypeOK /\ AccountsInv)'
  <1>1. /\ Now(r) = "delete" /\ Op(r).kind = "deleteOwn" /\ Op(r) \in Operation /\ Mine(r)
        /\ Op(r).user \in Users
    BY Typed, StepsOf, Apart DEF Delete, WellAsked
  <1>2. ~req[r].done /\ ~req[r].consumed /\ Following(Op(r).kind, Now(r)) = "commit"
    BY <1>1 DEF Mine, Told, Over, Following, Confirmations
  <1>3. /\ holder' = [holder EXCEPT ![Op(r).user] = r] /\ holder[Op(r).user] = Nobody
        /\ holder \in [Users -> Requests \cup {Nobody}]
        /\ Proceed(r, Op(r)) /\ UNCHANGED <<rows, sessions, codes>>
    BY DEF Delete, Lock, TypeOK
  <1>4. LockedFor(r) /\ holder'[Op(r).user] = r
    BY <1>1, <1>3, NobodyIsNone DEF LockedFor
  <1>5. \A u \in Users : holder'[u] = r => u = Op(r).user
    BY <1>1, <1>3 DEF Mine, Locks, HasChecked
  <1>6. Comes(r, Op(r), "commit", req[r].consumed, req[r].done, "none")
          => Told(r)' /\ Locks(r)' /\ Takes(r)'
    BY <1>1, <1>2, <1>4, <1>5 DEF Comes, Mine, Told, Locks, Takes, Over, HasChecked, Claims
  <1> QED BY <1>1, <1>2, <1>3, <1>4, <1>6, ProceedKeeps

(* Nobody has the new address.                                             *)
LEMMA CheckTakenKeeps ==
  ASSUME TypeOK, AccountsInv, NEW r \in Requests, CheckTaken(r)
  PROVE  (TypeOK /\ AccountsInv)'
  <1>1. /\ Now(r) = "taken" /\ Op(r).kind = "email" /\ Op(r) \in Operation /\ Mine(r)
    BY Typed, StepsOf, Apart DEF CheckTaken
  <1>2. ~req[r].done /\ ~req[r].consumed /\ Following(Op(r).kind, Now(r)) = "consume"
    BY <1>1 DEF Mine, Told, Over, Following
  <1>3. CASE End(r, "refused")
    BY <1>1, <1>2, <1>3, EndKeeps
  <1>4. CASE /\ \A u \in Users : Exists(u) => rows[u].email # Op(r).email
             /\ Proceed(r, Op(r)) /\ UNCHANGED <<rows, holder, sessions, codes>>
    <2>1. LockedFor(r) /\ HasChecked(r)
      BY <1>1, <1>4 DEF LockedFor, TypeOK, HasChecked
    <2>2. \A u \in Users : Exists(u)' => rows'[u].email # Op(r).email
      BY <1>4 DEF Exists
    <2>3. Comes(r, Op(r), "consume", req[r].consumed, req[r].done, "none")
            => Told(r)' /\ Locks(r)' /\ Takes(r)'
      BY <1>1, <1>2, <1>4, <2>1, <2>2
         DEF Comes, Mine, Told, Locks, Takes, Over, HasChecked, Claims, Exists
    <2> QED BY <1>1, <1>2, <1>4, <2>1, <2>3, ProceedKeeps
  <1> QED BY <1>3, <1>4 DEF CheckTaken

(* The code is spent; a change of address keeps what it has found.         *)
LEMMA ConsumeKeeps ==
  ASSUME TypeOK, AccountsInv, NEW r \in Requests, Consume(r)
  PROVE  (TypeOK /\ AccountsInv)'
  <1>1. /\ Now(r) = "consume" /\ Op(r).kind \in {"register", "reset", "change", "email"}
        /\ Op(r) \in Operation /\ Mine(r) /\ req[r] \in RequestType
    BY Typed, StepsOf, Apart DEF Consume
  <1>2. ~req[r].done /\ ~req[r].consumed
        /\ Following(Op(r).kind, Now(r)) \in {"draw", "commit", "claim"}
        /\ (Op(r).kind = "register" <=> Following(Op(r).kind, Now(r)) = "draw")
        /\ (Op(r).kind = "email" <=> Following(Op(r).kind, Now(r)) = "claim")
    BY <1>1 DEF Mine, Told, Over, Following
  <1>3. CASE End(r, "invalid")
    BY <1>1, <1>2, <1>3, EndKeeps
  <1>4. CASE /\ codes' = codes \ {CodeOf(Op(r))}
             /\ req' = [req EXCEPT ![r] = [req[r] EXCEPT !.todo = Tail(@), !.consumed = TRUE]]
             /\ UNCHANGED <<rows, holder, sessions>>
    <2> DEFINE next == [req[r] EXCEPT !.todo = Tail(req[r].todo), !.consumed = TRUE]
    <2>1. req' = [req EXCEPT ![r] = next] /\ req[r].answer = "none"
      BY <1>1, <1>4, Typed
    <2>2. Tail(req[r].todo) \in Seq(Steps)
      BY <1>1, HeadTailProperties, Typed DEF RequestType
    <2>3. /\ next \in RequestType /\ next.op = Op(r) /\ next.todo = Tail(req[r].todo)
          /\ next.consumed = TRUE /\ next.done = req[r].done /\ next.answer = "none"
      BY <1>1, <2>1, <2>2 DEF RequestType, Op
    <2> HIDE DEF next
    <2>4. Comes(r, Op(r), Following(Op(r).kind, Now(r)), TRUE, req[r].done, "none")
      BY <1>1, <2>1, <2>3, Advance
    <2>5. PICK now : now = Following(Op(r).kind, Now(r))
      OBVIOUS
    <2>6. /\ Op(r)' = Op(r) /\ Now(r)' = now /\ ~Over(r)'
          /\ (Op(r).kind # "register" <=> HasChecked(r)') /\ ~Claims(r)'
          /\ (Op(r).kind # "register" <=> HasChecked(r))
      BY <1>1, <1>2, <2>4, <2>5 DEF Comes, HasChecked, Claims, Over
    <2>7. Told(r)'
      BY <1>1, <1>2, <2>4, <2>5, <2>6 DEF Comes, Mine, Told, Confirmations
    <2>8. Locks(r)'
      BY <1>1, <1>4, <2>6 DEF Mine, Locks, Exists
    <2>9. Takes(r)'
      <3>1. \A u \in Users : Exists(u)' = Exists(u)
        BY <1>4 DEF Exists
      <3>2. \A q \in Requests \ {r} : Took(q, Op(r).email)' = Took(q, Op(r).email)
        BY <2>4 DEF Comes, Others, Took, Op
      <3> QED BY <1>1, <1>4, <2>6, <3>1, <3>2 DEF Mine, Takes
    <2>10. Answers(r)'
      BY <2>4 DEF Comes, Answers
    <2>11. Mine(r)' /\ LockedFor(r)
      BY <1>4, <2>7, <2>8, <2>9, <2>10 DEF Mine, LockedFor, TypeOK
    <2>12. /\ Others(r) /\ req' \in [Requests -> RequestType] /\ req'[r].op = req[r].op
           /\ req'[r].done = req[r].done
      BY <2>4 DEF Comes, Op
    <2> QED BY <1>4, <2>11, <2>12, StepKeeps
  <1> QED BY <1>3, <1>4 DEF Consume

(* A registration gets its nickname.                                       *)
LEMMA DrawKeeps ==
  ASSUME TypeOK, AccountsInv, NEW r \in Requests, Draw(r)
  PROVE  (TypeOK /\ AccountsInv)'
  <1>1. /\ Now(r) = "draw" /\ Op(r).kind = "register" /\ Op(r) \in Operation /\ Mine(r)
    BY Typed, StepsOf, Apart DEF Draw
  <1>2. ~req[r].done /\ Following(Op(r).kind, Now(r)) = "claim"
    BY <1>1 DEF Mine, Told, Over, Following
  <1>3. CASE End(r, "error")
    BY <1>1, <1>2, <1>3, EndKeeps
  <1>4. ASSUME NEW n \in Nicknames, Proceed(r, [Op(r) EXCEPT !.nickname = n]),
               UNCHANGED <<rows, holder, sessions, codes>>
        PROVE  (TypeOK /\ AccountsInv)'
    <2> DEFINE op == [Op(r) EXCEPT !.nickname = n]
    <2>1. /\ op \in Operation /\ op.kind = "register" /\ op.email = Op(r).email
          /\ op.nickname = n /\ op.password = Op(r).password
      BY <1>1 DEF Operation
    <2>2. Proceed(r, op)
      BY <1>4
    <2> HIDE DEF op
    <2>3. LockedFor(r)
      BY <1>4 DEF LockedFor, TypeOK
    <2>4. Comes(r, op, "claim", req[r].consumed, req[r].done, "none")
            => Told(r)' /\ Locks(r)' /\ Takes(r)'
      BY <1>1, <1>2, <1>4, <2>1
         DEF Comes, Mine, Told, Locks, Takes, Over, HasChecked, Claims, WellAsked
    <2> QED BY <1>1, <1>2, <1>4, <2>1, <2>2, <2>3, <2>4, ProceedKeeps
  <1> QED BY <1>3, <1>4 DEF Draw

(* Clearing the failures and sending the mail after a commit change        *)
(* neither rows nor sessions.                                              *)
LEMMA NotifyKeeps ==
  ASSUME TypeOK, AccountsInv, NEW r \in Requests, Notify(r)
  PROVE  (TypeOK /\ AccountsInv)'
  <1>1. /\ Now(r) \in {"clear", "mail"} /\ Op(r) \in Operation /\ Mine(r)
        /\ Now(r) = "clear" => Op(r).kind \in {"register", "reset"}
        /\ Now(r) = "mail" => Op(r).kind \in {"block", "deleteUser", "unblock"}
        /\ Proceed(r, Op(r)) /\ UNCHANGED <<rows, holder, sessions, codes>>
    BY Typed, StepsOf, Apart DEF Notify
  <1>2. /\ req[r].done
        /\ Now(r) = "mail" => Following(Op(r).kind, Now(r)) = "end"
        /\ Now(r) = "clear" /\ Op(r).kind = "register" =>
              Following(Op(r).kind, Now(r)) = "revoke"
        /\ Now(r) = "clear" /\ Op(r).kind = "reset" =>
              Following(Op(r).kind, Now(r)) = "compare"
    BY <1>1 DEF Mine, Told, Over, Following
  <1>3. LockedFor(r)
    BY <1>1 DEF LockedFor, TypeOK
  <1>4. ASSUME NEW now, NEW a, now = Following(Op(r).kind, Now(r)),
               a = (IF now = "end" THEN "ok" ELSE "none"),
               Comes(r, Op(r), now, req[r].consumed, req[r].done, a)
        PROVE  Told(r)' /\ Locks(r)' /\ Takes(r)'
    BY <1>1, <1>2, <1>4 DEF Comes, Mine, Told, Locks, Takes, Over, HasChecked, Claims
  <1> QED BY <1>1, <1>2, <1>3, <1>4, ProceedKeeps

(* The account is found whose password is right.                           *)
LEMMA CompareKeeps ==
  ASSUME TypeOK, AccountsInv, NEW r \in Requests, Compare(r)
  PROVE  (TypeOK /\ AccountsInv)'
  <1>1. /\ Now(r) = "compare" /\ Op(r).kind \in {"reset", "deleteOwn", "signIn"}
        /\ Op(r) \in Operation /\ Mine(r)
    BY Typed, StepsOf, Apart DEF Compare
  <1>2. /\ Op(r).kind = "reset" <=> req[r].done
        /\ req[r].consumed => Op(r).kind = "reset"
        /\ Op(r).kind = "deleteOwn" => Following(Op(r).kind, Now(r)) = "delete"
        /\ Op(r).kind # "deleteOwn" => Following(Op(r).kind, Now(r)) = "session"
    BY <1>1 DEF Mine, Told, Over, Following, Confirmations
  <1>3. CASE End(r, "refused")
    BY <1>1, <1>2, <1>3, EndKeeps
  <1>4. ASSUME NEW u \in Users, Op(r).kind = "deleteOwn" => u # Admin,
               Proceed(r, [Op(r) EXCEPT !.user = u]), UNCHANGED <<rows, holder, sessions, codes>>
        PROVE  (TypeOK /\ AccountsInv)'
    <2> DEFINE op == [Op(r) EXCEPT !.user = u]
    <2>1. /\ op \in Operation /\ op.kind = Op(r).kind /\ op.email = Op(r).email
          /\ op.nickname = Op(r).nickname /\ op.password = Op(r).password /\ op.user = u
      BY <1>1 DEF Operation
    <2>2. Proceed(r, op)
      BY <1>4
    <2> HIDE DEF op
    <2>3. LockedFor(r)
      BY <1>4 DEF LockedFor, TypeOK
    <2>4. ASSUME NEW now, now = Following(op.kind, Now(r)),
                 Comes(r, op, now, req[r].consumed, req[r].done, "none")
          PROVE  Told(r)' /\ Locks(r)' /\ Takes(r)'
      BY <1>1, <1>2, <1>4, <2>1, <2>4
         DEF Comes, Mine, Told, Locks, Takes, Over, HasChecked, Claims, WellAsked
    <2> QED BY <1>1, <1>2, <1>4, <2>1, <2>2, <2>3, <2>4, ProceedKeeps
  <1> QED BY <1>3, <1>4 DEF Compare

(* A step that fails ends its request: with an error only if that request  *)
(* may still give one.                                                     *)
LEMMA FailKeeps ==
  ASSUME TypeOK, AccountsInv, NEW r \in Requests, Fail(r)
  PROVE  (TypeOK /\ AccountsInv)'
  <1>1. Now(r) # "end" /\ Mine(r)
    BY Typed, Apart DEF Fail
  <1>2. CASE Now(r) = "compare" /\ Op(r).kind # "deleteOwn"
    <2>1. End(r, "refused") /\ Op(r).kind \in {"reset", "signIn"}
      BY <1>2, Typed, StepsOf DEF Fail
    <2>2. (req[r].done <=> Op(r).kind = "reset") /\ (req[r].consumed => Op(r).kind = "reset")
      BY <1>1, <1>2, <2>1 DEF Mine, Told, Over, Confirmations
    <2> QED BY <1>1, <2>1, <2>2, EndKeeps
  <1>3. CASE ~(Now(r) = "compare" /\ Op(r).kind # "deleteOwn")
    <2>1. End(r, "error")
      BY <1>3, Typed DEF Fail
    <2>2. req[r].done => Op(r).kind \notin {"change", "email", "profile", "deleteOwn"}
      BY <1>1, StepsOf DEF Mine, Told, Over
    <2> QED BY <1>1, <2>1, <2>2, EndKeeps
  <1> QED BY <1>2, <1>3

(* The second rollback of updatePartialUserData turns its refusal into an  *)
(* error, with nothing done.                                               *)
LEMMA RollBackTwiceKeeps ==
  ASSUME TypeOK, AccountsInv, NEW r \in Requests, RollBackTwice(r)
  PROVE  (TypeOK /\ AccountsInv)'
  <1>1. Now(r) = "claim" /\ Op(r).kind = "profile" /\ Mine(r) /\ End(r, "error")
    BY Typed, Apart DEF RollBackTwice
  <1>2. ~req[r].done
    BY <1>1 DEF Mine, Told, Over
  <1> QED BY <1>1, <1>2, EndKeeps

(* An address or a nickname is claimed: the constraint has looked at what  *)
(* is committed and has waited for what is not.  Who loses an address that *)
(* it had found free has lost it to one who took it since.                 *)
LEMMA ClaimKeeps ==
  ASSUME TypeOK, AccountsInv, NEW r \in Requests, Claim(r)
  PROVE  (TypeOK /\ AccountsInv)'
  <1> DEFINE u == IF Op(r).kind = "register" THEN NextId ELSE Op(r).user
             op == [Op(r) EXCEPT !.user = u]
             rivals == {v \in Users \ {u} : Exists(v) /\ Clash(rows[v], NewRow(op))}
  <1>1. /\ Now(r) = "claim" /\ Op(r).kind \in {"register", "email", "profile"}
        /\ Op(r) \in Operation /\ Mine(r) /\ Common
    BY Typed, StepsOf, Apart DEF Claim
  <1>2. ~req[r].done /\ Following(Op(r).kind, Now(r)) = "commit"
        /\ (req[r].consumed => Op(r).kind \in {"register", "email"})
    BY <1>1 DEF Mine, Told, Over, Following, Confirmations
  <1>3. /\ holder[u] \in {Nobody, r} /\ ~Undecided(r, NewRow(op))
        /\ Op(r).kind = "register" => FreeIds # {}
        /\ Op(r).kind = "profile" => Exists(u)
        /\ \/ rivals = {} /\ Lock(r, u) /\ Proceed(r, op) /\ UNCHANGED <<rows, sessions, codes>>
           \/ rivals # {} /\ End(r, IF Op(r).kind = "register" THEN "error" ELSE "refused")
    BY DEF Claim
  <1>4. /\ u \in Users
        /\ Op(r).kind = "register" => rows[u] = Unborn
        /\ Op(r).kind # "register" => u = Op(r).user /\ Exists(u)
    <2>1. CASE Op(r).kind = "register"
      <3>1. NextId \in FreeIds
        BY <1>3, <2>1 DEF NextId
      <3> QED BY <2>1, <3>1 DEF FreeIds
    <2>2. CASE Op(r).kind # "register"
      <3>1. Op(r).kind = "email" => HasChecked(r)
        BY <1>1 DEF HasChecked
      <3> QED BY <1>1, <1>3, <2>2, <3>1 DEF Mine, Told, Locks, WellAsked
    <2> QED BY <2>1, <2>2
  <1> HIDE DEF u
  <1>5. /\ op \in Operation /\ op.kind = Op(r).kind /\ op.email = Op(r).email
        /\ op.nickname = Op(r).nickname /\ op.password = Op(r).password /\ op.user = u
    BY <1>1, <1>4 DEF Operation
  <1> HIDE DEF op
  <1>6. CASE rivals # {} /\ End(r, IF Op(r).kind = "register" THEN "error" ELSE "refused")
    <2>1. CASE Op(r).kind = "register"
      BY <1>1, <1>2, <1>6, <2>1, EndKeeps
    <2>2. CASE Op(r).kind = "profile"
      BY <1>1, <1>2, <1>6, <2>2, EndKeeps
    <2>3. CASE Op(r).kind = "email"
      <3>1. PICK v \in Users \ {u} : Exists(v) /\ Clash(rows[v], NewRow(op))
        BY <1>6
      <3>2. rows[u] \in RowType
        BY <1>1, <1>4, <2>3 DEF Common, Exists
      <3>3. NewRow(op).email = Op(r).email /\ NewRow(op).nickname = rows[u].nickname
        BY <1>5, <2>3, <3>2 DEF NewRow, RowType
      <3>4. rows[v].nickname # rows[u].nickname
        BY <1>1, <1>4, <2>3, <3>1 DEF Common, AccountsAreDistinct
      <3>5. rows[v].email = Op(r).email
        BY <3>1, <3>3, <3>4 DEF Clash
      <3>6. \E q \in Requests \ {r} : Took(q, Op(r).email)
        BY <1>1, <2>3, <3>1, <3>5 DEF Mine, Takes
      <3>7. End(r, "refused")
        BY <1>6, <2>3
      <3> QED BY <1>1, <1>2, <2>3, <3>6, <3>7, EndKeeps
    <2> QED BY <1>1, <2>1, <2>2, <2>3
  <1>7. CASE rivals = {} /\ Lock(r, u) /\ Proceed(r, op) /\ UNCHANGED <<rows, sessions, codes>>
    <2>1. /\ holder' = [holder EXCEPT ![u] = r]
          /\ holder \in [Users -> Requests \cup {Nobody}]
      BY <1>7 DEF Lock, TypeOK
    <2>2. LockedFor(r) /\ holder'[u] = r
      BY <1>3, <1>4, <2>1, NobodyIsNone DEF LockedFor
    <2>3. \A v \in Users : holder'[v] = r => v \in {u, Admin}
      BY <1>1, <1>4, <2>1 DEF Mine, Locks, HasChecked
    <2>4. \A q \in Requests \ {r} : Claims(q) => ~Clash(NewRow(Op(q)), NewRow(op))
      BY <1>3, Typed DEF Undecided, Claims
    <2>5. ASSUME Comes(r, op, "commit", req[r].consumed, req[r].done, "none")
          PROVE  Told(r)' /\ Locks(r)' /\ Takes(r)'
      <3>1. Op(r)' = op /\ Now(r)' = "commit" /\ HasChecked(r)' /\ Claims(r)' /\ ~Over(r)'
        BY <1>1, <1>5, <2>5 DEF Comes, HasChecked, Claims, Over
      <3>2. Told(r)'
        BY <1>1, <1>2, <1>4, <1>5, <2>5, <3>1 DEF Comes, Mine, Told, WellAsked
      <3>3. Locks(r)'
        BY <1>1, <1>4, <1>5, <1>7, <2>2, <2>3, <3>1 DEF Locks, Exists
      <3>4. NewRow(Op(r))' = NewRow(op)
        BY <1>7, <3>1 DEF NewRow
      <3>5. \A q \in Requests \ {r} :
               Claims(q)' = Claims(q) /\ NewRow(Op(q))' = NewRow(Op(q))
        BY <1>7, <2>5 DEF Comes, Others, Claims, Now, Op, NewRow
      <3>6. \A v \in Users \ {u} : Exists(v)' => ~Clash(rows[v], NewRow(op))
        BY <1>7 DEF Exists
      <3>7. Takes(r)'
        BY <1>5, <1>7, <2>4, <3>1, <3>4, <3>5, <3>6 DEF Takes, Clash
      <3> QED BY <3>2, <3>3, <3>7
    <2> QED BY <1>1, <1>2, <1>5, <1>7, <2>2, <2>5, ProceedKeeps
  <1> QED BY <1>3, <1>6, <1>7

-----------------------------------------------------------------------------
(* Steps that open and revoke sessions, and the commit.                    *)

(* A registration revokes the sessions of the account it has created.      *)
LEMMA RevokeAllKeeps ==
  ASSUME TypeOK, AccountsInv, NEW r \in Requests, RevokeAll(r)
  PROVE  (TypeOK /\ AccountsInv)'
  <1>1. /\ Now(r) = "revoke" /\ Op(r).kind = "register" /\ Op(r) \in Operation
        /\ Mine(r) /\ Common
    BY Typed, StepsOf, Apart DEF RevokeAll
  <1>2. req[r].done /\ Following(Op(r).kind, Now(r)) = "session"
    BY <1>1 DEF Mine, Told, Over, Following
  <1>3. /\ sessions' = {s \in sessions : s.user # Op(r).user} /\ Proceed(r, Op(r))
        /\ UNCHANGED <<rows, holder, codes>>
    BY DEF RevokeAll
  <1>4. Comes(r, Op(r), "session", req[r].consumed, req[r].done, "none")
    BY <1>1, <1>2, <1>3, ProceedEffect
  <1>5. Told(r)' /\ Answers(r)' /\ Locks(r)' /\ Takes(r)'
    BY <1>1, <1>2, <1>3, <1>4
       DEF Comes, Mine, Told, Answers, Locks, Takes, Over, HasChecked, Claims
  <1>6. /\ LockedFor(r) /\ Mine(r)' /\ Others(r) /\ req' \in [Requests -> RequestType]
        /\ req'[r].op = req[r].op /\ req'[r].done = req[r].done
    BY <1>3, <1>4, <1>5 DEF LockedFor, TypeOK, Mine, Comes, Op
  <1>7. /\ sessions' \subseteq SessionType
        /\ \A s \in sessions' : Exists(s.user) /\ (Outdated(s) => s.late)
    BY <1>1, <1>3 DEF Common
  <1> QED BY <1>3, <1>6, <1>7, SessionStepKeeps

(* A session that is outdated from the start is a late one.                *)
LEMMA OpenSessionKeeps ==
  ASSUME TypeOK, AccountsInv, NEW r \in Requests, OpenSession(r)
  PROVE  (TypeOK /\ AccountsInv)'
  <1>1. /\ Now(r) = "session" /\ Op(r).kind \in {"register", "reset", "signIn"}
        /\ Op(r) \in Operation /\ Mine(r) /\ Common /\ req[r] \in RequestType
    BY Typed, StepsOf, Apart DEF OpenSession
  <1>2. /\ Op(r).user \in Users /\ Op(r).email \in Emails /\ Op(r).password \in Passwords
        /\ req[r].consumed => Op(r).kind \in Confirmations
    BY <1>1 DEF Mine, Told, WellAsked, Over
  <1>3. CASE End(r, "error")
    BY <1>1, <1>3, EndKeeps
  <1>4. CASE /\ Exists(Op(r).user)
             /\ sessions' = sessions \cup {Session(r, Op(r).user, Op(r).email, Op(r).password)}
             /\ req' = [req EXCEPT ![r] = [req[r] EXCEPT !.todo = <<>>, !.answer = "ok",
                                                         !.done = TRUE]]
             /\ UNCHANGED <<rows, holder, codes>>
    <2> DEFINE next == [req[r] EXCEPT !.todo = <<>>, !.answer = "ok", !.done = TRUE]
               new == Session(r, Op(r).user, Op(r).email, Op(r).password)
    <2>1. req' = [req EXCEPT ![r] = next] /\ <<>> \in Seq(Steps)
      BY <1>4, EmptySeq
    <2>2. /\ next \in RequestType /\ next.op = Op(r) /\ next.todo = <<>>
          /\ next.consumed = req[r].consumed /\ next.done = TRUE /\ next.answer = "ok"
      BY <1>1, <2>1 DEF RequestType, Op
    <2> HIDE DEF next
    <2>3. Comes(r, Op(r), "end", req[r].consumed, TRUE, "ok")
      BY <1>1, <2>1, <2>2, EndEffect
    <2>4. Told(r)' /\ Answers(r)' /\ Locks(r)' /\ Takes(r)'
      BY <1>1, <1>2, <1>4, <2>3
         DEF Comes, Mine, Told, Answers, Locks, Takes, Over, HasChecked, Claims
    <2>5. /\ LockedFor(r) /\ Mine(r)' /\ Others(r) /\ req' \in [Requests -> RequestType]
          /\ req'[r].op = req[r].op /\ req'[r].done
      BY <1>4, <2>3, <2>4 DEF LockedFor, TypeOK, Mine, Comes, Op
    <2>6. new \in SessionType /\ Exists(new.user) /\ (Outdated(new) => new.late)
      BY <1>2, <1>4 DEF Session, SessionType, Outdated
    <2>7. /\ sessions' \subseteq SessionType
          /\ \A s \in sessions' : Exists(s.user) /\ (Outdated(s) => s.late)
      BY <1>1, <1>4, <2>6 DEF Common
    <2> QED BY <1>4, <2>5, <2>7, SessionStepKeeps
  <1> QED BY <1>3, <1>4 DEF OpenSession

(* The row that is written.                                                *)
LEMMA NewRowOf ==
  ASSUME TypeOK, AccountsInv, NEW r \in Requests, Now(r) = "commit"
  PROVE  LET op == Op(r)
             u == Op(r).user
             new == NewRow(Op(r))
         IN  /\ u \in Users /\ holder[u] = r
             /\ IF op.kind \in {"deleteOwn", "deleteUser"} THEN new = Gone
                ELSE /\ new \in RowType
                     /\ op.kind = "register" => rows[u] = Unborn
                     /\ op.kind # "register" => Exists(u)
                     /\ op.kind \in {"register", "email"} => new.email = op.email
                     /\ op.kind \notin {"register", "email"} => new.email = rows[u].email
                     /\ op.kind \notin {"register", "profile"} =>
                           new.nickname = rows[u].nickname
                     /\ op.kind \notin {"register", "reset", "change"} =>
                           new.password = rows[u].password
  <1>1. /\ Mine(r) /\ Common /\ HasChecked(r) /\ Op(r).kind \in Kinds \ {"signIn"}
    BY Apart, StepsOf DEF HasChecked
  <1>2. /\ Op(r).user \in Users /\ holder[Op(r).user] = r
        /\ Op(r).kind = "register" =>
              /\ rows[Op(r).user] = Unborn /\ Op(r).nickname \in Nicknames
              /\ Op(r).email \in Emails /\ Op(r).password \in Passwords
        /\ Op(r).kind \notin {"register", "deleteOwn"} =>
              Exists(Op(r).user) /\ rows[Op(r).user] \in RowType
        /\ Op(r).kind = "email" => Op(r).email \in Emails
        /\ Op(r).kind = "profile" => Op(r).nickname \in Nicknames
        /\ Op(r).kind \in {"reset", "change"} => Op(r).password \in Passwords
    BY <1>1 DEF Mine, Told, Locks, WellAsked, Common, Exists
  <1> QED BY <1>1, <1>2, KindNames DEF NewRow, RowType

(* What a commit does.                                                     *)
LEMMA CommitEffect ==
  ASSUME TypeOK, AccountsInv, NEW r \in Requests, Commit(r)
  PROVE  /\ Now(r) = "commit" /\ rows' = [rows EXCEPT ![Op(r).user] = NewRow(Op(r))]
         /\ Mine(r)' /\ LockedFor(r) /\ Others(r) /\ req' \in [Requests -> RequestType]
         /\ Op(r)' = Op(r) /\ req'[r].done /\ ~Claims(r)' /\ UNCHANGED codes
  <1>1. /\ Now(r) = "commit" /\ Op(r) \in Operation /\ Op(r).kind \in Kinds \ {"signIn"}
        /\ Mine(r) /\ req[r] \in RequestType /\ req[r].answer = "none"
        /\ req[r].todo # <<>> /\ req[r].todo \in Seq(Steps)
    BY Typed, StepsOf, Apart DEF Commit, RequestType
  <1> DEFINE a == IF Tail(req[r].todo) = <<>> THEN "ok" ELSE req[r].answer
             next == [req[r] EXCEPT !.todo = Tail(req[r].todo), !.done = TRUE, !.answer = a]
  <1>2. /\ rows' = [rows EXCEPT ![Op(r).user] = NewRow(Op(r))] /\ UNCHANGED codes
        /\ holder' = [u \in Users |-> IF holder[u] = r THEN Nobody ELSE holder[u]]
        /\ req' = [req EXCEPT ![r] = next]
    BY DEF Commit
  <1>3. Tail(req[r].todo) \in Seq(Steps) /\ a \in {"none", "ok"}
    BY <1>1, HeadTailProperties
  <1> HIDE DEF a
  <1>4. /\ next \in RequestType /\ next.op = Op(r) /\ next.todo = Tail(req[r].todo)
        /\ next.consumed = req[r].consumed /\ next.done = TRUE /\ next.answer = a
    BY <1>1, <1>3 DEF RequestType, Op
  <1> HIDE DEF next
  <1>5. Comes(r, Op(r), Following(Op(r).kind, Now(r)), req[r].consumed, TRUE, a)
    BY <1>1, <1>2, <1>4, Advance
  <1>6. a = IF Following(Op(r).kind, Now(r)) = "end" THEN "ok" ELSE "none"
    <2>1. req'[r].todo = Tail(req[r].todo)
      BY <1>2, <1>4 DEF TypeOK
    <2> QED BY <1>1, <1>5, <2>1 DEF a, Comes
  <1>7. /\ Op(r).kind \in {"register", "reset"} => Following(Op(r).kind, Now(r)) = "clear"
        /\ Op(r).kind \in {"block", "deleteUser", "unblock"} =>
              Following(Op(r).kind, Now(r)) = "mail"
        /\ Op(r).kind \in {"change", "email", "profile", "deleteOwn"} =>
              Following(Op(r).kind, Now(r)) = "end"
    BY <1>1 DEF Following
  <1>8. PICK now : now = Following(Op(r).kind, Now(r))
    OBVIOUS
  <1>9. /\ Op(r)' = Op(r) /\ Now(r)' = now /\ now \in {"clear", "mail", "end"}
        /\ ~HasChecked(r)' /\ ~Claims(r)' /\ (now # "end" <=> Over(r)')
    BY <1>1, <1>5, <1>7, <1>8, KindNames DEF Comes, HasChecked, Claims, Over
  <1>10. \A u \in Users : holder'[u] # r
    BY <1>2, NobodyIsNone
  <1>11. Told(r)'
    BY <1>1, <1>5, <1>6, <1>8, <1>9 DEF Comes, Mine, Told
  <1>12. Answers(r)'
    BY <1>5, <1>6 DEF Comes, Answers
  <1>13. Locks(r)' /\ Takes(r)'
    BY <1>9, <1>10 DEF Locks, Takes
  <1>14. LockedFor(r)
    BY <1>2 DEF LockedFor, TypeOK
  <1> QED BY <1>1, <1>2, <1>5, <1>9, <1>11, <1>12, <1>13, <1>14 DEF Mine, Comes

(* It leaves the rows that others have locked, and takes only what was its *)
(* own: the others keep what they know, and what they are about to take.   *)
LEMMA OthersSurviveCommit ==
  ASSUME TypeOK, AccountsInv, NEW r \in Requests, Commit(r), NEW q \in Requests \ {r}
  PROVE  Mine(q)'
  <1> DEFINE u == Op(r).user
             new == NewRow(Op(r))
  <1>1. /\ Now(r) = "commit" /\ rows' = [rows EXCEPT ![u] = new]
        /\ LockedFor(r) /\ Others(r) /\ Op(r)' = Op(r) /\ req'[r].done /\ ~Claims(r)'
    BY CommitEffect
  <1>2. /\ Told(q)' /\ Answers(q)'
        /\ Op(q)' = Op(q) /\ Now(q)' = Now(q)
        /\ HasChecked(q)' = HasChecked(q) /\ Claims(q)' = Claims(q)
        /\ \A v \in Users : holder'[v] = q <=> holder[v] = q
        /\ \A p \in Requests : \A e : Took(p, e) => Took(p, e)'
    BY <1>1, OthersTold DEF Op
  <1>3. Common /\ (\A p \in Requests : Mine(p)) /\ u \in Users /\ holder[u] = r
    BY <1>1, Apart, NewRowOf
  <1>4. \A v \in Users \ {u} : rows'[v] = rows[v] /\ Exists(v)' = Exists(v)
    BY <1>1, <1>3 DEF Common, Exists
  <1>5. rows'[u] = new
    BY <1>1, <1>3 DEF Common
  <1>6. \A p \in Requests \ {r} : HasChecked(p) =>
           Op(p).user \in Users \ {u} /\ holder[Op(p).user] = p
    BY <1>3, StepsOf DEF HasChecked, Mine, Told, Locks, WellAsked
  <1>7. Locks(q)'
    <2>1. holder[Admin] = q => rows'[Admin] = rows[Admin]
      BY <1>3, <1>4, NobodyIsNone
    <2>2. HasChecked(q) =>
             /\ holder'[Op(q).user] = q /\ rows'[Op(q).user] = rows[Op(q).user]
             /\ Op(q).kind = "register" => rows[Op(q).user] = Unborn
             /\ Op(q).kind \notin {"register", "deleteOwn"} =>
                   rows[Op(q).user] \notin {Unborn, Gone}
      BY <1>2, <1>3, <1>4, <1>6 DEF Mine, Locks, Exists
    <2>3. Op(q).kind \in {"block", "deleteUser"} /\ Now(q) \in {"lock", "commit"} =>
            holder'[Admin] = q /\ rows'[Admin].password = Op(q).password
      BY <1>2, <1>3, <2>1, NobodyIsNone DEF Mine, Locks
    <2>4. \A v \in Users : holder'[v] = q =>
            /\ v \in {Op(q).user, Admin}
            /\ HasChecked(q) \/ (Op(q).kind \in {"block", "deleteUser"} /\ Now(q) = "lock")
      BY <1>2, <1>3 DEF Mine, Locks
    <2> QED BY <1>2, <2>2, <2>3, <2>4 DEF Locks, Exists
  <1>8. \A p \in Requests \ {r} : Claims(p) =>
           HasChecked(p) /\ Claims(p)' = Claims(p) /\ NewRow(Op(p))' = NewRow(Op(p))
    <2> TAKE p \in Requests \ {r}
    <2> HAVE Claims(p)
    <2>1. HasChecked(p) /\ Op(p)' = Op(p) /\ Claims(p)' = Claims(p)
      BY <1>1 DEF HasChecked, Claims, Others, Op, Now
    <2>2. rows'[Op(p).user] = rows[Op(p).user]
      BY <1>4, <1>6, <2>1
    <2> QED BY <2>1, <2>2 DEF NewRow
  <1>9. Takes(q)'
    <2>1. ASSUME Claims(q), NEW v \in Users \ {Op(q).user}, Exists(v)'
          PROVE  ~Clash(rows'[v], NewRow(Op(q)))
      <3>1. CASE v # u
        BY <1>3, <1>4, <2>1, <3>1 DEF Mine, Takes
      <3>2. CASE v = u /\ Claims(r)
        BY <1>3, <1>5, <2>1, <3>2 DEF Mine, Takes
      <3>3. CASE v = u /\ ~Claims(r)
        <4>1. new # Gone /\ Op(r).kind \notin {"register", "email", "profile"}
          BY <1>1, <1>5, <2>1, <3>3 DEF Exists, Claims
        <4>2. Exists(u) /\ new.email = rows[u].email /\ new.nickname = rows[u].nickname
          BY <1>1, <4>1, NewRowOf
        <4>3. ~Clash(rows[u], NewRow(Op(q)))
          BY <1>3, <2>1, <3>3, <4>2 DEF Mine, Takes
        <4> QED BY <1>5, <3>3, <4>2, <4>3 DEF Clash
      <3> QED BY <3>1, <3>2, <3>3
    <2>2. ASSUME Claims(q), NEW p \in Requests \ {q}, Claims(p)'
          PROVE  ~Clash(NewRow(Op(p)), NewRow(Op(q)))'
      <3>1. p # r /\ Claims(p)
        BY <1>1, <2>2 DEF Others, Claims, Now, Op
      <3>2. ~Clash(NewRow(Op(p)), NewRow(Op(q)))
        BY <1>3, <2>2, <3>1 DEF Mine, Takes
      <3> QED BY <1>8, <2>2, <3>1, <3>2 DEF Clash
    <2>3. ASSUME Op(q).kind = "email" /\ Now(q) \in {"consume", "claim"},
                 NEW v \in Users, Exists(v)', rows'[v].email = Op(q).email
          PROVE  \E p \in Requests \ {q} : Took(p, Op(q).email)'
      <3>1. CASE v # u \/ (Exists(u) /\ new.email = rows[u].email)
        <4>1. PICK p \in Requests \ {q} : Took(p, Op(q).email)
          BY <1>3, <1>4, <1>5, <2>3, <3>1 DEF Mine, Takes
        <4> QED BY <1>2, <4>1 DEF Took
      <3>2. CASE v = u /\ ~(Exists(u) /\ new.email = rows[u].email)
        <4>1. Op(r).kind \in {"register", "email"} /\ new.email = Op(r).email
          BY <1>1, <1>5, <2>3, <3>2, NewRowOf DEF Exists
        <4>2. Took(r, Op(q).email)'
          BY <1>1, <1>2, <1>5, <2>3, <3>2, <4>1 DEF Took
        <4> QED BY <4>2
      <3> QED BY <3>1, <3>2
    <2>4. Claims(q) => NewRow(Op(q))' = NewRow(Op(q))
      BY <1>8
    <2> QED BY <1>2, <2>1, <2>2, <2>3, <2>4 DEF Takes, Clash
  <1> QED BY <1>2, <1>7, <1>9 DEF Mine

(* The sessions that are left are of accounts that are there, and those of *)
(* the account that has changed know of the change.                        *)
LEMMA SessionsSurviveCommit ==
  ASSUME TypeOK, AccountsInv, NEW r \in Requests, Commit(r), NEW s \in sessions'
  PROVE  s \in SessionType /\ Exists(s.user)' /\ (Outdated(s)' => s.late)
  <1> DEFINE u == Op(r).user
             new == NewRow(Op(r))
             others == {t \in sessions : t.user # u}
  <1>1. /\ Now(r) = "commit" /\ rows' = [rows EXCEPT ![u] = new] /\ Common
        /\ Op(r) \in Operation /\ Op(r).kind \in Kinds \ {"signIn"} /\ u \in Users
        /\ rows'[u] = new
        /\ sessions' = others \cup {Renewed(t, Op(r)) : t \in Spared(Op(r)) \ others}
    BY CommitEffect, Apart, NewRowOf, Typed, StepsOf DEF Commit, Common
  <1>2. \A v \in Users \ {u} : rows'[v] = rows[v]
    BY <1>1 DEF Common
  <1>3. CASE s \in others
    <2>1. s \in sessions /\ s.user \in Users \ {u}
      BY <1>1, <1>3 DEF Common, SessionType
    <2> QED BY <1>1, <1>2, <2>1 DEF Common, Exists, Outdated
  <1>4. ASSUME NEW t \in Spared(Op(r)) \ others, s = Renewed(t, Op(r))
        PROVE  s \in SessionType /\ Exists(s.user)' /\ (Outdated(s)' => s.late)
    <2>1. t \in sessions /\ t.user = u /\ t \in SessionType /\ Exists(u)
          /\ (Outdated(t) => t.late)
      BY <1>1, <1>4 DEF Common, Spared
    <2>2. Op(r).kind \in {"profile", "unblock", "change", "email"}
      <3>1. Op(r).kind # "register"
        BY <1>1, <2>1, NewRowOf DEF Exists
      <3> QED BY <1>1, <1>4, <3>1 DEF Spared
    <2>3. new \in RowType /\ rows'[u] \notin {Unborn, Gone}
      BY <1>1, <2>2, NewRowOf, NobodyIsNone
    <2>4. CASE Op(r).kind \in {"profile", "unblock"}
      <3>1. s = t
        BY <1>4, <2>4 DEF Renewed
      <3>2. new.email = rows[u].email /\ new.password = rows[u].password
        BY <1>1, <2>4, NewRowOf
      <3> QED BY <1>1, <2>1, <2>3, <3>1, <3>2 DEF Outdated, Exists
    <2>5. CASE Op(r).kind \in {"change", "email"}
      <3>1. t.id = u
        BY <1>4, <2>5 DEF Spared
      <3>2. s = [t EXCEPT !.email = new.email, !.password = new.password]
        BY <1>4, <2>5, <3>1 DEF Renewed
      <3>3. s \in SessionType /\ s.user = u /\ s.email = new.email /\ s.password = new.password
        BY <2>1, <2>3, <3>2 DEF SessionType, RowType
      <3> QED BY <1>1, <2>3, <3>3 DEF Outdated, Exists
    <2> QED BY <2>2, <2>4, <2>5
  <1> QED BY <1>1, <1>3, <1>4

(* A commit writes the row it has locked, and what others were told and    *)
(* have checked of their own rows stays true.                              *)
LEMMA CommitKeeps ==
  ASSUME TypeOK, AccountsInv, NEW r \in Requests, Commit(r)
  PROVE  (TypeOK /\ AccountsInv)'
  <1> DEFINE u == Op(r).user
             new == NewRow(Op(r))
  <1>1. /\ Now(r) = "commit" /\ rows' = [rows EXCEPT ![u] = new]
        /\ Mine(r)' /\ LockedFor(r) /\ req' \in [Requests -> RequestType]
        /\ UNCHANGED codes /\ Common /\ Mine(r) /\ u \in Users
    BY CommitEffect, Apart, NewRowOf
  <1>2. \A q \in Requests : Mine(q)'
    BY <1>1, OthersSurviveCommit
  <1>3. new \in RowType \cup {Gone} /\ rows' \in [Users -> RowType \cup {Unborn, Gone}]
    BY <1>1, NewRowOf DEF Common
  <1>4. rows'[u] = new /\ \A v \in Users \ {u} : rows'[v] = rows[v] /\ Exists(v)' = Exists(v)
    BY <1>1 DEF Common, Exists
  <1>5. Exists(Admin)'
    <2>1. u = Admin => Op(r).kind \notin {"deleteOwn", "deleteUser"}
      BY <1>1 DEF Mine, Told
    <2>2. u = Admin => new \in RowType
      BY <1>1, <2>1, NewRowOf
    <2> QED BY <1>1, <1>4, <2>2, NobodyIsNone DEF Common, Exists
  <1>6. AccountsAreDistinct'
    <2>1. ASSUME NEW v \in Users \ {u}, Exists(v), rows'[u] \notin {Unborn, Gone}
          PROVE  rows[v].email # new.email /\ rows[v].nickname # new.nickname
      <3>1. CASE Claims(r)
        BY <1>1, <2>1, <3>1 DEF Mine, Takes, Clash
      <3>2. CASE ~Claims(r)
        <4>1. new # Gone /\ Op(r).kind \notin {"register", "email", "profile"}
          BY <1>1, <1>4, <2>1, <3>2 DEF Exists, Claims
        <4>2. Exists(u) /\ new.email = rows[u].email /\ new.nickname = rows[u].nickname
          BY <1>1, <4>1, NewRowOf
        <4> QED BY <1>1, <2>1, <4>2 DEF Common, AccountsAreDistinct
      <3> QED BY <3>1, <3>2
    <2>2. ASSUME NEW v \in Users, NEW w \in Users, v # w, Exists(v)', Exists(w)'
          PROVE  rows'[v].email # rows'[w].email /\ rows'[v].nickname # rows'[w].nickname
      <3>1. CASE v # u /\ w # u
        BY <1>1, <1>4, <2>2, <3>1 DEF Common, AccountsAreDistinct
      <3>2. CASE v = u
        BY <1>4, <2>1, <2>2, <3>2 DEF Exists
      <3>3. CASE w = u
        BY <1>4, <2>1, <2>2, <3>3 DEF Exists
      <3> QED BY <3>1, <3>2, <3>3
    <2> QED BY <2>2 DEF AccountsAreDistinct
  <1>7. \A s \in sessions' : s \in SessionType /\ Exists(s.user)' /\ (Outdated(s)' => s.late)
    BY SessionsSurviveCommit
  <1>8. Common'
    BY <1>1, <1>3, <1>5, <1>6, <1>7 DEF Common, LockedFor
  <1>9. ByRequest'
    BY <1>2, <1>8 DEF ByRequest
  <1> QED BY <1>9, Together, PTL

-----------------------------------------------------------------------------
(* The theorems.                                                           *)

(* Where each operation begins.                                            *)
LEMMA FirstStep ==
  ASSUME NEW k \in Kinds
  PROVE  /\ Rest(k, Script[k]) /\ Script[k] # <<>> /\ Script[k] \in Seq(Steps)
         /\ Head(Script[k]) \in {"consume", "lookUp", "claim", "compare", "administrator",
                                  "verify"}
         /\ Head(Script[k]) = "consume" => k = "register"
         /\ Head(Script[k]) = "claim" => k = "profile"
         /\ Head(Script[k]) = "compare" => k \in {"deleteOwn", "signIn"}
  <1>1. Rest(k, Script[k])
    <2>1. Script[k] \in Seq(Steps) /\ 0 \in 0..Len(Script[k])
      BY ScriptTable
    <2>2. SubSeq(Script[k], 0 + 1, Len(Script[k])) = Script[k]
      BY <2>1, SubSeqFull
    <2> QED BY <2>1, <2>2 DEF Rest
  <1>2. Script[k] \in Seq(Steps) /\ Script[k] # <<>>
    BY ScriptTable
  <1>3. CASE k \in {"register", "reset", "change", "email", "profile"}
    BY <1>1, <1>2, <1>3 DEF Script, UpdatePassword
  <1>4. CASE k \in {"deleteOwn", "block", "deleteUser", "unblock", "signIn"}
    BY <1>1, <1>2, <1>4 DEF Script
  <1> QED BY <1>3, <1>4, KindNames

(* The invariant holds of the requests as they are made.                   *)
LEMMA InitHolds == Init => TypeOK /\ AccountsInv
  <1> SUFFICES ASSUME Init PROVE ByRequest
    BY Together
  <1>1. PICK op \in [Requests -> UNION {Asked[r] : r \in Requests}] :
           /\ \A r \in Requests : op[r] \in Asked[r]
           /\ req = [r \in Requests |->
                 [op |-> op[r], todo |-> Script[op[r].kind],
                  consumed |-> FALSE, done |-> FALSE, answer |-> "none"]]
           /\ codes = {CodeOf(op[r]) : r \in {q \in Requests : op[q].kind \in Confirmations}}
    BY DEF Init
  <1>2. \A r \in Requests :
           op[r] \in Operation /\ WellAsked(op[r]) /\ op[r].kind \in Kinds
    <2> TAKE r \in Requests
    <2>1. Asked[r] \subseteq {o \in Operation : WellAsked(o)}
      BY AccountsAssumption
    <2>2. op[r] \in Operation /\ WellAsked(op[r])
      BY <1>1, <2>1
    <2> QED BY <2>2 DEF Operation
  <1>3. \A r \in Requests :
           /\ req[r] \in RequestType /\ req[r].op = op[r]
           /\ req[r].todo = Script[op[r].kind] /\ req[r].answer = "none"
           /\ req[r].consumed = FALSE /\ req[r].done = FALSE
    BY <1>1, <1>2, FirstStep DEF RequestType
  <1>4. ASSUME NEW r \in Requests
        PROVE  Mine(r)
    <2> DEFINE now == Head(Script[op[r].kind])
    <2>1. /\ Op(r) = op[r] /\ req[r].todo = Script[op[r].kind] /\ ~req[r].consumed
          /\ ~req[r].done /\ req[r].answer = "none"
      BY <1>3 DEF Op
    <2>2. /\ Rest(op[r].kind, req[r].todo) /\ req[r].todo # <<>>
          /\ now \in {"consume", "lookUp", "claim", "compare", "administrator", "verify"}
          /\ now = "consume" => op[r].kind = "register"
          /\ now = "claim" => op[r].kind = "profile"
          /\ now = "compare" => op[r].kind \in {"deleteOwn", "signIn"}
      BY <1>2, <2>1, FirstStep
    <2>3. Now(r) = now
      BY <2>1, <2>2 DEF Now
    <2> HIDE DEF now
    <2>4. ~HasChecked(r) /\ ~Claims(r) /\ ~Over(r)
      BY <2>1, <2>2, <2>3 DEF HasChecked, Claims, Over
    <2>5. Told(r)
      BY <1>2, <2>1, <2>2, <2>3, <2>4 DEF Told
    <2>6. Locks(r)
      BY <2>1, <2>2, <2>3, <2>4, NobodyIsNone DEF Locks, Init
    <2>7. Answers(r) /\ Takes(r)
      BY <2>1, <2>2, <2>3, <2>4 DEF Answers, Takes
    <2> QED BY <2>5, <2>6, <2>7 DEF Mine
  <1>5. Common
    <2>1. /\ rows \in [Users -> RowType \cup {Unborn, Gone}]
          /\ holder \in [Users -> Requests \cup {Nobody}]
          /\ rows = FirstRows
      BY AccountsAssumption DEF Init
    <2>2. req \in [Requests -> RequestType]
      BY <1>1, <1>3
    <2>3. codes \subseteq [kind: Confirmations, about: Emails \cup Users]
      BY <1>1, <1>2 DEF CodeOf, WellAsked, Confirmations
    <2>4. ASSUME NEW s \in sessions
          PROVE  s \in SessionType /\ Exists(s.user) /\ (Outdated(s) => s.late)
      <3>1. PICK u \in Users : Exists(u) /\ s = Session(u, u, rows[u].email, rows[u].password)
        BY DEF Init
      <3>2. rows[u] \in RowType
        BY <2>1, <3>1 DEF Exists
      <3> QED BY <3>1, <3>2 DEF Session, SessionType, RowType, Outdated
    <2>5. Exists(Admin)
      BY <2>1, AccountsAssumption DEF Exists
    <2>6. AccountsAreDistinct
      BY <2>1, AccountsAssumption DEF AccountsAreDistinct, Exists
    <2> QED BY <2>1, <2>2, <2>3, <2>4, <2>5, <2>6 DEF Common
  <1> QED BY <1>4, <1>5 DEF ByRequest

(* Every step of every request keeps the invariant.                        *)
LEMMA NextKeeps ==
  ASSUME TypeOK, AccountsInv, [Next]_vars
  PROVE  (TypeOK /\ AccountsInv)'
  <1>1. CASE UNCHANGED vars
    <2>1. UNCHANGED <<rows, holder, req, sessions, codes>>
      BY <1>1 DEF vars
    <2>2. TypeOK'
      BY <2>1 DEF TypeOK, Exists, Op
    <2>3. ProgressIsTold' /\ ChangesAreLocked' /\ AdminStays'
      BY <2>1 DEF AccountsInv, ProgressIsTold, ChangesAreLocked, AdminStays, Now, Over, Op,
         HasChecked, Exists
    <2>4. ClaimsAreApart'
      <3>1. \A p \in Requests : /\ Claims(p)' = Claims(p) /\ Op(p)' = Op(p)
                                /\ NewRow(Op(p))' = NewRow(Op(p))
        BY <2>1 DEF Claims, Now, Op, NewRow
      <3> QED BY <2>1, <3>1 DEF AccountsInv, ClaimsAreApart, Exists, Clash
    <2>5. TakenSince' /\ RefusedKeepTheirCode'
      BY <2>1 DEF AccountsInv, TakenSince, RefusedKeepTheirCode, Took, Now, Op, Exists
    <2>6. AccountsAreDistinct' /\ AnswersTellWhatHappened' /\ OutdatedWasLate'
      BY <2>1 DEF AccountsInv, AccountsAreDistinct, AnswersTellWhatHappened, OutdatedWasLate,
         Outdated, Op, Exists
    <2> QED BY <2>2, <2>3, <2>4, <2>5, <2>6 DEF AccountsInv
  <1>2. CASE Next
    <2>1. PICK r \in Requests :
             \/ LookUp(r) \/ VerifyAdministrator(r) \/ VerifyOutside(r)
             \/ LockAccount(r) \/ Delete(r) \/ CheckTaken(r)
             \/ Consume(r) \/ LoseReply(r) \/ Draw(r)
             \/ RollBackTwice(r) \/ Claim(r) \/ Commit(r)
             \/ Notify(r) \/ Compare(r) \/ RevokeAll(r) \/ OpenSession(r) \/ Fail(r)
      BY <1>2 DEF Next
    <2> QED BY <2>1, LookUpKeeps, VerifyAdministratorKeeps, VerifyOutsideKeeps,
               LockAccountKeeps, DeleteKeeps, CheckTakenKeeps, ConsumeKeeps, LoseReplyKeeps,
               DrawKeeps, RollBackTwiceKeeps, ClaimKeeps, CommitKeeps, NotifyKeeps,
               CompareKeeps, RevokeAllKeeps, OpenSessionKeeps, FailKeeps
  <1> QED BY <1>1, <1>2

(* Everything that is said of the requests, whatever they ask.             *)
THEOREM AccountsAreKept == Spec => [](TypeOK /\ AccountsInv)
  <1>1. TypeOK /\ AccountsInv /\ [Next]_vars => (TypeOK /\ AccountsInv)'
    BY NextKeeps
  <1> QED BY <1>1, InitHolds, PTL DEF Spec

(* Rows, requests, codes and sessions are what they are meant to be.       *)
THEOREM TypeCorrect == Spec => []TypeOK
  BY AccountsAreKept, PTL

(* No two accounts ever have an address or a nickname in common.           *)
THEOREM StayDistinct == Spec => []AccountsAreDistinct
  <1>1. AccountsInv => AccountsAreDistinct
    BY DEF AccountsInv
  <1> QED BY <1>1, AccountsAreKept, PTL

(* The answer of a request tells what it has done.                         *)
THEOREM AnswersAreTrue == Spec => []AnswersTellWhatHappened
  <1>1. AccountsInv => AnswersTellWhatHappened
    BY DEF AccountsInv
  <1> QED BY <1>1, AccountsAreKept, PTL

(* A refusal costs no code, but for an address that another took.          *)
THEOREM RefusalsCostNoCode == Spec => []RefusedKeepTheirCode
  <1>1. AccountsInv => RefusedKeepTheirCode
    BY DEF AccountsInv
  <1> QED BY <1>1, AccountsAreKept, PTL

(* No session outlives a change of what it was opened with, unless it was  *)
(* opened late.                                                            *)
THEOREM OutdatedAreLate == Spec => []OutdatedWasLate
  <1>1. AccountsInv => OutdatedWasLate
    BY DEF AccountsInv
  <1> QED BY <1>1, AccountsAreKept, PTL

(* The administrator's password is right at the commit.                    *)
THEOREM ProofHoldsAtCommit == Spec => ProvenAtCommit
  <1>1. ASSUME TypeOK, AccountsInv, NEW r \in Requests, At(r, "commit"),
               Op(r).kind \in {"block", "deleteUser"}
        PROVE  rows[Admin].password = Op(r).password
    <2>1. Now(r) = "commit" /\ Mine(r)
      BY <1>1, Typed, Apart
    <2> QED BY <1>1, <2>1 DEF Mine, Locks
  <1>2. TypeOK /\ AccountsInv /\ [Next]_vars =>
          [\A r \in Requests :
             At(r, "commit") /\ req'[r].done /\ Op(r).kind \in {"block", "deleteUser"} =>
                 rows[Admin].password = Op(r).password]_vars
    BY <1>1
  <1> QED BY <1>2, AccountsAreKept, PTL DEF Spec, ProvenAtCommit
=============================================================================
