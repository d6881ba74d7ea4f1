-------------------------- MODULE RateLimitsProofs --------------------------
(***************************************************************************)
(* Theorems about RateLimits, for every value of its constants.            *)
(***************************************************************************)
EXTENDS RateLimits, FiniteSetTheorems, TLAPS

(* What is typed of one request, with what it has read.                    *)
Typed(q) ==
  /\ q \in RequestType(q.reply)
  /\ DOMAIN q.reply \subseteq Counters \cup {Ping}
  /\ \A c \in DOMAIN q.reply : q.reply[c] \in Int

(* A request that exists.                                                  *)
Known(r, q) ==
  /\ Typed(q) /\ OnRoute(q)
  /\ q.command \in {"incr", "get", "ttl"} \/ q.answer = "429" => DOMAIN q.reply \subseteq DOMAIN seen[r]
  /\ q.command = "ttl" => q.waiting \subseteq DOMAIN seen[r]

(* The counters of a stage are counters.                                   *)
LEMMA CountersOfAre ==
  ASSUME NEW q, q.kind \in Kinds, q.ip \in Ips, q.id \in IdsOf(q.kind),
         NEW stage \in StagesOf(q.kind), stage # "compare"
  PROVE  /\ CountersOf(q, stage) \subseteq Counters \cup {Ping}
         /\ stage # "ping" => CountersOf(q, stage) \subseteq Counters
         /\ \E c, d : CountersOf(q, stage) = {c, d}
  <1>1. q.kind \in AllKinds
    BY RateLimitsAssumption
  <1>2. CASE stage \in {"api", "auth", "public"}
    <2>1. CountersOf(q, stage) = {<<stage, q.ip>>}
      BY <1>2 DEF CountersOf
    <2>2. <<stage, q.ip>> \in Counters
      BY <1>2 DEF Counters
    <2> QED BY <2>1, <2>2
  <1>3. CASE stage = "session"
    <2>1. q.id \in Sessions
      BY <1>1, <1>3 DEF AllKinds, StagesOf, IdsOf
    <2>2. CountersOf(q, stage) = {<<"session", q.id>>} /\ <<"session", q.id>> \in Counters
      BY <1>3, <2>1 DEF CountersOf, Counters
    <2> QED BY <2>2
  <1>4. CASE stage \in {"check", "failure", "clear"}
    <2>1. q.id \in Emails
      BY <1>1, <1>4 DEF AllKinds, StagesOf, IdsOf
    <2>2. <<"email", q.id>> \in Counters /\ <<"ip", q.ip>> \in Counters
      BY <2>1 DEF Counters
    <2>3. CountersOf(q, stage) \in {{<<"email", q.id>>}, {<<"email", q.id>>, <<"ip", q.ip>>}}
      BY <1>4 DEF CountersOf
    <2> QED BY <2>2, <2>3
  <1>5. CASE stage = "ping"
    <2>1. CountersOf(q, stage) = {Ping}
      BY <1>5 DEF CountersOf
    <2> QED BY <1>5, <2>1
  <1>6. stage \in {"api", "auth", "public", "session", "check", "failure", "clear", "ping"}
    BY <1>1 DEF AllKinds, StagesOf
  <1> QED BY <1>2, <1>3, <1>4, <1>5, <1>6

(* Sending commands forgets the replies.                                   *)
LEMMA SendsFields ==
  ASSUME NEW q, q \in RequestType(q.reply), NEW command \in Commands,
         NEW cs \in SUBSET (Counters \cup {Ping})
  PROVE  LET s == Sends(q, command, cs)
         IN  /\ s \in RequestType(s.reply)
             /\ s.kind = q.kind /\ s.ip = q.ip /\ s.id = q.id /\ s.stage = q.stage
             /\ s.command = command /\ s.waiting = cs /\ s.reply = <<>> /\ s.failed = FALSE
             /\ s.error = q.error /\ s.answer = q.answer /\ s.until = q.until
  BY DEF Sends, RequestType

(* An answer leaves a request nothing to wait for.                         *)
LEMMA AnswersFields ==
  ASSUME NEW q, q \in RequestType(q.reply), NEW status \in {"200", "401", "429", "500", "503"}
  PROVE  LET s == Answers(q, status)
         IN  /\ s \in RequestType(s.reply)
             /\ s.kind = q.kind /\ s.ip = q.ip /\ s.id = q.id /\ s.stage = "answered"
             /\ s.command = "none" /\ s.waiting = {} /\ s.reply = <<>> /\ s.failed = FALSE
             /\ s.error = q.error /\ s.answer = status /\ s.until = q.until
  <1>1. "none" \in Commands /\ {} \in SUBSET (Counters \cup {Ping}) /\ "answered" \in Stages
    BY DEF Commands, Stages
  <1> DEFINE s == Sends(q, "none", {})
  <1>2. /\ s \in RequestType(s.reply)
        /\ s.kind = q.kind /\ s.ip = q.ip /\ s.id = q.id
        /\ s.command = "none" /\ s.waiting = {} /\ s.reply = <<>> /\ s.failed = FALSE
        /\ s.error = q.error /\ s.until = q.until
    BY <1>1 DEF Sends, RequestType
  <1>3. Answers(q, status) = [s EXCEPT !.answer = status, !.stage = "answered"]
    BY DEF Answers
  <1> HIDE DEF s
  <1> DEFINE t == [s EXCEPT !.answer = status, !.stage = "answered"]
  <1>4. /\ t \in RequestType(s.reply)
        /\ t.kind = s.kind /\ t.ip = s.ip /\ t.id = s.id /\ t.stage = "answered"
        /\ t.command = s.command /\ t.waiting = s.waiting /\ t.reply = s.reply
        /\ t.failed = s.failed /\ t.error = s.error /\ t.answer = status /\ t.until = s.until
    BY <1>1, <1>2, ZenonT(60) DEF RequestType
  <1> HIDE DEF t
  <1>5. Answers(q, status) = t
    BY <1>3 DEF t
  <1> QED BY <1>2, <1>4, <1>5

(* Entering a stage sends its command for each of its counters.            *)
LEMMA EntersFields ==
  ASSUME NEW q, Typed(q), q.kind \in Kinds, q.ip \in Ips, q.id \in IdsOf(q.kind),
         q.answer = "none", q.until = 0,
         NEW stage \in StagesOf(q.kind), stage # "compare"
  PROVE  LET s == Enters(q, stage)
         IN  /\ s \in RequestType(s.reply)
             /\ s.kind = q.kind /\ s.ip = q.ip /\ s.id = q.id /\ s.stage = stage
             /\ s.command = CommandOf(stage) /\ s.waiting = CountersOf(q, stage)
             /\ s.reply = <<>> /\ s.failed = FALSE
             /\ s.error = q.error /\ s.answer = "none" /\ s.until = 0
  <1>1. /\ CommandOf(stage) \in Commands
        /\ CountersOf(q, stage) \in SUBSET (Counters \cup {Ping})
    BY CountersOfAre DEF CommandOf, Commands
  <1>2. stage \in Stages /\ stage # "served"
    BY RateLimitsAssumption DEF AllKinds, StagesOf, Stages, Guards
  <1> DEFINE s == Sends(q, CommandOf(stage), CountersOf(q, stage))
  <1>3. /\ s \in RequestType(s.reply)
        /\ s.kind = q.kind /\ s.ip = q.ip /\ s.id = q.id
        /\ s.command = CommandOf(stage) /\ s.waiting = CountersOf(q, stage)
        /\ s.reply = <<>> /\ s.failed = FALSE
        /\ s.error = q.error /\ s.answer = q.answer /\ s.until = q.until
    <2>1. q \in RequestType(q.reply)
      BY DEF Typed
    <2> DEFINE command == CommandOf(stage)
               cs == CountersOf(q, stage)
    <2>2. command \in Commands /\ cs \in SUBSET (Counters \cup {Ping})
      BY <1>1
    <2>3. s = Sends(q, command, cs)
      OBVIOUS
    <2> HIDE DEF command, cs, s
    <2>4. /\ s \in RequestType(s.reply)
          /\ s.kind = q.kind /\ s.ip = q.ip /\ s.id = q.id
          /\ s.command = command /\ s.waiting = cs
          /\ s.reply = <<>> /\ s.failed = FALSE
          /\ s.error = q.error /\ s.answer = q.answer /\ s.until = q.until
      BY <2>1, <2>2, <2>3 DEF Sends, RequestType
    <2> QED BY <2>4 DEF command, cs
  <1>4. Enters(q, stage) = [s EXCEPT !.stage = stage]
    BY <1>2 DEF Enters
  <1> HIDE DEF s
  <1> DEFINE t == [s EXCEPT !.stage = stage]
  <1>5. /\ t \in RequestType(s.reply)
        /\ t.kind = s.kind /\ t.ip = s.ip /\ t.id = s.id /\ t.stage = stage
        /\ t.command = s.command /\ t.waiting = s.waiting /\ t.reply = s.reply
        /\ t.failed = s.failed /\ t.error = s.error /\ t.answer = s.answer /\ t.until = s.until
    BY <1>2, <1>3 DEF RequestType
  <1> HIDE DEF t
  <1>6. Enters(q, stage) = t
    BY <1>4 DEF t
  <1> QED BY <1>3, <1>5, <1>6

(* The counters of a stage depend on what a request is for.                *)
LEMMA CountersOfFor ==
  ASSUME NEW q, NEW s, s.ip = q.ip, s.id = q.id, NEW stage
  PROVE  CountersOf(s, stage) = CountersOf(q, stage)
  BY DEF CountersOf

(* A request that enters a stage, or is answered, is known.                *)
LEMMA EntersKnown ==
  ASSUME NEW r, NEW q, Typed(q), q.kind \in Kinds, q.ip \in Ips, q.id \in IdsOf(q.kind),
         q.answer = "none", q.until = 0,
         NEW stage \in StagesOf(q.kind), stage # "compare",
         stage = "failure" => q.error # "none"
  PROVE  Known(r, Enters(q, stage))
  <1> DEFINE s == Enters(q, stage)
  <1>1. /\ s \in RequestType(s.reply)
        /\ s.kind = q.kind /\ s.ip = q.ip /\ s.id = q.id /\ s.stage = stage
        /\ s.command = CommandOf(stage) /\ s.waiting = CountersOf(q, stage)
        /\ s.reply = <<>> /\ s.failed = FALSE
        /\ s.error = q.error /\ s.answer = "none" /\ s.until = 0
    BY EntersFields
  <1> HIDE DEF s
  <1>2. CountersOf(s, stage) = CountersOf(q, stage)
    BY <1>1, CountersOfFor
  <1>3. DOMAIN s.reply = {}
    BY <1>1
  <1>4. stage # "answered" /\ CommandOf(stage) \notin {"none", "ttl"}
    BY RateLimitsAssumption DEF AllKinds, StagesOf, CommandOf
  <1>5. Typed(s)
    BY <1>1, <1>3 DEF Typed
  <1>6. OnRoute(s)
    BY <1>1, <1>2, <1>3, <1>4 DEF OnRoute
  <1>7. Known(r, s)
    BY <1>1, <1>3, <1>4, <1>5, <1>6 DEF Known
  <1> QED BY <1>7 DEF s

(* An answered request has a route and a type like any other.              *)
LEMMA AnswersKnown ==
  ASSUME NEW r, NEW q, Typed(q), q.kind \in Kinds, q.ip \in Ips, q.id \in IdsOf(q.kind),
         q.until = 0,
         NEW status \in {"200", "401", "429", "500", "503"}
  PROVE  Known(r, Answers(q, status))
  <1> DEFINE s == Answers(q, status)
  <1>1. /\ s \in RequestType(s.reply)
        /\ s.kind = q.kind /\ s.ip = q.ip /\ s.id = q.id /\ s.stage = "answered"
        /\ s.command = "none" /\ s.waiting = {} /\ s.reply = <<>> /\ s.failed = FALSE
        /\ s.error = q.error /\ s.answer = status /\ s.until = q.until
    BY AnswersFields, ZenonT(60) DEF Typed
  <1> HIDE DEF s
  <1>2. DOMAIN s.reply = {}
    BY <1>1
  <1>3. Typed(s)
    BY <1>1, <1>2 DEF Typed
  <1>4. OnRoute(s)
    BY <1>1 DEF OnRoute
  <1>5. Known(r, s)
    BY <1>1, <1>2, <1>3, <1>4 DEF Known
  <1> QED BY <1>5 DEF s
-----------------------------------------------------------------------------
(* A counter has a maximum, which its window admits or not quite.          *)
LEMMA MostIsNatural ==
  ASSUME NEW c \in Counters
  PROVE  /\ MostOf(c) \in Nat /\ Limit[c[1]] \in Nat /\ Window[c[1]] \in Nat \ {0}
         /\ MostOf(c) + (IF c[1] \in {"email", "ip"} THEN 1 ELSE 0) = Limit[c[1]]
  <1>1. c[1] \in Scopes
    BY DEF Counters, Scopes
  <1>2. Limit[c[1]] \in Nat \ {0} /\ Window[c[1]] \in Nat \ {0}
    BY <1>1, RateLimitsAssumption
  <1> QED BY <1>2 DEF MostOf

(* Finitely many requests are admitted by a window.                        *)
LEMMA WithinIsFinite ==
  ASSUME NEW c, NEW w
  PROVE  IsFiniteSet(Within(c, w)) /\ Cardinality(Within(c, w)) \in Nat
  <1>1. Within(c, w) \subseteq Requests
    BY DEF Within
  <1>2. IsFiniteSet(Requests)
    BY RateLimitsAssumption
  <1>3. IsFiniteSet(Within(c, w))
    BY <1>1, <1>2, FS_Subset
  <1> QED BY <1>3, FS_CardinalityType

(* A step that leaves the counters alone and admits no one keeps the       *)
(* counts.                                                                 *)
LEMMA FewerWithin ==
  ASSUME TypeOK, CountsAreKept, UNCHANGED <<counter, window>>,
         \A c \in Counters, w \in Nat : Within(c, w)' \subseteq Within(c, w)
  PROVE  CountsAreKept'
  <1> SUFFICES ASSUME NEW c \in Counters, NEW w \in 0..window[c]
               PROVE  /\ Cardinality(Within(c, w)') <= MostOf(c)
                      /\ w = window[c] /\ counter[c].value > 0 =>
                             Cardinality(Within(c, w)') <= counter[c].value
    BY DEF CountsAreKept, MostOf
  <1>1. w \in Nat /\ MostOf(c) \in Nat /\ counter[c].value \in Nat
    BY MostIsNatural DEF TypeOK
  <1> DEFINE new == Within(c, w)'
             old == Within(c, w)
  <1>2. new \subseteq old
    BY <1>1
  <1>3. IsFiniteSet(old) /\ Cardinality(old) \in Nat
    BY WithinIsFinite
  <1>4. /\ Cardinality(old) <= MostOf(c)
        /\ w = window[c] /\ counter[c].value > 0 => Cardinality(old) <= counter[c].value
    BY DEF CountsAreKept
  <1> HIDE DEF new, old
  <1>5. IsFiniteSet(new) /\ Cardinality(new) <= Cardinality(old)
    BY <1>2, <1>3, FS_Subset
  <1>6. Cardinality(new) \in Nat
    BY <1>5, FS_CardinalityType
  <1>7. /\ Cardinality(new) <= MostOf(c)
        /\ w = window[c] /\ counter[c].value > 0 => Cardinality(new) <= counter[c].value
    BY <1>1, <1>3, <1>4, <1>5, <1>6
  <1> QED BY <1>7 DEF new

(* When a request goes on, the invariants hold of the others as before,    *)
(* and of it as soon as they hold of what it has become.                   *)
LEMMA BecomesKeeps ==
  ASSUME TypeOK, CountersInv, NEW r \in Requests, NEW q, Known(r, q), Becomes(r, q),
         NEW cs \in SUBSET DOMAIN request[r].reply, Admits(r, cs),
         \A c \in cs : /\ c \in Counters /\ request[r].command = "incr"
                       /\ request[r].reply[c] <= MostOf(c),
         q.command \in {"incr", "ttl"} => DOMAIN q.reply = {},
         q.answer = "429" =>
             \A c \in DOMAIN q.reply : window[c] = seen[r][c] /\ counter[c].value > 0
                 => OverBy(counter[c].expiresAt, q.until),
         q.stage \in {"check", "compare", "clear", "failure"} =>
             \E a \in admitted' : a[1] = <<"auth", q.ip>> /\ a[3] = r,
         q.answer = "401" =>
             \A c \in CountersOf(q, "failure") : \E a \in admitted' : a[1] = c /\ a[3] = r
  PROVE  TypeOK' /\ CountersInv'
  <1>1. /\ request' = [request EXCEPT ![r] = q]
        /\ UNCHANGED <<counter, up, outages, now, window, seen>>
        /\ admitted' = admitted \cup {<<c, seen[r][c], r>> : c \in cs}
    BY DEF Becomes, Admits
  <1>2. /\ request'[r] = q /\ DOMAIN request' = Requests
        /\ \A p \in Requests : p # r => request'[p] = request[p]
    BY <1>1 DEF TypeOK
  <1>3. cs \subseteq DOMAIN seen[r]
    <2> SUFFICES ASSUME NEW c \in cs PROVE cs \subseteq DOMAIN seen[r]
      OBVIOUS
    <2>1. request[r].command = "incr"
      OBVIOUS
    <2>2. request[r] # Unborn
      BY <2>1 DEF Unborn
    <2> QED BY <2>1, <2>2 DEF CountersInv, RequestsAreOnRoute
  <1>4. \A c \in cs : c \in Counters /\ seen[r][c] \in Nat /\ seen[r][c] <= window[c]
    BY <1>3 DEF TypeOK, CountersInv, WindowsGoOn
  <1>5. TypeOK'
    <2>1. \A p \in Requests :
             /\ request'[p] \in RequestType(request'[p].reply)
             /\ DOMAIN request'[p].reply \subseteq Counters \cup {Ping}
             /\ \A c \in DOMAIN request'[p].reply : request'[p].reply[c] \in Int
      BY <1>2 DEF TypeOK, Known, Typed
    <2>2. admitted' \subseteq Counters \X Nat \X Requests
      BY <1>1, <1>4 DEF TypeOK
    <2>3. counter' \in [Counters -> [value : Nat, expiresAt : Nat]]
      BY <1>1 DEF TypeOK
    <2> QED BY <1>1, <1>2, <2>1, <2>2, <2>3 DEF TypeOK, RequestType
  <1>6. RequestsAreOnRoute'
    <2> SUFFICES ASSUME NEW p \in Requests
                 PROVE  (\/ request[p] = Unborn
                         \/ Known(p, request[p]))'
      BY DEF RequestsAreOnRoute, Known
    <2>1. CASE p = r
      BY <1>1, <1>2, <2>1 DEF Known, Typed, OnRoute, RequestType
    <2>2. CASE p # r
      BY <1>1, <1>2, <2>2 DEF Known, Typed, OnRoute, RequestType, CountersInv,
         RequestsAreOnRoute, TypeOK
    <2> QED BY <2>1, <2>2
  <1>7. WindowsGoOn'
    BY <1>1, <1>4 DEF CountersInv, WindowsGoOn
  <1>8. CountsAreKept'
    <2>1. ASSUME NEW c \in Counters, NEW w \in Nat, NEW p \in Within(c, w)'
          PROVE  p \in Within(c, w)
      <3>1. CASE <<c, w, p>> \in admitted
        BY <3>1 DEF Within
      <3>2. CASE <<c, w, p>> \in admitted' /\ <<c, w, p>> \notin admitted
        <4>1. p = r /\ c \in cs /\ w = seen[r][c]
          BY <1>1, <3>2
        <4> QED BY <4>1 DEF Within
      <3>3. CASE <<c, w, p>> \notin admitted'
        <4>1. /\ request'[p].command = "incr" /\ c \in DOMAIN request'[p].reply
              /\ request'[p].reply[c] <= MostOf(c) /\ seen[p][c] = w
          BY <1>1, <3>3 DEF Within, MostOf
        <4>2. p # r
          BY <1>2, <4>1
        <4> QED BY <1>2, <4>1, <4>2 DEF Within
      <3> QED BY <3>1, <3>2, <3>3 DEF Within
    <2> QED BY <1>1, <2>1, FewerWithin DEF CountersInv
  <1>9. WaitsAreLongEnough'
    <2> SUFFICES ASSUME NEW p \in Requests, NEW c \in DOMAIN request'[p].reply
                 PROVE  /\ request'[p].command = "ttl" =>
                              /\ request'[p].reply[c] \in Nat \cup {-2}
                              /\ window[c] = seen[p][c] /\ counter[c].value > 0 =>
                                    /\ request'[p].reply[c] # -2
                                    /\ OverBy(counter[c].expiresAt,
                                              now + Second * request'[p].reply[c])
                        /\ request'[p].answer = "429" /\ window[c] = seen[p][c] /\ counter[c].value > 0
                              => OverBy(counter[c].expiresAt, request'[p].until)
      BY <1>1 DEF WaitsAreLongEnough
    <2>1. CASE p = r
      BY <1>2, <2>1
    <2>2. CASE p # r
      BY <1>2, <2>2 DEF CountersInv, WaitsAreLongEnough
    <2> QED BY <2>1, <2>2
  <1>10. ComparedWereCounted'
    <2> SUFFICES ASSUME NEW p \in Requests,
                        request'[p].stage \in {"check", "compare", "clear", "failure"}
                 PROVE  \E a \in admitted' : a[1] = <<"auth", request'[p].ip>> /\ a[3] = p
      BY DEF ComparedWereCounted, IsAdmitted
    <2>1. CASE p = r
      BY <1>2, <2>1
    <2>2. CASE p # r
      BY <1>1, <1>2, <2>2 DEF CountersInv, ComparedWereCounted, IsAdmitted
    <2> QED BY <2>1, <2>2
  <1>11. FailuresAreCounted'
    <2> SUFFICES ASSUME NEW p \in Requests, request'[p].answer = "401",
                        NEW c \in CountersOf(request'[p], "failure")
                 PROVE  \E a \in admitted' : a[1] = c /\ a[3] = p
      BY DEF FailuresAreCounted, IsAdmitted, CountersOf
    <2>1. CASE p = r
      BY <1>2, <2>1
    <2>2. CASE p # r
      BY <1>1, <1>2, <2>2 DEF CountersInv, FailuresAreCounted, IsAdmitted
    <2> QED BY <2>1, <2>2
  <1> QED BY <1>5, <1>6, <1>7, <1>8, <1>9, <1>10, <1>11 DEF CountersInv
-----------------------------------------------------------------------------
(* A request that exists is known.                                         *)
LEMMA IsKnown ==
  ASSUME TypeOK, CountersInv, NEW r \in Requests, request[r] # Unborn
  PROVE  Known(r, request[r])
  BY DEF TypeOK, CountersInv, RequestsAreOnRoute, Known, Typed

(* The stages that follow one of a limiter's.                              *)
LEMMA AfterIs ==
  ASSUME NEW kind \in Kinds, NEW stage \in StagesOf(kind), stage \in Guards
  PROVE  /\ After(kind, stage) \in (StagesOf(kind) \cap {"auth", "public", "session", "check"}) \cup {"served"}
         /\ After(kind, stage) = "check" => stage = "auth"
  <1>1. kind \in AllKinds
    BY RateLimitsAssumption
  <1> QED BY <1>1 DEF AllKinds, StagesOf, Guards, After

(* What a stage's reply refuses.                                           *)
LEMMA RefusedAre ==
  ASSUME TypeOK, CountersInv, NEW r \in Requests, request[r] # Unborn,
         request[r].stage \in Guards \cup {"failure"},
         request[r].command = "incr", Refusing(r) = {}
  PROVE  \A c \in DOMAIN request[r].reply :
             c \in Counters /\ request[r].reply[c] <= MostOf(c)
  <1> DEFINE q == request[r]
  <1>1. Known(r, q)
    BY IsKnown
  <1> SUFFICES ASSUME NEW c \in DOMAIN q.reply
               PROVE  c \in Counters /\ q.reply[c] <= MostOf(c)
    OBVIOUS
  <1>2. q.stage \in StagesOf(q.kind) /\ c \in CountersOf(q, q.stage)
    BY <1>1 DEF Known, OnRoute, Guards
  <1>3. c \in Counters
    BY <1>1, <1>2, CountersOfAre DEF Known, OnRoute, Guards
  <1>4. q.reply[c] \in Int /\ Limit[c[1]] \in Nat
    BY <1>1, <1>3, MostIsNatural DEF Known, Typed
  <1>5. CASE q.stage \in Guards
    <2>1. c[1] = q.stage
      BY <1>2, <1>5 DEF CountersOf, Guards
    <2>2. ~(q.reply[c] > Limit[c[1]])
      BY <1>5 DEF Refusing
    <2> QED BY <1>3, <1>4, <1>5, <2>1, <2>2 DEF MostOf, Guards
  <1>6. CASE q.stage = "failure"
    <2>1. c[1] \in {"email", "ip"}
      BY <1>2, <1>6 DEF CountersOf
    <2>2. ~(q.reply[c] >= Limit[c[1]])
      BY <1>6 DEF Refusing, Guards
    <2> QED BY <1>3, <1>4, <2>1, <2>2 DEF MostOf
  <1> QED BY <1>5, <1>6

(* Whoever was admitted by the count of a counter stays so.                *)
LEMMA AdmitsAdmit ==
  ASSUME NEW r, NEW cs, Admits(r, cs)
  PROVE  /\ admitted \subseteq admitted'
         /\ \A c \in cs : \E a \in admitted' : a[1] = c /\ a[3] = r
  <1>1. admitted' = admitted \cup {<<c, seen[r][c], r>> : c \in cs}
    BY DEF Admits
  <1>2. ASSUME NEW c \in cs PROVE \E a \in admitted' : a[1] = c /\ a[3] = r
    <2>1. <<c, seen[r][c], r>> \in admitted'
      BY <1>1
    <2> QED BY <2>1
  <1> QED BY <1>1, <1>2

(* Nobody is admitted by no counts.                                        *)
LEMMA AdmitsNobody ==
  ASSUME NEW r, UNCHANGED admitted
  PROVE  Admits(r, {})
  <1>1. {<<c, seen[r][c], r>> : c \in {}} = {}
    OBVIOUS
  <1> QED BY <1>1 DEF Admits

(* A guard's limiter that lets a request pass.                             *)
LEMMA PassKeeps ==
  ASSUME TypeOK, CountersInv, NEW r \in Requests, Pass(r)
  PROVE  TypeOK' /\ CountersInv'
  <1> DEFINE q == request[r]
             next == After(q.kind, q.stage)
             n == Enters(q, next)
             cs == DOMAIN q.reply
  <1>1. /\ q.stage \in Guards /\ q.command = "incr" /\ q.waiting = {} /\ ~q.failed
        /\ Refusing(r) = {} /\ Becomes(r, n) /\ Admits(r, cs)
    BY DEF Pass, Replied
  <1>2. Known(r, q)
    BY <1>1, IsKnown DEF Unborn, Guards
  <1>3. /\ Typed(q) /\ q.kind \in Kinds /\ q.ip \in Ips /\ q.id \in IdsOf(q.kind)
        /\ q.stage \in StagesOf(q.kind) /\ q.answer = "none" /\ q.until = 0
        /\ CountersOf(q, q.stage) \subseteq cs
    BY <1>1, <1>2 DEF Known, OnRoute, Guards
  <1>4. \A c \in cs : c \in Counters /\ q.command = "incr" /\ q.reply[c] <= MostOf(c)
    BY <1>1, RefusedAre DEF Unborn, Guards
  <1>5. /\ next \in (StagesOf(q.kind) \cap {"auth", "public", "session", "check"}) \cup {"served"}
        /\ next = "check" => q.stage = "auth"
    BY <1>1, <1>3, AfterIs
  <1>6. CASE next = "served"
    <2>1. n = Answers(q, "200")
      BY <1>6 DEF Enters
    <2>2. Known(r, n)
      BY <1>3, <2>1, AnswersKnown
    <2>3. n.command = "none" /\ n.answer = "200" /\ n.stage = "answered"
      <3> HIDE DEF n, q
      <3> QED BY <1>3, <2>1, AnswersFields, ZenonT(60) DEF Typed
    <2> HIDE DEF n, cs
    <2>4. cs \in SUBSET DOMAIN request[r].reply
      BY DEF cs
    <2> QED BY <1>1, <1>4, <2>2, <2>3, <2>4, BecomesKeeps
  <1>7. CASE next # "served"
    <2>1. /\ next \in StagesOf(q.kind) /\ next \in {"auth", "public", "session", "check"}
          /\ next # "compare" /\ next # "failure"
      BY <1>5, <1>7
    <2> HIDE DEF next
    <2>2. Known(r, n)
      BY <1>3, <2>1, EntersKnown
    <2>3. n.reply = <<>> /\ n.answer = "none" /\ n.stage = next /\ n.ip = q.ip
      BY <1>3, <2>1, EntersFields
    <2>4. ASSUME n.stage \in {"check", "compare", "clear", "failure"}
          PROVE  \E a \in admitted' : a[1] = <<"auth", n.ip>> /\ a[3] = r
      <3>1. q.stage = "auth"
        BY <1>5, <2>1, <2>3, <2>4 DEF next
      <3>2. <<"auth", q.ip>> \in cs
        BY <1>3, <3>1 DEF CountersOf
      <3> QED BY <1>1, <2>3, <3>2, AdmitsAdmit
    <2> HIDE DEF n, cs
    <2>5. cs \in SUBSET DOMAIN request[r].reply
      BY DEF cs
    <2>6. DOMAIN n.reply = {}
      BY <2>3
    <2> QED BY <1>1, <1>4, <2>2, <2>3, <2>4, <2>5, <2>6, BecomesKeeps
  <1> QED BY <1>6, <1>7

(* A request that is refused asks how long.                                *)
LEMMA AskTtlKeeps ==
  ASSUME TypeOK, CountersInv, NEW r \in Requests, AskTtl(r)
  PROVE  TypeOK' /\ CountersInv'
  <1> DEFINE q == request[r]
             n == Sends(q, "ttl", Refusing(r))
  <1>1. /\ q.stage \in Guards \cup {"check", "failure"} /\ q.command \in {"incr", "get"}
        /\ Becomes(r, n) /\ UNCHANGED admitted
    BY DEF AskTtl, Replied
  <1>2. Known(r, q)
    BY <1>1, IsKnown DEF Unborn, Guards
  <1>3. /\ q \in RequestType(q.reply) /\ OnRoute(q) /\ DOMAIN q.reply \subseteq DOMAIN seen[r]
        /\ DOMAIN q.reply \subseteq Counters \cup {Ping} /\ q.answer = "none"
        /\ DOMAIN q.reply \subseteq CountersOf(q, q.stage)
    BY <1>1, <1>2 DEF Known, Typed, OnRoute, Guards
  <1>4. Refusing(r) \subseteq DOMAIN q.reply
    BY DEF Refusing
  <1>5. "ttl" \in Commands /\ Refusing(r) \in SUBSET (Counters \cup {Ping})
    BY <1>3, <1>4 DEF Commands
  <1>6. /\ n \in RequestType(n.reply)
        /\ n.kind = q.kind /\ n.ip = q.ip /\ n.id = q.id /\ n.stage = q.stage
        /\ n.command = "ttl" /\ n.waiting = Refusing(r) /\ n.reply = <<>> /\ n.failed = FALSE
        /\ n.error = q.error /\ n.answer = q.answer /\ n.until = q.until
    <2> HIDE DEF q
    <2> QED BY <1>3, <1>5, SendsFields
  <1> HIDE DEF n
  <1>7. CountersOf(n, n.stage) = CountersOf(q, q.stage)
    BY <1>6, CountersOfFor
  <1>8. OnRoute(n)
    BY <1>1, <1>3, <1>4, <1>6, <1>7 DEF OnRoute, Guards
  <1>9. Known(r, n)
    BY <1>3, <1>4, <1>6, <1>8 DEF Known, Typed
  <1>10. ASSUME n.stage \in {"check", "compare", "clear", "failure"}
         PROVE  \E a \in admitted' : a[1] = <<"auth", n.ip>> /\ a[3] = r
    BY <1>1, <1>6, <1>10 DEF CountersInv, ComparedWereCounted, IsAdmitted
  <1>11. DOMAIN n.reply = {} /\ n.answer = "none"
    BY <1>3, <1>6
  <1>12. Admits(r, {})
    BY <1>1, AdmitsNobody
  <1> QED BY <1>1, <1>9, <1>10, <1>11, <1>12, BecomesKeeps

(* A TTL that Redis rounds is less than half a second too short.           *)
LEMMA RoundedIs ==
  ASSUME NEW d \in Nat, NEW t \in Nat
  PROVE  Rounded(d) \in Nat /\ OverBy(t + d, t + Second * Rounded(d))
  <1>1. Second \in Nat \ {0}
    BY RateLimitsAssumption
  <1>2. Rounded(d) \in Nat /\ 2 * d - 2 * (Second * Rounded(d)) < Second
    BY <1>1 DEF Rounded
  <1>3. Second * Rounded(d) \in Nat
    BY <1>1, <1>2
  <1> QED BY <1>1, <1>2, <1>3 DEF OverBy

(* What is over by a time is over by every later one.                      *)
LEMMA OverByLater ==
  ASSUME NEW e \in Int, NEW t \in Int, NEW u \in Int, t <= u, OverBy(e, t)
  PROVE  OverBy(e, u)
  BY RateLimitsAssumption DEF OverBy

(* Seconds are ticks, and more seconds are no fewer ticks.                 *)
LEMMA TicksAre ==
  ASSUME NEW m \in Int, NEW n \in Int, m <= n
  PROVE  /\ Second * m \in Int /\ Second * n \in Int /\ Second * m <= Second * n
         /\ n \in Nat => Second * n \in Nat
  <1>1. Second \in Nat \ {0}
    BY RateLimitsAssumption
  <1> QED BY <1>1

(* What is answered is as long as the longest TTL there is.                *)
LEMMA RetryAfterIs ==
  ASSUME NEW reply, NEW c, NEW d, DOMAIN reply \subseteq {c, d},
         \A e \in DOMAIN reply : reply[e] \in Nat \cup {-2}
  PROVE  /\ RetryAfter(reply) \in Nat
         /\ \A e \in DOMAIN reply : reply[e] # -2 => reply[e] <= RetryAfter(reply)
  <1> DEFINE active == {reply[e] : e \in DOMAIN reply} \ {-2, 0}
  <1>1. RetryAfter(reply) = IF active = {} THEN 1 ELSE Max(active)
    BY DEF RetryAfter
  <1>2. active \subseteq {reply[e] : e \in DOMAIN reply \cap {c, d}}
    OBVIOUS
  <1>3. /\ \A i \in active : i \in Int /\ i > 0
        /\ \A e \in DOMAIN reply : reply[e] \notin {-2, 0} => reply[e] \in active
    OBVIOUS
  <1>4. \A i, j, k \in active : i = j \/ j = k \/ i = k
    OBVIOUS
  <1> HIDE DEF active
  <1>5. CASE active = {}
    BY <1>1, <1>3, <1>5
  <1>6. CASE active # {}
    <2>1. \E i \in active : \A j \in active : i >= j
      <3>1. PICK i \in active : TRUE
        BY <1>6
      <3>2. CASE \A j \in active : i >= j
        BY <3>2
      <3>3. CASE \E j \in active : j > i
        <4>1. PICK j \in active : j > i
          BY <3>3
        <4>2. \A k \in active : k = i \/ k = j
          BY <1>3, <1>4, <4>1
        <4> QED BY <1>3, <4>1, <4>2
      <3> QED BY <1>3, <3>2, <3>3
    <2>2. Max(active) \in active /\ \A j \in active : Max(active) >= j
      BY <2>1 DEF Max
    <2> QED BY <1>1, <1>3, <1>6, <2>2
  <1> QED BY <1>5, <1>6

(* A request is refused until its counters are over.                       *)
LEMMA RefuseKeeps ==
  ASSUME TypeOK, CountersInv, NEW r \in Requests, Refuse(r)
  PROVE  TypeOK' /\ CountersInv'
  <1> DEFINE q == request[r]
             m == Answers(q, "429")
             end == now + Second * RetryAfter(q.reply)
             n == [m EXCEPT !.reply = q.reply, !.until = end]
  <1>1. /\ q.stage \in Guards \cup {"check", "failure"} /\ q.command = "ttl"
        /\ Becomes(r, n) /\ UNCHANGED admitted
    BY DEF Refuse, Replied
  <1>2. Known(r, q)
    BY <1>1, IsKnown DEF Unborn, Guards
  <1>3. /\ q \in RequestType(q.reply) /\ OnRoute(q) /\ DOMAIN q.reply \subseteq DOMAIN seen[r]
        /\ DOMAIN q.reply \subseteq Counters \cup {Ping} /\ q.answer = "none"
        /\ DOMAIN q.reply \subseteq CountersOf(q, q.stage)
        /\ \A c \in DOMAIN q.reply : q.reply[c] \in Int
        /\ q.stage \in StagesOf(q.kind) /\ q.stage # "compare"
    BY <1>1, <1>2 DEF Known, Typed, OnRoute, Guards
  <1>4. PICK c, d : CountersOf(q, q.stage) = {c, d}
    BY <1>3, CountersOfAre DEF OnRoute
  <1>5. \A e \in DOMAIN q.reply :
           /\ q.reply[e] \in Nat \cup {-2}
           /\ window[e] = seen[r][e] /\ counter[e].value > 0 =>
                 q.reply[e] # -2 /\ OverBy(counter[e].expiresAt, now + Second * q.reply[e])
    BY <1>1 DEF CountersInv, WaitsAreLongEnough
  <1>6. /\ RetryAfter(q.reply) \in Nat
        /\ \A e \in DOMAIN q.reply : q.reply[e] # -2 => q.reply[e] <= RetryAfter(q.reply)
    <2> HIDE DEF q
    <2> QED BY <1>3, <1>4, <1>5, RetryAfterIs
  <1>7. now \in Nat /\ end \in Nat
    <2>1. Second * RetryAfter(q.reply) \in Nat
      BY <1>6, TicksAre
    <2> QED BY <2>1 DEF TypeOK
  <1>8. /\ m \in RequestType(m.reply)
        /\ m.kind = q.kind /\ m.ip = q.ip /\ m.id = q.id /\ m.stage = "answered"
        /\ m.command = "none" /\ m.waiting = {} /\ m.failed = FALSE
        /\ m.error = q.error /\ m.answer = "429"
    <2> HIDE DEF q
    <2> QED BY <1>3, AnswersFields, ZenonT(60)
  <1> HIDE DEF m, end
  <1>9. /\ n \in RequestType(n.reply)
        /\ n.kind = q.kind /\ n.ip = q.ip /\ n.id = q.id /\ n.stage = "answered"
        /\ n.command = "none" /\ n.waiting = {} /\ n.reply = q.reply
        /\ n.answer = "429" /\ n.until = end
    BY <1>7, <1>8 DEF RequestType
  <1> HIDE DEF n
  <1>10. OnRoute(n)
    BY <1>3, <1>9 DEF OnRoute
  <1>11. Known(r, n)
    BY <1>3, <1>9, <1>10 DEF Known, Typed
  <1>12. ASSUME NEW e \in DOMAIN n.reply, window[e] = seen[r][e], counter[e].value > 0
         PROVE  OverBy(counter[e].expiresAt, n.until)
    <2>1. e \in DOMAIN q.reply /\ e \in Counters
      BY <1>3, <1>9 DEF TypeOK
    <2>2. counter[e].expiresAt \in Nat /\ q.reply[e] \in Int
      BY <1>3, <2>1 DEF TypeOK
    <2>3. /\ OverBy(counter[e].expiresAt, now + Second * q.reply[e])
          /\ q.reply[e] <= RetryAfter(q.reply)
      BY <1>5, <1>6, <1>12, <2>1
    <2>4. /\ Second * q.reply[e] \in Int /\ Second * RetryAfter(q.reply) \in Int
          /\ Second * q.reply[e] <= Second * RetryAfter(q.reply)
      BY <1>6, <2>2, <2>3, TicksAre
    <2>5. /\ now + Second * q.reply[e] \in Int /\ end \in Int
          /\ now + Second * q.reply[e] <= end
      BY <1>7, <2>4 DEF end
    <2> QED BY <1>9, <2>2, <2>3, <2>5, OverByLater
  <1>13. Admits(r, {})
    BY <1>1, AdmitsNobody
  <1> QED BY <1>1, <1>9, <1>11, <1>12, <1>13, BecomesKeeps

(* An answer that neither refuses nor is the password's ends a request.    *)
LEMMA AnswersKeeps ==
  ASSUME TypeOK, CountersInv, NEW r \in Requests, request[r] # Unborn,
         request[r].answer = "none",
         NEW status \in {"200", "500", "503"},
         Becomes(r, Answers(request[r], status)), UNCHANGED admitted
  PROVE  TypeOK' /\ CountersInv'
  <1> DEFINE q == request[r]
             n == Answers(q, status)
  <1>1. Known(r, q)
    BY IsKnown
  <1>2. /\ Typed(q) /\ q.kind \in Kinds /\ q.ip \in Ips /\ q.id \in IdsOf(q.kind) /\ q.until = 0
    BY <1>1 DEF Known, OnRoute
  <1>3. n.command = "none" /\ n.answer = status /\ n.stage = "answered"
    <2>1. q \in RequestType(q.reply)
      BY <1>2 DEF Typed
    <2>2. status \in {"200", "401", "429", "500", "503"}
      OBVIOUS
    <2> HIDE DEF q
    <2> QED BY <2>1, <2>2, AnswersFields, ZenonT(60)
  <1>4. Known(r, n)
    <2> HIDE DEF q
    <2> QED BY <1>2, AnswersKnown
  <1>5. Admits(r, {})
    BY AdmitsNobody
  <1>6. Becomes(r, n)
    OBVIOUS
  <1> HIDE DEF n
  <1> QED BY <1>3, <1>4, <1>5, <1>6, BecomesKeeps

(* A limiter that cannot reach Redis lets the request pass, or refuses it. *)
LEMMA LimiterFailsKeeps ==
  ASSUME TypeOK, CountersInv, NEW r \in Requests, LimiterFails(r)
  PROVE  TypeOK' /\ CountersInv'
  <1> DEFINE q == request[r]
             next == After(q.kind, q.stage)
             n == Enters(q, next)
  <1>1. q.stage \in Guards \cup {"check", "failure", "ping"} /\ UNCHANGED admitted
    BY DEF LimiterFails
  <1>2. q # Unborn /\ Known(r, q)
    BY <1>1, IsKnown DEF Unborn, Guards
  <1>3. /\ Typed(q) /\ q.kind \in Kinds /\ q.ip \in Ips /\ q.id \in IdsOf(q.kind)
        /\ q.stage \in StagesOf(q.kind) /\ q.answer = "none" /\ q.until = 0
    BY <1>1, <1>2 DEF Known, OnRoute, Guards
  <1>4. CASE q.stage \in FailsOpen
    <2>1. Becomes(r, n)
      BY <1>4 DEF LimiterFails
    <2>2. /\ next \in (StagesOf(q.kind) \cap {"auth", "public", "session", "check"}) \cup {"served"}
          /\ next # "check" /\ q.stage \in Guards
      BY <1>3, <1>4, AfterIs DEF FailsOpen, Guards
    <2>3. CASE next = "served"
      <3>1. Becomes(r, Answers(q, "200"))
        BY <2>1, <2>3 DEF Enters
      <3> QED BY <1>1, <1>2, <1>3, <3>1, AnswersKeeps
    <2>4. CASE next # "served"
      <3>1. /\ next \in StagesOf(q.kind) /\ next \in {"auth", "public", "session"}
            /\ next # "compare" /\ next # "failure"
        BY <2>2, <2>4
      <3> HIDE DEF next
      <3>2. Known(r, n)
        BY <1>3, <3>1, EntersKnown
      <3>3. n.reply = <<>> /\ n.answer = "none" /\ n.stage = next
        BY <1>3, <3>1, EntersFields
      <3>4. Admits(r, {})
        BY <1>1, AdmitsNobody
      <3> HIDE DEF n
      <3>5. DOMAIN n.reply = {}
        BY <3>3
      <3>6. n.stage \notin {"check", "compare", "clear", "failure"}
        BY <3>1, <3>3
      <3> QED BY <2>1, <3>2, <3>3, <3>4, <3>5, <3>6, BecomesKeeps
    <2> QED BY <2>3, <2>4
  <1>5. CASE q.stage \notin FailsOpen
    <2>1. Becomes(r, Answers(q, StatusOf(q.stage)))
      BY <1>5 DEF LimiterFails
    <2>2. StatusOf(q.stage) \in {"200", "500", "503"}
      BY DEF StatusOf
    <2> QED BY <1>1, <1>2, <1>3, <2>1, <2>2, AnswersKeeps
  <1> QED BY <1>4, <1>5

(* The password is compared.                                               *)
LEMMA AllowKeeps ==
  ASSUME TypeOK, CountersInv, NEW r \in Requests, Allow(r)
  PROVE  TypeOK' /\ CountersInv'
  <1> DEFINE q == request[r]
             m == Sends(q, "none", {})
             n == [m EXCEPT !.stage = "compare"]
  <1>1. q.stage = "check" /\ q.command = "get" /\ Becomes(r, n) /\ UNCHANGED admitted
    BY DEF Allow, Replied
  <1>2. q # Unborn /\ Known(r, q)
    BY <1>1, IsKnown DEF Unborn
  <1>3. /\ q \in RequestType(q.reply) /\ q.kind \in Kinds /\ q.ip \in Ips /\ q.id \in IdsOf(q.kind)
        /\ q.kind = "login" /\ q.answer = "none" /\ q.until = 0
    BY <1>1, <1>2, RateLimitsAssumption DEF Known, Typed, OnRoute, StagesOf, AllKinds
  <1>4. "none" \in Commands /\ {} \in SUBSET (Counters \cup {Ping}) /\ "compare" \in Stages
    BY DEF Commands, Stages
  <1>5. /\ m \in RequestType(m.reply)
        /\ m.kind = q.kind /\ m.ip = q.ip /\ m.id = q.id
        /\ m.command = "none" /\ m.waiting = {} /\ m.reply = <<>> /\ m.failed = FALSE
        /\ m.error = q.error /\ m.answer = "none" /\ m.until = 0
    <2> HIDE DEF q
    <2> QED BY <1>3, <1>4 DEF Sends, RequestType
  <1> HIDE DEF m
  <1>6. /\ n \in RequestType(n.reply)
        /\ n.kind = q.kind /\ n.ip = q.ip /\ n.id = q.id /\ n.stage = "compare"
        /\ n.command = "none" /\ n.waiting = {} /\ n.reply = <<>>
        /\ n.answer = "none" /\ n.until = 0
    BY <1>4, <1>5 DEF RequestType
  <1> HIDE DEF n
  <1>7. DOMAIN n.reply = {}
    BY <1>6
  <1>8. Known(r, n)
    BY <1>3, <1>6, <1>7 DEF Known, Typed, OnRoute, StagesOf
  <1>9. \E a \in admitted' : a[1] = <<"auth", n.ip>> /\ a[3] = r
    BY <1>1, <1>6 DEF CountersInv, ComparedWereCounted, IsAdmitted
  <1>10. Admits(r, {})
    BY <1>1, AdmitsNobody
  <1> QED BY <1>1, <1>6, <1>7, <1>8, <1>9, <1>10, BecomesKeeps

(* What the password, or the failure of the counter's reset, leads to.     *)
LEMMA LoginKeeps ==
  ASSUME TypeOK, CountersInv, NEW r \in Requests,
         request[r].stage \in {"compare", "clear"}, UNCHANGED admitted,
         \/ Becomes(r, Enters(request[r], "clear"))
         \/ \E error \in {"401", "500"} :
                Becomes(r, [Enters(request[r], "failure") EXCEPT !.error = error])
  PROVE  TypeOK' /\ CountersInv'
  <1> DEFINE q == request[r]
  <1>1. q # Unborn /\ Known(r, q)
    BY IsKnown DEF Unborn
  <1>2. /\ Typed(q) /\ q.kind \in Kinds /\ q.ip \in Ips /\ q.id \in IdsOf(q.kind)
        /\ q.kind = "login" /\ q.answer = "none" /\ q.until = 0
    BY <1>1, RateLimitsAssumption DEF Known, OnRoute, StagesOf, AllKinds
  <1>3. {"clear", "failure"} \subseteq StagesOf(q.kind)
    BY <1>2 DEF StagesOf
  <1>4. \E a \in admitted' : a[1] = <<"auth", q.ip>> /\ a[3] = r
    BY DEF CountersInv, ComparedWereCounted, IsAdmitted
  <1>5. Admits(r, {})
    BY AdmitsNobody
  <1>6. CASE Becomes(r, Enters(q, "clear"))
    <2> DEFINE n == Enters(q, "clear")
    <2>1. n.reply = <<>> /\ n.answer = "none" /\ n.ip = q.ip
      <3> HIDE DEF q
      <3> QED BY <1>2, <1>3, EntersFields
    <2>2. Known(r, n)
      <3> HIDE DEF q
      <3> QED BY <1>2, <1>3, EntersKnown
    <2> HIDE DEF n
    <2>3. DOMAIN n.reply = {}
      BY <2>1
    <2>4. Becomes(r, n)
      BY <1>6 DEF n
    <2> QED BY <1>4, <1>5, <2>1, <2>2, <2>3, <2>4, BecomesKeeps
  <1>7. ASSUME NEW error \in {"401", "500"},
               Becomes(r, [Enters(q, "failure") EXCEPT !.error = error])
        PROVE  TypeOK' /\ CountersInv'
    <2> DEFINE m == Enters(q, "failure")
               n == [m EXCEPT !.error = error]
    <2>1. /\ m \in RequestType(m.reply)
          /\ m.kind = q.kind /\ m.ip = q.ip /\ m.id = q.id /\ m.stage = "failure"
          /\ m.command = CommandOf("failure") /\ m.waiting = CountersOf(q, "failure")
          /\ m.reply = <<>> /\ m.failed = FALSE /\ m.answer = "none" /\ m.until = 0
      <3> HIDE DEF q
      <3> QED BY <1>2, <1>3, EntersFields, ZenonT(60)
    <2> HIDE DEF m
    <2>2. /\ n \in RequestType(n.reply)
          /\ n.kind = q.kind /\ n.ip = q.ip /\ n.id = q.id /\ n.stage = "failure"
          /\ n.command = "incr" /\ n.waiting = CountersOf(q, "failure")
          /\ n.reply = <<>> /\ n.failed = FALSE /\ n.answer = "none" /\ n.until = 0
          /\ n.error = error
      BY <2>1 DEF RequestType, CommandOf
    <2>3. Becomes(r, n)
      BY <1>7 DEF m
    <2> HIDE DEF n
    <2>4. CountersOf(n, n.stage) = n.waiting
      BY <2>2, CountersOfFor
    <2>5. DOMAIN n.reply = {}
      BY <2>2
    <2>6. OnRoute(n)
      BY <1>2, <1>3, <2>2, <2>4, <2>5 DEF OnRoute, CommandOf
    <2>7. Known(r, n)
      BY <2>2, <2>5, <2>6 DEF Known, Typed
    <2> QED BY <1>4, <1>5, <2>2, <2>3, <2>5, <2>7, BecomesKeeps
  <1> QED BY <1>6, <1>7

(* The password is wrong, or right and the failures are forgotten.         *)
LEMMA CompareKeeps ==
  ASSUME TypeOK, CountersInv, NEW r \in Requests, Compare(r)
  PROVE  TypeOK' /\ CountersInv'
  BY LoginKeeps DEF Compare

(* The failures are forgotten, or not.                                     *)
LEMMA ClearedKeeps ==
  ASSUME TypeOK, CountersInv, NEW r \in Requests, Cleared(r)
  PROVE  TypeOK' /\ CountersInv'
  <1>1. request[r].stage = "clear" /\ UNCHANGED admitted
    BY DEF Cleared, Replied
  <1>2. CASE request[r].failed
    BY <1>1, <1>2, LoginKeeps DEF Cleared
  <1>3. CASE ~request[r].failed
    <2>1. Becomes(r, Answers(request[r], "200"))
      BY <1>3 DEF Cleared
    <2>2. request[r] # Unborn /\ request[r].answer = "none"
      BY <1>1, IsKnown DEF Unborn, Known, OnRoute
    <2> QED BY <1>1, <2>1, <2>2, AnswersKeeps
  <1> QED BY <1>2, <1>3

(* Redis answers the probe.                                                *)
LEMMA ReadyKeeps ==
  ASSUME TypeOK, CountersInv, NEW r \in Requests, Ready(r)
  PROVE  TypeOK' /\ CountersInv'
  <1>1. request[r].stage = "ping" /\ UNCHANGED admitted /\ Becomes(r, Answers(request[r], "200"))
    BY DEF Ready, Replied
  <1>2. request[r] # Unborn /\ request[r].answer = "none"
    BY <1>1, IsKnown DEF Unborn, Known, OnRoute
  <1> QED BY <1>1, <1>2, AnswersKeeps

(* A failed login is counted before it is answered.                        *)
LEMMA ThrowKeeps ==
  ASSUME TypeOK, CountersInv, NEW r \in Requests, Throw(r)
  PROVE  TypeOK' /\ CountersInv'
  <1> DEFINE q == request[r]
             n == Answers(q, q.error)
             cs == DOMAIN q.reply
  <1>1. /\ q.stage = "failure" /\ q.command = "incr" /\ q.waiting = {} /\ ~q.failed
        /\ Refusing(r) = {} /\ Becomes(r, n) /\ Admits(r, cs)
    BY DEF Throw, Replied
  <1>2. q # Unborn /\ Known(r, q)
    BY <1>1, IsKnown DEF Unborn
  <1>3. /\ Typed(q) /\ q.kind \in Kinds /\ q.ip \in Ips /\ q.id \in IdsOf(q.kind)
        /\ q.until = 0 /\ q.error \in {"401", "500"}
        /\ CountersOf(q, "failure") \subseteq cs
    BY <1>1, <1>2 DEF Known, Typed, OnRoute, RequestType
  <1>4. \A c \in cs : c \in Counters /\ q.command = "incr" /\ q.reply[c] <= MostOf(c)
    BY <1>1, <1>2, RefusedAre
  <1>5. \A c \in cs : \E a \in admitted' : a[1] = c /\ a[3] = r
    BY <1>1, AdmitsAdmit
  <1>6. /\ n.command = "none" /\ n.answer = q.error /\ n.stage = "answered"
        /\ n.ip = q.ip /\ n.id = q.id
    <2> DEFINE error == q.error
    <2>1. error \in {"200", "401", "429", "500", "503"} /\ q \in RequestType(q.reply)
      BY <1>3 DEF Typed
    <2> HIDE DEF q, error
    <2>2. LET s == Answers(q, error)
          IN  s.command = "none" /\ s.answer = error /\ s.stage = "answered" /\ s.ip = q.ip /\ s.id = q.id
      BY <2>1, AnswersFields, ZenonT(60)
    <2> QED BY <2>2 DEF error
  <1>7. Known(r, n)
    BY <1>3, AnswersKnown
  <1>8. cs \in SUBSET DOMAIN request[r].reply
    OBVIOUS
  <1> HIDE DEF n, cs
  <1>9. CountersOf(n, "failure") = CountersOf(q, "failure")
    BY <1>6, CountersOfFor
  <1>10. q.error # "429"
    BY <1>3
  <1> QED BY <1>1, <1>3, <1>4, <1>5, <1>6, <1>7, <1>8, <1>9, <1>10, BecomesKeeps

(* A request arrives.                                                      *)
LEMMA BeginKeeps ==
  ASSUME TypeOK, CountersInv, NEW r \in Requests, Begin(r)
  PROVE  TypeOK' /\ CountersInv'
  <1>1. PICK kind \in Kinds, ip \in Ips : \E id \in IdsOf(kind) :
           request' = [request EXCEPT ![r] =
               Enters([Unborn EXCEPT !.kind = kind, !.ip = ip, !.id = id],
                      IF kind = "ready" THEN "ping" ELSE "api")]
    BY DEF Begin
  <1>2. PICK id \in IdsOf(kind) :
           request' = [request EXCEPT ![r] =
               Enters([Unborn EXCEPT !.kind = kind, !.ip = ip, !.id = id],
                      IF kind = "ready" THEN "ping" ELSE "api")]
    BY <1>1
  <1> DEFINE q == [Unborn EXCEPT !.kind = kind, !.ip = ip, !.id = id]
             stage == IF kind = "ready" THEN "ping" ELSE "api"
             n == Enters(q, stage)
  <1>3. id \in Emails \cup Sessions \cup {"none"}
    BY RateLimitsAssumption DEF IdsOf, AllKinds
  <1>4. /\ q \in RequestType(q.reply) /\ q.kind = kind /\ q.ip = ip /\ q.id = id
        /\ q.answer = "none" /\ q.until = 0 /\ q.reply = <<>>
    BY <1>3 DEF Unborn, RequestType, Stages, Commands, Guards
  <1>5. Typed(q)
    <2>1. DOMAIN q.reply = {}
      BY <1>4
    <2> QED BY <1>4, <2>1 DEF Typed
  <1>6. stage \in StagesOf(kind) /\ stage \in {"api", "ping"}
    BY RateLimitsAssumption DEF AllKinds, StagesOf
  <1>7. Becomes(r, n) /\ UNCHANGED admitted
    BY <1>2 DEF Begin, Becomes
  <1>8. n.reply = <<>> /\ n.answer = "none" /\ n.stage = stage
    <2> HIDE DEF q, stage
    <2> QED BY <1>4, <1>5, <1>6, EntersFields
  <1>9. Known(r, n)
    <2> HIDE DEF q, stage
    <2> QED BY <1>4, <1>5, <1>6, EntersKnown
  <1>10. Admits(r, {})
    BY <1>7, AdmitsNobody
  <1> HIDE DEF n, stage
  <1>11. DOMAIN n.reply = {} /\ n.stage \notin {"check", "compare", "clear", "failure"}
    BY <1>6, <1>8
  <1> QED BY <1>7, <1>8, <1>9, <1>10, <1>11, BecomesKeeps

(* Every step of a request.                                                *)
LEMMA ContinueKeeps ==
  ASSUME TypeOK, CountersInv, NEW r \in Requests, Continue(r)
  PROVE  TypeOK' /\ CountersInv'
  BY PassKeeps, AskTtlKeeps, RefuseKeeps, LimiterFailsKeeps, AllowKeeps, CompareKeeps,
     ClearedKeeps, ThrowKeeps, ReadyKeeps DEF Continue
-----------------------------------------------------------------------------
(* What Redis and the clock do to a counter: a key lasts as long as it was *)
(* to, and only grows; the next one is in another window.                  *)
Goes(d) ==
  /\ counter'[d] \in [value : Nat, expiresAt : Nat]
  /\ window'[d] \in Nat /\ window[d] <= window'[d]
  /\ counter'[d].value > 0 => now' < counter'[d].expiresAt
  /\ window'[d] = window[d] /\ counter'[d].value > 0 =>
        /\ counter[d].value > 0 /\ counter[d].value <= counter'[d].value
        /\ counter'[d].expiresAt = counter[d].expiresAt

(* What has been admitted so far is within what the counters then say.     *)
LEMMA CountsGoOn ==
  ASSUME TypeOK, CountersInv, NEW c \in Counters, Goes(c),
         NEW w \in 0..window'[c]
  PROVE  /\ Cardinality(Within(c, w)) <= MostOf(c)
         /\ w = window'[c] /\ counter'[c].value > 0 =>
                Cardinality(Within(c, w)) <= counter'[c].value
         /\ w > window[c] => Cardinality(Within(c, w)) = 0
  <1>1. /\ w \in Nat /\ window[c] \in Nat /\ window'[c] \in Nat /\ window[c] <= window'[c]
        /\ counter[c].value \in Nat /\ counter'[c].value \in Nat
    BY DEF TypeOK, Goes
  <1>2. MostOf(c) \in Nat /\ Cardinality(Within(c, w)) \in Nat
    BY MostIsNatural, WithinIsFinite
  <1>3. CASE w <= window[c]
    <2>1. /\ Cardinality(Within(c, w)) <= MostOf(c)
          /\ w = window[c] /\ counter[c].value > 0 => Cardinality(Within(c, w)) <= counter[c].value
      BY <1>1, <1>3 DEF CountersInv, CountsAreKept
    <2>2. ASSUME w = window'[c], counter'[c].value > 0
          PROVE  Cardinality(Within(c, w)) <= counter'[c].value
      <3>1. window'[c] = window[c]
        BY <1>1, <1>3, <2>2
      <3>2. counter[c].value > 0 /\ counter[c].value <= counter'[c].value
        BY <2>2, <3>1 DEF Goes
      <3> QED BY <1>1, <1>2, <2>1, <2>2, <3>1, <3>2
    <2> QED BY <1>1, <1>3, <2>1, <2>2
  <1>4. CASE w > window[c]
    <2>1. ASSUME NEW p \in Within(c, w) PROVE FALSE
      <3>1. CASE <<c, w, p>> \in admitted
        BY <1>1, <1>4, <3>1 DEF CountersInv, WindowsGoOn
      <3>2. CASE <<c, w, p>> \notin admitted
        <4>1. /\ p \in Requests /\ request[p].command = "incr"
              /\ c \in DOMAIN request[p].reply /\ seen[p][c] = w
          BY <3>2 DEF Within
        <4>2. c \in DOMAIN seen[p]
          BY <4>1 DEF CountersInv, RequestsAreOnRoute, Unborn
        <4>3. seen[p][c] <= window[c]
          BY <4>1, <4>2 DEF CountersInv, WindowsGoOn
        <4> QED BY <1>1, <1>4, <4>1, <4>3
      <3> QED BY <3>1, <3>2
    <2>2. Within(c, w) = {}
      BY <2>1
    <2>3. Cardinality(Within(c, w)) = 0
      BY <2>2, FS_EmptySet
    <2> QED BY <1>1, <1>2, <2>3
  <1> QED BY <1>1, <1>3, <1>4

(* Any command does that to any counter.                                   *)
LEMMA EffectGoes ==
  ASSUME TypeOK, CountersInv, NEW r \in Requests, NEW c, Effect(r, c), UNCHANGED now
  PROVE  /\ counter' \in [Counters -> [value : Nat, expiresAt : Nat]]
         /\ window' \in [Counters -> Nat]
         /\ \A d \in Counters : Goes(d)
         /\ c \in Counters => counter'[c] = Executed(request[r].command, c)
  <1> DEFINE command == request[r].command
  <1>1. /\ counter' = [d \in Counters |-> IF d = c THEN Executed(command, c) ELSE counter[d]]
        /\ window' = [d \in Counters |-> IF counter[d].value = 0 /\ counter'[d].value > 0
                                         THEN window[d] + 1 ELSE window[d]]
    BY DEF Effect
  <1> HIDE DEF command
  <1>2. ASSUME NEW d \in Counters
        PROVE  /\ Goes(d)
               /\ d = c => counter'[c] = Executed(command, c)
               /\ counter'[d] \in [value : Nat, expiresAt : Nat] /\ window'[d] \in Nat
    <2>1. /\ counter[d] \in [value : Nat, expiresAt : Nat] /\ window[d] \in Nat /\ now \in Nat
          /\ counter[d].value \in Nat /\ counter[d].expiresAt \in Nat
      BY DEF TypeOK
    <2>2. counter[d].value > 0 => now < counter[d].expiresAt
      BY DEF CountersInv, WindowsGoOn
    <2>3. Second * Window[d[1]] \in Nat \ {0}
      <3>1. Window[d[1]] \in Nat \ {0} /\ Second \in Nat \ {0}
        BY MostIsNatural, RateLimitsAssumption
      <3> QED BY <3>1
    <2>4. counter'[d] \in {counter[d], NoKey, Incremented(d)}
      BY <1>1 DEF Executed
    <2>5. window'[d] = IF counter[d].value = 0 /\ counter'[d].value > 0
                       THEN window[d] + 1 ELSE window[d]
      BY <1>1
    <2>6. /\ NoKey \in [value : Nat, expiresAt : Nat]
          /\ NoKey.value = 0
      BY DEF NoKey
    <2>7. CASE counter'[d] = Incremented(d) /\ counter[d].value = 0
      <3>1. counter'[d] = [value |-> 1, expiresAt |-> now + Second * Window[d[1]]]
        BY <2>7 DEF Incremented
      <3>2. /\ counter'[d] \in [value : Nat, expiresAt : Nat]
            /\ counter'[d].value = 1
            /\ counter'[d].expiresAt = now + Second * Window[d[1]]
        BY <2>1, <2>3, <3>1
      <3>3. window'[d] = window[d] + 1
        BY <2>5, <2>7, <3>2
      <3>4. now' < counter'[d].expiresAt
        BY <2>1, <2>3, <3>2
      <3> QED BY <1>1, <2>1, <3>2, <3>3, <3>4 DEF Goes
    <2>8. CASE counter'[d] = Incremented(d) /\ counter[d].value # 0
      <3>1. counter'[d] = [counter[d] EXCEPT !.value = counter[d].value + 1]
        BY <2>8 DEF Incremented
      <3>2. /\ counter'[d] \in [value : Nat, expiresAt : Nat]
            /\ counter'[d].value = counter[d].value + 1
            /\ counter'[d].expiresAt = counter[d].expiresAt
        BY <2>1, <3>1
      <3> QED BY <1>1, <2>1, <2>2, <2>5, <2>8, <3>2 DEF Goes
    <2>9. CASE counter'[d] \in {counter[d], NoKey}
      BY <1>1, <2>1, <2>2, <2>5, <2>6, <2>9 DEF Goes
    <2> QED BY <1>1, <2>4, <2>7, <2>8, <2>9 DEF Goes
  <1>3. counter' \in [Counters -> [value : Nat, expiresAt : Nat]]
    BY <1>1, <1>2
  <1>4. window' \in [Counters -> Nat]
    BY <1>1, <1>2
  <1>5. \A d \in Counters : Goes(d)
    BY <1>2
  <1>6. c \in Counters => counter'[c] = Executed(command, c)
    BY <1>2
  <1> QED BY <1>3, <1>4, <1>5, <1>6 DEF command

(* What the connection and the clock do keeps everything.                  *)
LEMMA OutsideKeeps ==
  ASSUME TypeOK, CountersInv,
         counter' \in [Counters -> [value : Nat, expiresAt : Nat]],
         window' \in [Counters -> Nat],
         \A d \in Counters : Goes(d),
         up' \in BOOLEAN, outages' \in 0..MaxOutages,
         now' \in 0..MaxTime, now <= now',
         request' \in {request, Rejected}, UNCHANGED <<seen, admitted>>
  PROVE  TypeOK' /\ CountersInv'
  <1>1. /\ DOMAIN request' = Requests
        /\ \A p \in Requests : request[p] = Unborn => request'[p] = Unborn
        /\ \A p \in Requests : \/ request'[p] = request[p]
                               \/ request'[p] = [request[p] EXCEPT !.waiting = {}, !.failed = TRUE]
    <2>1. CASE request' = request
      BY <2>1 DEF TypeOK
    <2>2. CASE request' = Rejected
      <3>1. \A p \in Requests :
               request'[p] = IF request[p].waiting = {} THEN request[p]
                             ELSE [request[p] EXCEPT !.waiting = {}, !.failed = TRUE]
        BY <2>2 DEF Rejected
      <3>2. Unborn.waiting = {}
        BY DEF Unborn
      <3> QED BY <2>2, <3>1, <3>2 DEF Rejected
    <2> QED BY <2>1, <2>2
  <1>2. ASSUME NEW p \in Requests
        PROVE  /\ request'[p] \in RequestType(request[p].reply)
               /\ request'[p].kind = request[p].kind /\ request'[p].ip = request[p].ip
               /\ request'[p].id = request[p].id /\ request'[p].stage = request[p].stage
               /\ request'[p].command = request[p].command /\ request'[p].reply = request[p].reply
               /\ request'[p].error = request[p].error /\ request'[p].answer = request[p].answer
               /\ request'[p].until = request[p].until
               /\ \/ request'[p].waiting = request[p].waiting /\ request'[p].failed = request[p].failed
                  \/ request'[p].waiting = {} /\ request'[p].failed = TRUE
    <2>1. request[p] \in RequestType(request[p].reply)
      BY DEF TypeOK
    <2>2. CASE request'[p] = request[p]
      BY <2>1, <2>2
    <2>3. CASE request'[p] = [request[p] EXCEPT !.waiting = {}, !.failed = TRUE]
      BY <2>1, <2>3 DEF RequestType
    <2> QED BY <1>1, <2>2, <2>3
  <1>3. TypeOK'
    <2>1. \A p \in Requests :
             /\ request'[p] \in RequestType(request'[p].reply)
             /\ DOMAIN request'[p].reply \subseteq Counters \cup {Ping}
             /\ \A c \in DOMAIN request'[p].reply : request'[p].reply[c] \in Int
      BY <1>2 DEF TypeOK
    <2> QED BY <1>1, <2>1 DEF TypeOK, RequestType
  <1>4. RequestsAreOnRoute'
    <2> SUFFICES ASSUME NEW p \in Requests
                 PROVE  request'[p] = Unborn \/ Known(p, request[p])'
      BY DEF RequestsAreOnRoute, Known
    <2>1. CASE request[p] = Unborn
      <3>1. request'[p] = Unborn
        BY <1>1, <2>1
      <3> QED BY <3>1
    <2>2. CASE request[p] # Unborn
      <3>1. Known(p, request[p])
        BY <2>2, IsKnown
      <3>2. Typed(request[p])'
        BY <1>3 DEF TypeOK, Typed
      <3>3. OnRoute(request[p])'
        <4>0. request'[p].ip = request[p].ip /\ request'[p].id = request[p].id
          BY <1>2
        <4>1. CountersOf(request'[p], request[p].stage) = CountersOf(request[p], request[p].stage)
          BY <4>0 DEF CountersOf
        <4> QED BY <1>2, <3>1, <4>1 DEF Known, OnRoute
      <3> QED BY <1>2, <3>1, <3>2, <3>3 DEF Known
    <2> QED BY <2>1, <2>2
  <1>5. WindowsGoOn'
    <2>1. \A r \in Requests : \A c \in DOMAIN seen[r] : seen[r][c] <= window'[c]
      <3> SUFFICES ASSUME NEW r \in Requests, NEW c \in DOMAIN seen[r]
                   PROVE  seen[r][c] <= window'[c]
        OBVIOUS
      <3>1. c \in Counters /\ seen[r][c] \in Nat /\ seen[r][c] <= window[c] /\ window[c] \in Nat
        BY DEF TypeOK, CountersInv, WindowsGoOn
      <3>2. window[c] <= window'[c] /\ window'[c] \in Nat
        BY <3>1 DEF Goes
      <3> QED BY <3>1, <3>2
    <2>2. \A a \in admitted : a[2] <= window'[a[1]]
      <3> SUFFICES ASSUME NEW a \in admitted
                   PROVE  a[2] <= window'[a[1]]
        OBVIOUS
      <3>1. a[1] \in Counters /\ a[2] \in Nat /\ a[2] <= window[a[1]] /\ window[a[1]] \in Nat
        BY DEF TypeOK, CountersInv, WindowsGoOn
      <3>2. window[a[1]] <= window'[a[1]] /\ window'[a[1]] \in Nat
        BY <3>1 DEF Goes
      <3> QED BY <3>1, <3>2
    <2> QED BY <2>1, <2>2 DEF WindowsGoOn, Goes
  <1>6. CountsAreKept'
    <2> SUFFICES ASSUME NEW c \in Counters, NEW w \in 0..window'[c]
                 PROVE  /\ Cardinality(Within(c, w)') <= MostOf(c)
                        /\ w = window'[c] /\ counter'[c].value > 0 =>
                               Cardinality(Within(c, w)') <= counter'[c].value
      BY DEF CountsAreKept, MostOf
    <2>1. /\ Cardinality(Within(c, w)) <= MostOf(c)
          /\ w = window'[c] /\ counter'[c].value > 0 =>
                 Cardinality(Within(c, w)) <= counter'[c].value
      BY CountsGoOn
    <2>2. \A p \in Requests : request'[p].command = request[p].command /\ request'[p].reply = request[p].reply
      BY <1>2
    <2>3. Within(c, w)' = Within(c, w)
      BY <2>2 DEF Within, MostOf
    <2> QED BY <2>1, <2>3
  <1>7. WaitsAreLongEnough'
    <2> SUFFICES ASSUME NEW p \in Requests, NEW c \in DOMAIN request'[p].reply
                 PROVE  /\ request'[p].command = "ttl" =>
                              /\ request'[p].reply[c] \in Nat \cup {-2}
                              /\ window'[c] = seen[p][c] /\ counter'[c].value > 0 =>
                                    /\ request'[p].reply[c] # -2
                                    /\ OverBy(counter'[c].expiresAt,
                                              now' + Second * request'[p].reply[c])
                        /\ request'[p].answer = "429" /\ window'[c] = seen[p][c] /\ counter'[c].value > 0
                              => OverBy(counter'[c].expiresAt, request'[p].until)
      BY DEF WaitsAreLongEnough
    <2>0. /\ request'[p].command = request[p].command /\ request'[p].reply = request[p].reply
          /\ request'[p].answer = request[p].answer /\ request'[p].until = request[p].until
          /\ c \in DOMAIN request[p].reply
      BY <1>2
    <2>1. /\ request[p].command = "ttl" =>
                /\ request[p].reply[c] \in Nat \cup {-2}
                /\ window[c] = seen[p][c] /\ counter[c].value > 0 =>
                      /\ request[p].reply[c] # -2
                      /\ OverBy(counter[c].expiresAt, now + Second * request[p].reply[c])
          /\ request[p].answer = "429" /\ window[c] = seen[p][c] /\ counter[c].value > 0
                => OverBy(counter[c].expiresAt, request[p].until)
      BY <2>0 DEF CountersInv, WaitsAreLongEnough
    <2>2. CASE request[p].command # "ttl" /\ request[p].answer # "429"
      BY <2>0, <2>2
    <2>3. CASE request[p].command = "ttl" \/ request[p].answer = "429"
      <3>1. c \in DOMAIN seen[p]
        <4>1. request[p] # Unborn
          BY <2>3 DEF Unborn
        <4>2. DOMAIN request[p].reply \subseteq DOMAIN seen[p]
          BY <2>3, <4>1, IsKnown DEF Known
        <4>3. c \in DOMAIN request[p].reply
          BY <2>0
        <4> QED BY <4>2, <4>3
      <3>2. /\ c \in Counters /\ seen[p][c] \in Nat /\ seen[p][c] <= window[c]
            /\ window[c] \in Nat /\ request[p].reply[c] \in Int
        BY <2>0, <3>1 DEF TypeOK, CountersInv, WindowsGoOn
      <3>3. window[c] <= window'[c] /\ window'[c] \in Nat /\ Goes(c)
        BY <3>2 DEF Goes
      <3>4. ASSUME window'[c] = seen[p][c], counter'[c].value > 0
            PROVE  /\ window[c] = seen[p][c] /\ counter[c].value > 0
                   /\ counter'[c].expiresAt = counter[c].expiresAt
        <4>1. window'[c] = window[c]
          BY <3>2, <3>3, <3>4
        <4> QED BY <3>3, <3>4, <4>1 DEF Goes
      <3>5. counter[c].expiresAt \in Nat /\ now \in Nat /\ now' \in Nat /\ now <= now'
        BY <3>2 DEF TypeOK
      <3>6. ASSUME window'[c] = seen[p][c], counter'[c].value > 0
            PROVE  /\ request[p].command = "ttl" =>
                         /\ request[p].reply[c] # -2
                         /\ OverBy(counter'[c].expiresAt,
                                   now' + Second * request[p].reply[c])
                   /\ request[p].answer = "429" => OverBy(counter'[c].expiresAt, request[p].until)
        <4>1. window[c] = seen[p][c] /\ counter[c].value > 0 /\ counter'[c].expiresAt = counter[c].expiresAt
          BY <3>4, <3>6
        <4>2. request[p].command = "ttl" =>
                OverBy(counter[c].expiresAt, now + Second * request[p].reply[c])
          BY <2>1, <4>1
        <4>3. /\ now + Second * request[p].reply[c] \in Int
              /\ now' + Second * request[p].reply[c] \in Int
              /\ now + Second * request[p].reply[c] <= now' + Second * request[p].reply[c]
          BY <3>2, <3>5, TicksAre
        <4>4. request[p].command = "ttl" =>
                OverBy(counter[c].expiresAt, now' + Second * request[p].reply[c])
          BY <3>5, <4>2, <4>3, OverByLater
        <4> QED BY <2>1, <4>1, <4>4
      <3> QED BY <2>0, <2>1, <3>6
    <2> QED BY <2>2, <2>3
  <1>8. ComparedWereCounted'
    <2> SUFFICES ASSUME NEW p \in Requests,
                        request'[p].stage \in {"check", "compare", "clear", "failure"}
                 PROVE  \E a \in admitted : a[1] = <<"auth", request'[p].ip>> /\ a[3] = p
      BY DEF ComparedWereCounted, IsAdmitted
    <2>1. request[p].stage = request'[p].stage /\ request[p].ip = request'[p].ip
      BY <1>2
    <2> QED BY <2>1 DEF CountersInv, ComparedWereCounted, IsAdmitted
  <1>9. FailuresAreCounted'
    <2> SUFFICES ASSUME NEW p \in Requests, request'[p].answer = "401",
                        NEW c \in CountersOf(request'[p], "failure")
                 PROVE  \E a \in admitted : a[1] = c /\ a[3] = p
      BY DEF FailuresAreCounted, IsAdmitted, CountersOf
    <2>1. request[p].answer = "401"
      BY <1>2
    <2>2. c \in CountersOf(request[p], "failure")
      BY <1>2 DEF CountersOf
    <2> QED BY <2>1, <2>2 DEF CountersInv, FailuresAreCounted, IsAdmitted
  <1> QED BY <1>3, <1>4, <1>5, <1>6, <1>7, <1>8, <1>9 DEF CountersInv

(* The connection breaks.                                                  *)
LEMMA DisconnectKeeps ==
  ASSUME TypeOK, CountersInv, Disconnect
  PROVE  TypeOK' /\ CountersInv'
  <1>1. /\ up' = FALSE /\ outages' \in 0..MaxOutages /\ request' = Rejected
        /\ UNCHANGED <<now, seen, admitted>>
    BY RateLimitsAssumption DEF Disconnect, TypeOK
  <1>2. now' \in 0..MaxTime /\ now <= now'
    BY <1>1 DEF TypeOK
  <1>3. CASE UNCHANGED <<counter, window>>
    <2>1. \A d \in Counters : Goes(d)
      BY <1>1, <1>3 DEF TypeOK, CountersInv, WindowsGoOn, Goes
    <2> QED BY <1>1, <1>2, <1>3, <2>1, OutsideKeeps DEF TypeOK
  <1>4. ASSUME NEW r \in Requests, NEW c \in request[r].waiting, Effect(r, c)
        PROVE  TypeOK' /\ CountersInv'
    BY <1>1, <1>2, <1>4, EffectGoes, OutsideKeeps
  <1>5. CASE counter' = [c \in Counters |-> NoKey] /\ UNCHANGED window
    <2>1. /\ counter' \in [Counters -> [value : Nat, expiresAt : Nat]]
          /\ \A d \in Counters : counter'[d].value = 0
      BY <1>5 DEF NoKey
    <2>2. \A d \in Counters : Goes(d)
      BY <1>5, <2>1 DEF TypeOK, Goes
    <2>3. window' \in [Counters -> Nat]
      BY <1>5 DEF TypeOK
    <2> QED BY <1>1, <1>2, <2>1, <2>2, <2>3, OutsideKeeps
  <1> QED BY <1>3, <1>4, <1>5 DEF Disconnect

(* The client reconnects.                                                  *)
LEMMA ReconnectKeeps ==
  ASSUME TypeOK, CountersInv, Reconnect
  PROVE  TypeOK' /\ CountersInv'
  <1>1. up' = TRUE /\ UNCHANGED <<counter, outages, now, request, window, seen, admitted>>
    BY DEF Reconnect
  <1>2. \A d \in Counters : Goes(d)
    BY <1>1 DEF TypeOK, CountersInv, WindowsGoOn, Goes
  <1>3. now' \in 0..MaxTime /\ now <= now'
    BY <1>1 DEF TypeOK
  <1> QED BY <1>1, <1>2, <1>3, OutsideKeeps DEF TypeOK

(* Time passes, and keys expire.                                           *)
LEMMA TickKeeps ==
  ASSUME TypeOK, CountersInv, Tick
  PROVE  TypeOK' /\ CountersInv'
  <1>1. /\ now' = now + 1 /\ now < MaxTime
        /\ counter' = [c \in Counters |-> IF counter[c].expiresAt <= now' THEN NoKey ELSE counter[c]]
        /\ UNCHANGED <<up, outages, request, window, seen, admitted>>
    BY DEF Tick
  <1>2. now' \in 0..MaxTime /\ now <= now' /\ now' \in Nat
    BY <1>1, RateLimitsAssumption DEF TypeOK
  <1>3. ASSUME NEW d \in Counters
        PROVE  Goes(d)
    <2>1. /\ counter[d] \in [value : Nat, expiresAt : Nat] /\ window[d] \in Nat
          /\ counter[d].expiresAt \in Nat /\ counter[d].value \in Nat
      BY DEF TypeOK
    <2>2. CASE counter[d].expiresAt <= now'
      <3>1. counter'[d] = NoKey
        BY <1>1, <2>2
      <3> QED BY <1>1, <2>1, <3>1 DEF Goes, NoKey
    <2>3. CASE ~(counter[d].expiresAt <= now')
      <3>1. counter'[d] = counter[d]
        BY <1>1, <2>3
      <3> QED BY <1>1, <1>2, <2>1, <2>3, <3>1 DEF Goes
    <2> QED BY <2>2, <2>3
  <1>4. counter' \in [Counters -> [value : Nat, expiresAt : Nat]]
    BY <1>1, <1>3 DEF Goes
  <1> QED BY <1>1, <1>2, <1>3, <1>4, OutsideKeeps DEF TypeOK

(* Redis answers a command: the only step that counts.  The count that it  *)
(* replies is that of the requests admitted so far in the window, and one. *)
LEMMA ExecuteKeeps ==
  ASSUME TypeOK, CountersInv, NEW r \in Requests, NEW c, Execute(r, c)
  PROVE  TypeOK' /\ CountersInv'
  <1> DEFINE q == request[r]
             reply == With(q.reply, c, ReplyTo(q.command, c))
             n == [q EXCEPT !.waiting = q.waiting \ {c}, !.reply = reply]
  <1>1. /\ c \in q.waiting /\ Effect(r, c) /\ request' = [request EXCEPT ![r] = n]
        /\ seen' = IF q.command \in {"incr", "get"}
                   THEN [seen EXCEPT ![r] = With(seen[r], c, window'[c])] ELSE seen
        /\ UNCHANGED <<up, outages, now, admitted>>
    BY DEF Execute
  <1>2. q # Unborn /\ Known(r, q)
    BY <1>1, IsKnown DEF Unborn
  <1>3. /\ q \in RequestType(q.reply) /\ DOMAIN q.reply \subseteq Counters \cup {Ping}
        /\ \A d \in DOMAIN q.reply : q.reply[d] \in Int
        /\ OnRoute(q) /\ q.command # "none" /\ q.answer = "none"
        /\ q.stage \notin {"compare", "answered"} /\ c \in CountersOf(q, q.stage)
    BY <1>1, <1>2 DEF Known, Typed, OnRoute
  <1>4. /\ c \in Counters \cup {Ping}
        /\ q.command \in {"incr", "get", "ttl", "del"} => c \in Counters
        /\ q.command \in {"incr", "get", "ttl", "del", "ping"}
    <2>1. CountersOf(q, q.stage) \subseteq Counters \cup {Ping}
      BY <1>3, CountersOfAre DEF OnRoute
    <2>2. q.stage # "ping" => CountersOf(q, q.stage) \subseteq Counters
      BY <1>3, CountersOfAre DEF OnRoute
    <2>3. q.stage = "ping" => q.command = "ping"
      BY <1>3 DEF OnRoute, CommandOf
    <2>4. q.command \in Commands
      BY <1>3 DEF RequestType
    <2> QED BY <1>3, <2>1, <2>2, <2>3, <2>4 DEF Commands
  <1>5. /\ counter' \in [Counters -> [value : Nat, expiresAt : Nat]]
        /\ window' \in [Counters -> Nat]
        /\ \A d \in Counters : Goes(d)
        /\ c \in Counters => counter'[c] = Executed(q.command, c)
    BY <1>1, EffectGoes
  <1>6. /\ DOMAIN reply = DOMAIN q.reply \cup {c} /\ reply[c] = ReplyTo(q.command, c)
        /\ \A d \in DOMAIN q.reply : d # c => reply[d] = q.reply[d]
    BY DEF With
  <1>7. ReplyTo(q.command, c) \in Int
    <2>1. CASE q.command \in {"del", "ping"}
      BY <2>1 DEF ReplyTo
    <2>2. CASE q.command = "incr"
      <3>1. counter'[c] = Incremented(c) /\ counter'[c].value \in Nat
        BY <1>4, <1>5, <2>2 DEF Executed
      <3> QED BY <2>2, <3>1 DEF ReplyTo
    <2>3. CASE q.command = "get"
      <3>1. counter[c].value \in Nat
        BY <1>4, <2>3 DEF TypeOK
      <3> QED BY <2>3, <3>1 DEF ReplyTo
    <2>4. CASE q.command = "ttl"
      <3>1. /\ counter[c].value \in Nat /\ counter[c].expiresAt \in Nat /\ now \in Nat
            /\ counter[c].value > 0 => now < counter[c].expiresAt
        BY <1>4, <2>4 DEF TypeOK, CountersInv, WindowsGoOn
      <3>2. counter[c].value # 0 => counter[c].expiresAt - now \in Nat
        BY <3>1
      <3>3. counter[c].value # 0 => Rounded(counter[c].expiresAt - now) \in Nat
        BY <3>1, <3>2, RoundedIs
      <3> QED BY <2>4, <3>3 DEF ReplyTo
    <2> QED BY <1>4, <2>1, <2>2, <2>3, <2>4
  <1> HIDE DEF reply
  <1>8. /\ n \in RequestType(reply) /\ n.kind = q.kind /\ n.ip = q.ip /\ n.id = q.id
        /\ n.stage = q.stage /\ n.command = q.command /\ n.waiting = q.waiting \ {c}
        /\ n.reply = reply /\ n.failed = q.failed /\ n.error = q.error
        /\ n.answer = q.answer /\ n.until = q.until
    BY <1>3 DEF RequestType
  <1> HIDE DEF n
  <1>9. /\ request'[r] = n /\ DOMAIN request' = Requests
        /\ \A p \in Requests : p # r => request'[p] = request[p]
    BY <1>1 DEF TypeOK
  <1>10. /\ DOMAIN seen' = Requests
         /\ \A p \in Requests : p # r => seen'[p] = seen[p]
         /\ q.command \notin {"incr", "get"} => seen'[r] = seen[r]
         /\ q.command \in {"incr", "get"} =>
               /\ DOMAIN seen'[r] = DOMAIN seen[r] \cup {c} /\ seen'[r][c] = window'[c]
               /\ \A d \in DOMAIN seen[r] : d # c => seen'[r][d] = seen[r][d]
    <2>1. CASE q.command \in {"incr", "get"}
      <3>1. seen' = [seen EXCEPT ![r] = With(seen[r], c, window'[c])]
        BY <1>1, <2>1
      <3>2. seen'[r] = With(seen[r], c, window'[c])
        BY <3>1 DEF TypeOK
      <3>3. /\ DOMAIN seen'[r] = DOMAIN seen[r] \cup {c} /\ seen'[r][c] = window'[c]
            /\ \A d \in DOMAIN seen[r] : d # c => seen'[r][d] = seen[r][d]
        BY <3>2 DEF With
      <3> QED BY <2>1, <3>1, <3>3 DEF TypeOK
    <2>2. CASE q.command \notin {"incr", "get"}
      BY <1>1, <2>2 DEF TypeOK
    <2> QED BY <2>1, <2>2
  <1> HIDE DEF q
  <1>11. ASSUME NEW p \in Requests, NEW d \in DOMAIN seen'[p]
         PROVE  d \in Counters /\ seen'[p][d] \in Nat /\ seen'[p][d] <= window'[d]
    <2>1. CASE p = r /\ d = c /\ q.command \in {"incr", "get"}
      BY <1>4, <1>5, <1>10, <2>1
    <2>2. CASE ~(p = r /\ d = c /\ q.command \in {"incr", "get"})
      <3>1. d \in DOMAIN seen[p] /\ seen'[p][d] = seen[p][d]
        BY <1>10, <1>11, <2>2
      <3>2. d \in Counters /\ seen[p][d] \in Nat /\ seen[p][d] <= window[d] /\ window[d] \in Nat
        BY <3>1 DEF TypeOK, CountersInv, WindowsGoOn
      <3>3. window[d] <= window'[d] /\ window'[d] \in Nat
        BY <1>5, <3>2 DEF Goes
      <3> QED BY <3>1, <3>2, <3>3
    <2> QED BY <2>1, <2>2
  <1>12. TypeOK'
    <2>1. \A p \in Requests :
             /\ request'[p] \in RequestType(request'[p].reply)
             /\ DOMAIN request'[p].reply \subseteq Counters \cup {Ping}
             /\ \A d \in DOMAIN request'[p].reply : request'[p].reply[d] \in Int
      <3> SUFFICES ASSUME NEW p \in Requests
                   PROVE  /\ request'[p] \in RequestType(request'[p].reply)
                          /\ DOMAIN request'[p].reply \subseteq Counters \cup {Ping}
                          /\ \A d \in DOMAIN request'[p].reply : request'[p].reply[d] \in Int
        OBVIOUS
      <3>1. CASE p = r
        BY <1>3, <1>4, <1>6, <1>7, <1>8, <1>9, <3>1
      <3>2. CASE p # r
        BY <1>9, <3>2 DEF TypeOK
      <3> QED BY <3>1, <3>2
    <2>2. \A p \in Requests :
             /\ DOMAIN seen'[p] \subseteq Counters
             /\ \A d \in DOMAIN seen'[p] : seen'[p][d] \in Nat
      BY <1>11
    <2>3. up' \in BOOLEAN /\ outages' \in 0..MaxOutages /\ now' \in 0..MaxTime
          /\ admitted' \subseteq Counters \X Nat \X Requests
      BY <1>1 DEF TypeOK
    <2> QED BY <1>5, <1>9, <1>10, <2>1, <2>2, <2>3 DEF TypeOK, RequestType
  <1>13. RequestsAreOnRoute'
    <2> SUFFICES ASSUME NEW p \in Requests
                 PROVE  request'[p] = Unborn \/ Known(p, request[p])'
      BY DEF RequestsAreOnRoute, Known
    <2>1. CASE p # r
      <3>1. request'[p] = request[p] /\ seen'[p] = seen[p]
        BY <1>9, <1>10, <2>1
      <3>2. request[p] = Unborn \/ Known(p, request[p])
        BY IsKnown
      <3> QED BY <3>1, <3>2 DEF Known, Typed, OnRoute, RequestType
    <2>2. CASE p = r
      <3>1. CountersOf(n, q.stage) = CountersOf(q, q.stage)
        BY <1>8, CountersOfFor
      <3>2. OnRoute(n)
        BY <1>3, <1>6, <1>8, <3>1 DEF OnRoute
      <3>3. /\ q.command \in {"incr", "get", "ttl"} => DOMAIN reply \subseteq DOMAIN seen'[r]
            /\ q.command = "ttl" => n.waiting \subseteq DOMAIN seen'[r]
        BY <1>1, <1>2, <1>6, <1>8, <1>10 DEF Known
      <3>4. Typed(n)
        BY <1>3, <1>4, <1>6, <1>7, <1>8 DEF Typed
      <3>5. request'[p] = n
        BY <1>9, <2>2
      <3> QED BY <1>3, <1>8, <2>2, <3>2, <3>3, <3>4, <3>5 DEF Known, Typed, OnRoute, RequestType
    <2> QED BY <2>1, <2>2
  <1>14. WindowsGoOn'
    <2>1. ASSUME NEW a \in admitted
          PROVE  a[2] <= window'[a[1]]
      <3>1. a[1] \in Counters /\ a[2] \in Nat /\ a[2] <= window[a[1]] /\ window[a[1]] \in Nat
        BY DEF TypeOK, CountersInv, WindowsGoOn
      <3>2. window[a[1]] <= window'[a[1]] /\ window'[a[1]] \in Nat
        BY <1>5, <3>1 DEF Goes
      <3> QED BY <3>1, <3>2
    <2>2. \A d \in Counters : counter'[d].value > 0 => now' < counter'[d].expiresAt
      BY <1>5 DEF Goes
    <2> QED BY <1>1, <1>11, <2>1, <2>2 DEF WindowsGoOn
  <1>15. CountsAreKept'
    <2> SUFFICES ASSUME NEW d \in Counters, NEW w \in 0..window'[d]
                 PROVE  /\ Cardinality(Within(d, w)') <= MostOf(d)
                        /\ w = window'[d] /\ counter'[d].value > 0 =>
                               Cardinality(Within(d, w)') <= counter'[d].value
      BY DEF CountsAreKept, MostOf
    <2> DEFINE old == Within(d, w)
               new == Within(d, w)'
    <2>1. /\ Cardinality(old) <= MostOf(d)
          /\ w = window'[d] /\ counter'[d].value > 0 => Cardinality(old) <= counter'[d].value
          /\ w > window[d] => Cardinality(old) = 0
      BY <1>5, CountsGoOn
    <2>2. IsFiniteSet(old) /\ Cardinality(old) \in Nat /\ MostOf(d) \in Nat
      BY WithinIsFinite, MostIsNatural
    <2>3. /\ counter[d].value \in Nat /\ counter'[d].value \in Nat /\ window[d] \in Nat
          /\ w \in Nat /\ window'[d] \in Nat
      BY <1>5 DEF TypeOK
    <2>4. ASSUME NEW p \in new, p \notin old
          PROVE  /\ p = r /\ d = c /\ w = window'[c] /\ q.command = "incr"
                 /\ ReplyTo("incr", c) <= MostOf(c)
      <3>1. /\ p \in Requests /\ request'[p].command = "incr" /\ d \in DOMAIN request'[p].reply
            /\ request'[p].reply[d] <= MostOf(d) /\ seen'[p][d] = w
        BY <1>1, <2>4 DEF Within, MostOf
      <3>2. p = r
        <4>1. CASE p # r
          <5>1. request'[p] = request[p] /\ seen'[p] = seen[p]
            BY <1>9, <1>10, <3>1, <4>1
          <5> QED BY <2>4, <3>1, <5>1 DEF Within
        <4> QED BY <4>1
      <3>3. q.command = "incr" /\ d \in DOMAIN reply /\ reply[d] <= MostOf(d)
        BY <1>8, <1>9, <3>1, <3>2
      <3>4. CASE d # c
        <4>1. d \in DOMAIN q.reply /\ reply[d] = q.reply[d] /\ d \in DOMAIN seen[r]
          BY <1>2, <1>6, <3>3, <3>4 DEF Known
        <4>2. seen[r][d] = w
          BY <1>10, <3>1, <3>2, <3>3, <3>4, <4>1
        <4> QED BY <2>4, <3>1, <3>2, <3>3, <4>1, <4>2 DEF Within, q
      <3>5. CASE d = c
        BY <1>6, <1>10, <3>1, <3>2, <3>3, <3>5
      <3> QED BY <3>4, <3>5
    <2>5. CASE new \subseteq old
      <3> HIDE DEF new, old
      <3>1. IsFiniteSet(new) /\ Cardinality(new) <= Cardinality(old)
        BY <2>2, <2>5, FS_Subset
      <3>2. Cardinality(new) \in Nat
        BY <3>1, FS_CardinalityType
      <3>3. /\ Cardinality(new) <= MostOf(d)
            /\ w = window'[d] /\ counter'[d].value > 0 => Cardinality(new) <= counter'[d].value
        BY <2>1, <2>2, <2>3, <3>1, <3>2
      <3> QED BY <3>3 DEF new
    <2>6. CASE ~(new \subseteq old)
      <3>1. /\ d = c /\ w = window'[c] /\ q.command = "incr" /\ ReplyTo("incr", c) <= MostOf(c)
            /\ new \subseteq old \cup {r}
        BY <2>4, <2>6
      <3>2. /\ counter'[c] = Incremented(c) /\ counter'[c].value <= MostOf(c)
        BY <1>4, <1>5, <3>1 DEF Executed, ReplyTo
      <3>3. Cardinality(old) <= counter'[c].value - 1
        <4>1. CASE counter[c].value = 0
          <5>1. counter'[c].value = 1
            BY <3>2, <4>1 DEF Incremented
          <5>2. window'[c] = window[c] + 1
            BY <1>1, <3>1, <4>1, <5>1 DEF Effect
          <5> QED BY <2>1, <2>3, <3>1, <5>1, <5>2
        <4>2. CASE counter[c].value > 0
          <5>1. counter'[c] = [counter[c] EXCEPT !.value = counter[c].value + 1]
            BY <2>3, <3>1, <3>2, <4>2 DEF Incremented
          <5>2. counter'[c].value = counter[c].value + 1
            BY <3>1, <5>1 DEF TypeOK
          <5>3. window'[c] = window[c]
            BY <1>1, <2>3, <3>1, <4>2 DEF Effect
          <5>4. Cardinality(old) <= counter[c].value
            BY <2>3, <3>1, <4>2, <5>3 DEF CountersInv, CountsAreKept
          <5> QED BY <2>2, <2>3, <3>1, <5>2, <5>4
        <4> QED BY <2>3, <3>1, <4>1, <4>2
      <3> DEFINE more == old \cup {r}
      <3> HIDE DEF new, old
      <3>4. IsFiniteSet(more) /\ Cardinality(more) <= Cardinality(old) + 1
        <4>1. Cardinality(more) = IF r \in old THEN Cardinality(old) ELSE Cardinality(old) + 1
          BY <2>2, FS_AddElement
        <4>2. IsFiniteSet(more)
          BY <2>2, FS_AddElement
        <4> QED BY <2>2, <4>1, <4>2
      <3>5. Cardinality(more) \in Nat
        BY <3>4, FS_CardinalityType
      <3>6. new \subseteq more
        BY <3>1
      <3> HIDE DEF more
      <3>7. IsFiniteSet(new) /\ Cardinality(new) <= Cardinality(more)
        BY <3>4, <3>6, FS_Subset
      <3>8. Cardinality(new) \in Nat
        BY <3>7, FS_CardinalityType
      <3>9. Cardinality(new) <= counter'[c].value /\ counter'[c].value <= MostOf(c)
        BY <2>2, <2>3, <3>1, <3>2, <3>3, <3>4, <3>5, <3>7, <3>8
      <3>10. /\ Cardinality(new) <= MostOf(d)
             /\ w = window'[d] /\ counter'[d].value > 0 => Cardinality(new) <= counter'[d].value
        BY <2>2, <2>3, <3>1, <3>8, <3>9
      <3> QED BY <3>10 DEF new
    <2> QED BY <2>5, <2>6
  <1>16. WaitsAreLongEnough'
    <2> SUFFICES ASSUME NEW p \in Requests, NEW d \in DOMAIN request'[p].reply
                 PROVE  /\ request'[p].command = "ttl" =>
                              /\ request'[p].reply[d] \in Nat \cup {-2}
                              /\ window'[d] = seen'[p][d] /\ counter'[d].value > 0 =>
                                    /\ request'[p].reply[d] # -2
                                    /\ OverBy(counter'[d].expiresAt,
                                              now' + Second * request'[p].reply[d])
                        /\ request'[p].answer = "429" /\ window'[d] = seen'[p][d] /\ counter'[d].value > 0
                              => OverBy(counter'[d].expiresAt, request'[p].until)
      BY DEF WaitsAreLongEnough
    <2>1. CASE request'[p].command # "ttl" /\ request'[p].answer # "429"
      BY <2>1
    <2>2. CASE p = r /\ d = c /\ request'[p].command = "ttl"
      <3>1. /\ q.command = "ttl" /\ request'[p].reply[d] = ReplyTo("ttl", c) /\ request'[p].answer # "429"
            /\ c \in Counters
        BY <1>3, <1>4, <1>6, <1>8, <1>9, <2>2
      <3>2. /\ counter'[c] = counter[c]
            /\ counter[c].value \in Nat /\ counter[c].expiresAt \in Nat /\ now \in Nat /\ now' = now
            /\ counter[c].value > 0 => now < counter[c].expiresAt
        BY <1>1, <1>5, <3>1 DEF Executed, TypeOK, CountersInv, WindowsGoOn
      <3> DEFINE left == counter[c].expiresAt - now
      <3>3. ReplyTo("ttl", c) = IF counter[c].value = 0 THEN -2 ELSE Rounded(left)
        BY DEF ReplyTo
      <3>4. counter[c].value > 0 => left \in Nat /\ now + left = counter[c].expiresAt
        BY <3>2
      <3> HIDE DEF left
      <3>5. counter[c].value > 0 =>
              /\ Rounded(left) \in Nat
              /\ OverBy(counter[c].expiresAt, now + Second * Rounded(left))
        BY <3>2, <3>4, RoundedIs
      <3> QED BY <2>2, <3>1, <3>2, <3>3, <3>5
    <2>3. CASE /\ request'[p].command = "ttl" \/ request'[p].answer = "429"
               /\ ~(p = r /\ d = c /\ request'[p].command = "ttl")
      <3>1. /\ request'[p].command = request[p].command /\ request'[p].answer = request[p].answer
            /\ request'[p].until = request[p].until /\ seen'[p] = seen[p]
            /\ d \in DOMAIN request[p].reply /\ request'[p].reply[d] = request[p].reply[d]
        <4>1. CASE p # r
          BY <1>9, <1>10, <4>1
        <4>2. CASE p = r
          <5>1. q.command = "ttl" /\ d # c
            BY <1>3, <1>8, <1>9, <2>3, <4>2
          <5> QED BY <1>6, <1>8, <1>9, <1>10, <4>2, <5>1 DEF q
        <4> QED BY <4>1, <4>2
      <3>2. /\ request[p].command = "ttl" =>
                  /\ request[p].reply[d] \in Nat \cup {-2}
                  /\ window[d] = seen[p][d] /\ counter[d].value > 0 =>
                        /\ request[p].reply[d] # -2
                        /\ OverBy(counter[d].expiresAt, now + Second * request[p].reply[d])
            /\ request[p].answer = "429" /\ window[d] = seen[p][d] /\ counter[d].value > 0
                  => OverBy(counter[d].expiresAt, request[p].until)
        BY <3>1 DEF CountersInv, WaitsAreLongEnough
      <3>3. d \in DOMAIN seen[p]
        <4>1. request[p] # Unborn
          BY <2>3, <3>1 DEF Unborn
        <4>2. DOMAIN request[p].reply \subseteq DOMAIN seen[p]
          BY <2>3, <3>1, <4>1, IsKnown DEF Known
        <4> QED BY <3>1, <4>2
      <3>4. /\ d \in Counters /\ seen[p][d] \in Nat /\ seen[p][d] <= window[d] /\ window[d] \in Nat
        BY <3>3 DEF TypeOK, CountersInv, WindowsGoOn
      <3>5. Goes(d) /\ window[d] <= window'[d] /\ window'[d] \in Nat
        BY <1>5, <3>4 DEF Goes
      <3>6. ASSUME window'[d] = seen'[p][d], counter'[d].value > 0
            PROVE  /\ window[d] = seen[p][d] /\ counter[d].value > 0
                   /\ counter'[d].expiresAt = counter[d].expiresAt
        <4>1. window'[d] = window[d]
          BY <3>1, <3>4, <3>5, <3>6
        <4> QED BY <3>1, <3>5, <3>6, <4>1 DEF Goes
      <3> QED BY <1>1, <3>1, <3>2, <3>6
    <2> QED BY <2>1, <2>2, <2>3
  <1>17. ComparedWereCounted'
    <2> SUFFICES ASSUME NEW p \in Requests,
                        request'[p].stage \in {"check", "compare", "clear", "failure"}
                 PROVE  \E a \in admitted' : a[1] = <<"auth", request'[p].ip>> /\ a[3] = p
      BY DEF ComparedWereCounted, IsAdmitted
    <2>1. request[p].stage = request'[p].stage /\ request[p].ip = request'[p].ip
      BY <1>8, <1>9 DEF q
    <2> QED BY <1>1, <2>1 DEF CountersInv, ComparedWereCounted, IsAdmitted
  <1>18. FailuresAreCounted'
    <2> SUFFICES ASSUME NEW p \in Requests, request'[p].answer = "401",
                        NEW d \in CountersOf(request'[p], "failure")
                 PROVE  \E a \in admitted' : a[1] = d /\ a[3] = p
      BY DEF FailuresAreCounted, IsAdmitted, CountersOf
    <2>1. p # r
      BY <1>3, <1>8, <1>9
    <2>2. request'[p] = request[p]
      BY <1>9, <2>1
    <2> QED BY <1>1, <2>2 DEF CountersInv, FailuresAreCounted, IsAdmitted
  <1> QED BY <1>12, <1>13, <1>14, <1>15, <1>16, <1>17, <1>18 DEF CountersInv
-----------------------------------------------------------------------------
(* It all holds at first: a counter that is there is in its first window.  *)
LEMMA InitHolds ==
  ASSUME Init
  PROVE  TypeOK /\ CountersInv
  <1>1. ASSUME NEW c \in Counters
        PROVE  /\ counter[c] \in [value : Nat, expiresAt : Nat]
               /\ counter[c].value > 0 => 0 < counter[c].expiresAt
               /\ counter[c].value \in Nat
    <2>1. counter[c] \in {NoKey} \cup UNION {Earlier(b) : b \in Busy}
      BY DEF Init
    <2>2. CASE counter[c] = NoKey
      BY <2>2 DEF NoKey
    <2>3. ASSUME NEW b \in Busy, counter[c] \in Earlier(b)
          PROVE  /\ counter[c] \in [value : Nat, expiresAt : Nat]
                 /\ counter[c].value > 0 => 0 < counter[c].expiresAt
      <3>1. Window[b] \in Nat \ {0}
        BY RateLimitsAssumption
      <3> QED BY <2>3, <3>1 DEF Earlier
    <2> QED BY <2>1, <2>2, <2>3
  <1>2. /\ DOMAIN request = Requests /\ DOMAIN seen = Requests
        /\ \A r \in Requests : request[r] = Unborn /\ seen[r] = <<>>
        /\ counter \in [Counters -> {NoKey} \cup UNION {Earlier(b) : b \in Busy}]
        /\ window = [c \in Counters |-> counter[c].value]
        /\ up = TRUE /\ outages = 0 /\ now = 0 /\ admitted = {}
    BY DEF Init
  <1>3. /\ Unborn \in RequestType(Unborn.reply) /\ Unborn.reply = <<>>
        /\ Unborn.command = "none" /\ Unborn.stage = "none" /\ Unborn.answer = "none"
    BY DEF Unborn, RequestType, Stages, Commands
  <1>4. \A r \in Requests : DOMAIN request[r].reply = {} /\ DOMAIN seen[r] = {}
    BY <1>2, <1>3
  <1>5. TypeOK
    <2>1. counter \in [Counters -> [value : Nat, expiresAt : Nat]]
      BY <1>1, <1>2
    <2>2. window \in [Counters -> Nat]
      BY <1>1, <1>2
    <2>3. \A r \in Requests :
             /\ request[r] \in RequestType(request[r].reply)
             /\ DOMAIN request[r].reply \subseteq Counters \cup {Ping}
             /\ \A c \in DOMAIN request[r].reply : request[r].reply[c] \in Int
             /\ DOMAIN seen[r] \subseteq Counters
             /\ \A c \in DOMAIN seen[r] : seen[r][c] \in Nat
      BY <1>2, <1>3, <1>4
    <2>4. outages \in 0..MaxOutages /\ now \in 0..MaxTime
      BY <1>2, RateLimitsAssumption
    <2> QED BY <1>2, <2>1, <2>2, <2>3, <2>4 DEF TypeOK
  <1>6. RequestsAreOnRoute
    BY <1>2 DEF RequestsAreOnRoute
  <1>7. WindowsGoOn
    BY <1>1, <1>2, <1>4 DEF WindowsGoOn
  <1>8. CountsAreKept
    <2> SUFFICES ASSUME NEW c \in Counters, NEW w \in 0..window[c]
                 PROVE  /\ Cardinality(Within(c, w)) <= MostOf(c)
                        /\ w = window[c] /\ counter[c].value > 0 =>
                               Cardinality(Within(c, w)) <= counter[c].value
      BY DEF CountsAreKept
    <2>1. Within(c, w) = {}
      BY <1>2, <1>4 DEF Within
    <2>2. Cardinality(Within(c, w)) = 0
      BY <2>1, FS_EmptySet
    <2> QED BY <1>1, <2>2, MostIsNatural
  <1>9. WaitsAreLongEnough
    BY <1>4 DEF WaitsAreLongEnough
  <1>10. ComparedWereCounted /\ FailuresAreCounted
    BY <1>2, <1>3 DEF ComparedWereCounted, FailuresAreCounted
  <1> QED BY <1>5, <1>6, <1>7, <1>8, <1>9, <1>10 DEF CountersInv

(* Every step keeps it.                                                    *)
LEMMA NextKeeps ==
  ASSUME TypeOK, CountersInv, [Next]_vars
  PROVE  TypeOK' /\ CountersInv'
  <1>1. ASSUME NEW r \in Requests, Begin(r) \/ RedisAnswers(r) \/ Continue(r)
        PROVE  TypeOK' /\ CountersInv'
    <2>1. CASE RedisAnswers(r)
      BY <2>1, ExecuteKeeps DEF RedisAnswers
    <2> QED BY <1>1, <2>1, BeginKeeps, ContinueKeeps
  <1>2. CASE UNCHANGED vars
    <2>1. UNCHANGED <<counter, up, outages, now, request, window, seen, admitted>>
      BY <1>2 DEF vars
    <2>2. \A d \in Counters : Goes(d)
      BY <2>1 DEF TypeOK, CountersInv, WindowsGoOn, Goes
    <2>3. now' \in 0..MaxTime /\ now <= now'
      BY <2>1 DEF TypeOK
    <2> QED BY <2>1, <2>2, <2>3, OutsideKeeps DEF TypeOK
  <1>3. CASE Next
    BY <1>1, <1>2, <1>3, DisconnectKeeps, ReconnectKeeps, TickKeeps DEF Next, Idle
  <1> QED BY <1>2, <1>3

(* Every reachable state is typed, and its counters keep count.            *)
THEOREM CountersAreKept == Spec => [](TypeOK /\ CountersInv)
  <1>1. Init => TypeOK /\ CountersInv
    BY InitHolds
  <1>2. TypeOK /\ CountersInv /\ [Next]_vars => TypeOK' /\ CountersInv'
    BY NextKeeps
  <1> QED BY <1>1, <1>2, PTL DEF Spec

(* Counters, commands and requests are of their types.                     *)
THEOREM TypeCorrect == Spec => []TypeOK
  BY CountersAreKept, PTL

(* A window never admits more than the limit: each of those it admitted    *)
(* has been told a count of its own (INCR_WITH_EXPIRE_SCRIPT is one step), *)
(* so the count is at least their number.                                  *)
THEOREM LimitsAreKept == Spec => []LimitsHold
  <1>1. TypeOK /\ CountersInv => LimitsHold
    <2> SUFFICES ASSUME TypeOK, CountersInv, NEW c \in Counters, NEW w \in 1..window[c]
                 PROVE  Cardinality({r \in Requests : <<c, w, r>> \in admitted})
                          + (IF c[1] \in {"email", "ip"} THEN 1 ELSE 0) <= Limit[c[1]]
      BY DEF LimitsHold
    <2> DEFINE served == {r \in Requests : <<c, w, r>> \in admitted}
               within == Within(c, w)
    <2>1. served \subseteq within
      BY DEF Within
    <2>2. IsFiniteSet(within) /\ Cardinality(within) \in Nat
      BY WithinIsFinite
    <2>3. Cardinality(within) <= MostOf(c)
      <3>1. w \in 0..window[c]
        BY DEF TypeOK
      <3> QED BY <3>1 DEF CountersInv, CountsAreKept
    <2> HIDE DEF served, within
    <2>4. IsFiniteSet(served) /\ Cardinality(served) <= Cardinality(within)
      BY <2>1, <2>2, FS_Subset
    <2>5. Cardinality(served) \in Nat
      BY <2>4, FS_CardinalityType
    <2>6. Cardinality(served) + (IF c[1] \in {"email", "ip"} THEN 1 ELSE 0) <= Limit[c[1]]
      BY <2>2, <2>3, <2>4, <2>5, MostIsNatural
    <2> QED BY <2>6 DEF served
  <1> QED BY <1>1, CountersAreKept, PTL

(* Who waits half a second longer than retry_after says finds the windows  *)
(* over: a TTL that was read is too short by its rounding at most, the     *)
(* answer is as long as the longest, and a key that is there still expires *)
(* when it was to.                                                         *)
THEOREM WaitingIsEnough == Spec => []RetryAfterIsEnough
  <1>1. TypeOK /\ CountersInv => RetryAfterIsEnough
    <2> SUFFICES ASSUME TypeOK, CountersInv, NEW r \in Requests, request[r].answer = "429",
                        NEW c \in DOMAIN request[r].reply,
                        2 * (now - request[r].until) >= Second, window[c] = seen[r][c]
                 PROVE  counter[c].value = 0
      BY DEF RetryAfterIsEnough
    <2>1. request[r] # Unborn
      BY DEF Unborn
    <2>2. c \in Counters /\ request[r].until \in Nat
      BY <2>1, IsKnown DEF Known, Typed, RequestType, TypeOK
    <2>3. counter[c].value \in Nat /\ counter[c].expiresAt \in Nat /\ now \in Nat
      BY <2>2 DEF TypeOK
    <2>4. counter[c].value > 0 => OverBy(counter[c].expiresAt, request[r].until)
      BY DEF CountersInv, WaitsAreLongEnough
    <2>5. counter[c].value > 0 => now < counter[c].expiresAt
      BY <2>2 DEF CountersInv, WindowsGoOn
    <2> QED BY <2>2, <2>3, <2>4, <2>5, RateLimitsAssumption DEF OverBy
  <1> QED BY <1>1, CountersAreKept, PTL

(* No password is compared for a request that the stricter guard has not   *)
(* counted, through whatever outages.                                      *)
THEOREM ComparedAreCounted == Spec => []ComparedWereCounted
  BY CountersAreKept, PTL DEF CountersInv

(* A wrong password is not answered before it is counted twice.            *)
THEOREM FailuresCount == Spec => []FailuresAreCounted
  BY CountersAreKept, PTL DEF CountersInv
=============================================================================
