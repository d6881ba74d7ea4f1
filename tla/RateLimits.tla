----------------------------- MODULE RateLimits -----------------------------
(***************************************************************************)
(* The counters in Redis that limit requests: the guard in front of every  *)
(* endpoint, the stricter one in front of /api/auth, the limits of login   *)
(* failures, of public verification requests and of a session's requests,  *)
(* and the probe of /api/health/ready.                                     *)
(*                                                                         *)
(* A request passes through stages.  In each it sends commands to Redis,   *)
(* waits for all replies, and goes on, asks for the TTL of the counters    *)
(* that refuse it, or fails.  Commands of different requests interleave.   *)
(* A lost connection rejects the commands that are in flight, executed or  *)
(* not; commands sent before the client has reconnected wait for it.       *)
(***************************************************************************)
EXTENDS Integers, FiniteSets, FiniteSetsExt

CONSTANTS
    Requests,    \* requests, numbered in the order of their arrival
    Kinds,       \* the kinds of requests made, out of AllKinds
    Ips,         \* addresses of clients
    Emails,      \* addresses signed in with
    Sessions,    \* sessions that make authenticated requests
    Limit,       \* scope -> the maximum of its counters
    Window,      \* scope -> seconds until its counters expire
    Busy,        \* scopes whose counters may hold an earlier request's count
    Second,      \* ticks of the clock in a second; Redis counts 1000
    MaxTime,     \* bound: the clock stops there
    MaxOutages,  \* bound: connections lost
    Ping         \* stands for the key of a PING, which has none

(* Below /api/auth: logins, public requests for a code, and those of an    *)
(* account that is signed in.  Elsewhere: those of such an account, and    *)
(* readiness, which the guard lets pass.                                   *)
AllKinds == {"login", "verification", "api", "account", "ready"}
Scopes == {"api", "auth", "public", "session", "email", "ip"}

(* The keys of the counters.                                               *)
Counters == {"api", "auth", "public", "ip"} \X Ips
              \cup {"email"} \X Emails \cup {"session"} \X Sessions

ASSUME RateLimitsAssumption ==
    /\ Requests \subseteq Nat /\ IsFiniteSet(Requests)
    /\ Kinds \subseteq AllKinds
    /\ Limit \in [Scopes -> Nat \ {0}]
    /\ Window \in [Scopes -> Nat \ {0}]
    /\ Window["email"] = Window["ip"]     \* LOGIN_RATE_LIMIT_WINDOW
    /\ Busy \subseteq Scopes
    /\ Second \in Nat \ {0}
    /\ MaxTime \in Nat /\ MaxOutages \in Nat
    /\ Ping \notin Counters

VARIABLES
    counter,   \* counter -> value and expiry; value 0: no key
    up,        \* the client is connected
    outages,   \* connections lost so far
    now,       \* the clock, in ticks
    request,   \* request -> where it stands
    window,    \* history: how often the key of a counter was created
    seen,      \* history: request -> counter -> the window it was read in
    admitted   \* history: <<c, w, r>> when r was admitted, or answered 401,
               \* by the count of window w of c

vars == <<counter, up, outages, now, request, window, seen, admitted>>
-----------------------------------------------------------------------------
NoKey == [value |-> 0, expiresAt |-> 0]

Unborn == [kind |-> "none", ip |-> "none", id |-> "none", stage |-> "none",
           command |-> "none", waiting |-> {}, reply |-> <<>>,
           failed |-> FALSE, error |-> "none", answer |-> "none", until |-> 0]

(* What one request, made before, has left of a counter.                   *)
Earlier(scope) == [value : {1}, expiresAt : 1..Second * Window[scope]]

Init ==
    /\ counter \in [Counters -> {NoKey} \cup UNION {Earlier(b) : b \in Busy}]
    /\ \A c \in Counters : c[1] \in Busy \/ counter[c] = NoKey
    /\ up = TRUE /\ outages = 0 /\ now = 0
    /\ request = [r \in Requests |-> Unborn]
    /\ window = [c \in Counters |-> counter[c].value]
    /\ seen = [r \in Requests |-> <<>>]
    /\ admitted = {}

(* The counters that a stage of request q reads, increments or deletes.    *)
CountersOf(q, stage) ==
    CASE stage \in {"api", "auth", "public"} -> {<<stage, q.ip>>}
      [] stage = "session" -> {<<"session", q.id>>}
      [] stage \in {"check", "failure"} -> {<<"email", q.id>>, <<"ip", q.ip>>}
      [] stage = "clear" -> {<<"email", q.id>>}
      [] stage = "ping" -> {Ping}

CommandOf(stage) ==
    CASE stage = "check" -> "get"
      [] stage = "clear" -> "del"
      [] stage = "ping" -> "ping"
      [] OTHER -> "incr"

(* ApiRateLimitGuard, then the limiter of the endpoint.                    *)
After(kind, stage) ==
    CASE stage = "api" /\ kind = "api" -> "session"
      [] stage = "api" /\ kind # "api" -> "auth"
      [] stage = "auth" /\ kind = "login" -> "check"
      [] stage = "auth" /\ kind = "verification" -> "public"
      [] stage = "auth" /\ kind = "account" -> "session"
      [] stage \in {"public", "session"} -> "served"

(* Request q sends a command for each of the counters cs.                  *)
Sends(q, command, cs) ==
    [q EXCEPT !.command = command, !.waiting = cs, !.reply = <<>>,
              !.failed = FALSE]

Answers(q, status) ==
    [Sends(q, "none", {}) EXCEPT !.answer = status, !.stage = "answered"]

Enters(q, stage) ==
    IF stage = "served" THEN Answers(q, "200")
    ELSE [Sends(q, CommandOf(stage), CountersOf(q, stage))
            EXCEPT !.stage = stage]
(* No continuation is due: the event loop runs those that a reply allows   *)
(* before it looks at the next event.                                      *)
Quiet ==
    \A r \in Requests :
        request[r].command = "none" \/ request[r].waiting # {}

-----------------------------------------------------------------------------
(* Requests arrive.                                                        *)

(* Ids of the requests of a kind: the address or the session they are for. *)
IdsOf(kind) == CASE kind = "login" -> Emails
                 [] kind \in {"api", "account"} -> Sessions
                 [] OTHER -> {"none"}

Begin(r) ==
    /\ Quiet
    /\ request[r] = Unborn
    /\ \A earlier \in Requests : earlier < r => request[earlier] # Unborn
    /\ \E kind \in Kinds, ip \in Ips : \E id \in IdsOf(kind) :
           request' = [request EXCEPT ![r] =
               Enters([Unborn EXCEPT !.kind = kind, !.ip = ip, !.id = id],
                      IF kind = "ready" THEN "ping" ELSE "api")]
    /\ UNCHANGED <<counter, up, outages, now, window, seen, admitted>>
-----------------------------------------------------------------------------
(* Redis.                                                                  *)

(* f, with the value v for c.                                              *)
With(f, c, v) == [d \in DOMAIN f \cup {c} |-> IF d = c THEN v ELSE f[d]]

(* INCR_WITH_EXPIRE_SCRIPT: the expiry is set once, when there is none.    *)
Incremented(c) ==
    IF counter[c].value = 0
    THEN [value |-> 1, expiresAt |-> now + Second * Window[c[1]]]
    ELSE [counter[c] EXCEPT !.value = @ + 1]

(* What a command leaves of counter c.                                     *)
Executed(command, c) ==
    CASE command = "incr" -> Incremented(c)
      [] command = "del" -> NoKey
      [] OTHER -> counter[c]

(* Redis answers TTL in whole seconds, to the nearest, and half a second   *)
(* up: less than that is answered 0, though the key is there.              *)
Rounded(ticks) == (2 * ticks + Second) \div (2 * Second)

ReplyTo(command, c) ==
    CASE command = "incr" -> Incremented(c).value
      [] command = "get" -> counter[c].value
      [] command = "ttl" -> IF counter[c].value = 0 THEN -2
                            ELSE Rounded(counter[c].expiresAt - now)
      [] command \in {"del", "ping"} -> 0

(* Redis executes the command of r for c.                                  *)
Effect(r, c) ==
    /\ counter' = [d \in Counters |-> IF d = c
                                      THEN Executed(request[r].command, c)
                                      ELSE counter[d]]
    /\ window' = [d \in Counters |->
           IF counter[d].value = 0 /\ counter'[d].value > 0
           THEN window[d] + 1 ELSE window[d]]

(* It does, and the reply arrives.                                         *)
Execute(r, c) ==
    /\ up /\ Quiet
    /\ c \in request[r].waiting
    /\ Effect(r, c)
    /\ request' = [request EXCEPT
           ![r] = [request[r] EXCEPT !.waiting = @ \ {c},
                                     !.reply = With(@, c, ReplyTo(request[r].command, c))]]
    /\ seen' = IF request[r].command \in {"incr", "get"}
               THEN [seen EXCEPT ![r] = With(@, c, window'[c])]
               ELSE seen
    /\ UNCHANGED <<up, outages, now, admitted>>

(* Every command in flight is rejected.                                    *)
Rejected == [r \in Requests |->
                IF request[r].waiting = {} THEN request[r]
                ELSE [request[r] EXCEPT !.waiting = {}, !.failed = TRUE]]

(* The connection breaks: after Redis has executed a command whose reply   *)
(* is lost; or Redis restarts without the counters, for which              *)
(* docker-compose.yml names neither a volume nor a log.                    *)
Disconnect ==
    /\ up /\ Quiet /\ outages < MaxOutages
    /\ up' = FALSE
    /\ outages' = outages + 1
    /\ request' = Rejected
    /\ \/ UNCHANGED <<counter, window>>
       \/ \E r \in Requests : \E c \in request[r].waiting : Effect(r, c)
       \/ /\ counter' = [c \in Counters |-> NoKey]
          /\ UNCHANGED window
    /\ UNCHANGED <<now, seen, admitted>>

(* Fault: reconnectStrategy gives up after the first outage.               *)
GivingUpReconnect ==
    /\ ~up /\ Quiet /\ outages = 0
    /\ up' = TRUE
    /\ UNCHANGED <<counter, outages, now, request, window, seen, admitted>>

(* reconnectStrategy never gives up.  The client keeps what was sent in    *)
(* the meantime (request[r].waiting) and sends it now.                     *)
Reconnect ==
    /\ ~up /\ Quiet
    /\ up' = TRUE
    /\ UNCHANGED <<counter, outages, now, request, window, seen, admitted>>

Tick ==
    /\ now < MaxTime /\ Quiet
    /\ now' = now + 1
    /\ counter' = [c \in Counters |->
           IF counter[c].expiresAt <= now' THEN NoKey ELSE counter[c]]
    /\ UNCHANGED <<up, outages, request, window, seen, admitted>>
-----------------------------------------------------------------------------
(* The program goes on with the replies to a request.                      *)

Replied(r, stages, command) ==
    /\ request[r].stage \in stages
    /\ request[r].command = command
    /\ request[r].waiting = {}

Guards == {"api", "auth", "public", "session"}

(* Fault: a login is refused when the maximum is exceeded.                 *)
LateRefusing(r) ==
    {c \in DOMAIN request[r].reply : request[r].reply[c] > Limit[c[1]]}

(* The counters that refuse request r: a guard counts the request itself,  *)
(* a login is refused once its failures have reached the maximum.          *)
Refusing(r) ==
    {c \in DOMAIN request[r].reply :
        IF request[r].stage \in Guards
        THEN request[r].reply[c] > Limit[c[1]]
        ELSE request[r].reply[c] >= Limit[c[1]]}

Becomes(r, q) ==
    /\ request' = [request EXCEPT ![r] = q]
    /\ UNCHANGED <<counter, up, outages, now, window, seen>>

(* r goes on by the counts it has seen of the counters cs.                 *)
Admits(r, cs) ==
    admitted' = admitted \cup {<<c, seen[r][c], r>> : c \in cs}

(* consume: within the limit.                                              *)
Pass(r) ==
    /\ Replied(r, Guards, "incr")
    /\ ~request[r].failed /\ Refusing(r) = {}
    /\ Becomes(r, Enters(request[r], After(request[r].kind, request[r].stage)))
    /\ Admits(r, DOMAIN request[r].reply)

(* rejectIfLimited, consume: over the limit, how long do the counters last?*)
AskTtl(r) ==
    /\ \/ Replied(r, Guards \cup {"failure"}, "incr")
       \/ Replied(r, {"check"}, "get")
    /\ ~request[r].failed /\ Refusing(r) # {}
    /\ Becomes(r, Sends(request[r], "ttl", Refusing(r)))
    /\ UNCHANGED admitted

(* Fault: the counter that expires first.                                  *)
FirstRetryAfter(reply) ==
    LET active == {reply[c] : c \in DOMAIN reply} \ {-2, 0}
    IN  IF active = {} THEN 1 ELSE Min(active)

(* Fault: the TTL of a counter that has expired meanwhile is not left out. *)
NaiveRetryAfter(reply) == Max({reply[c] : c \in DOMAIN reply})

(* getRetryAfter                                                           *)
RetryAfter(reply) ==
    LET active == {reply[c] : c \in DOMAIN reply} \ {-2, 0}
    IN  IF active = {} THEN 1 ELSE Max(active)

Refuse(r) ==
    /\ Replied(r, Guards \cup {"check", "failure"}, "ttl")
    /\ ~request[r].failed
    /\ Becomes(r, [Answers(request[r], "429") EXCEPT
                     !.reply = request[r].reply,
                     !.until = now + Second * RetryAfter(request[r].reply)])
    /\ UNCHANGED admitted

(* Fault: so does the guard of the authentication endpoints.               *)
AllFailOpen == {"api", "session", "auth"}

(* What a limiter that cannot reach Redis does: consumeGeneralSafely and   *)
(* SessionRateLimitService let the request pass, consumeAuthentication and *)
(* the others do not.                                                      *)
FailsOpen == {"api", "session"}

StatusOf(stage) == IF stage \in {"auth", "ping"} THEN "503" ELSE "500"

LimiterFails(r) ==
    /\ request[r].stage \in Guards \cup {"check", "failure", "ping"}
    /\ request[r].waiting = {} /\ request[r].failed
    /\ Becomes(r, IF request[r].stage \in FailsOpen
                  THEN Enters(request[r],
                              After(request[r].kind, request[r].stage))
                  ELSE Answers(request[r], StatusOf(request[r].stage)))
    /\ UNCHANGED admitted

(* LocalStrategy.validate: the limits allow it, the password is compared.  *)
Allow(r) ==
    /\ Replied(r, {"check"}, "get")
    /\ ~request[r].failed /\ Refusing(r) = {}
    /\ Becomes(r, [Sends(request[r], "none", {}) EXCEPT !.stage = "compare"])
    /\ UNCHANGED admitted

Compare(r) ==
    /\ request[r].stage = "compare"
    /\ \/ Becomes(r, Enters(request[r], "clear"))
       \/ Becomes(r, [Enters(request[r], "failure") EXCEPT !.error = "401"])
    /\ UNCHANGED admitted

(* clearEmailFailures: its own failure is caught, and registered, as if it *)
(* were the password's.                                                    *)
Cleared(r) ==
    /\ Replied(r, {"clear"}, "del")
    /\ Becomes(r, IF request[r].failed
                  THEN [Enters(request[r], "failure") EXCEPT !.error = "500"]
                  ELSE Answers(request[r], "200"))
    /\ UNCHANGED admitted

(* Fault: the error is thrown without waiting for registerFailure.         *)
HastyThrow(r) ==
    /\ request[r].stage = "failure" /\ request[r].command = "incr"
    /\ Becomes(r, Answers(request[r], request[r].error))
    /\ Admits(r, DOMAIN request[r].reply)

(* registerFailure: below the limits, the error is thrown on.              *)
Throw(r) ==
    /\ Replied(r, {"failure"}, "incr")
    /\ ~request[r].failed /\ Refusing(r) = {}
    /\ Becomes(r, Answers(request[r], request[r].error))
    /\ Admits(r, DOMAIN request[r].reply)

(* HealthController.ready                                                  *)
Ready(r) ==
    /\ Replied(r, {"ping"}, "ping")
    /\ ~request[r].failed
    /\ Becomes(r, Answers(request[r], "200"))
    /\ UNCHANGED admitted

Continue(r) ==
    \/ Pass(r) \/ AskTtl(r) \/ Refuse(r) \/ LimiterFails(r)
    \/ Allow(r) \/ Compare(r) \/ Cleared(r) \/ Throw(r) \/ Ready(r)

RedisAnswers(r) == \E c \in request[r].waiting : Execute(r, c)

(* The clock runs on; RequestsAreAnswered says that nothing got stuck.     *)
Idle == now = MaxTime /\ UNCHANGED vars

Next ==
    \/ \E r \in Requests : Begin(r) \/ RedisAnswers(r) \/ Continue(r)
    \/ Disconnect \/ Reconnect \/ Tick \/ Idle

Spec == Init /\ [][Next]_vars

(* What the event loop and a Redis that answers do in the end.             *)
OutageSpec ==
    /\ Spec
    /\ \A r \in Requests : WF_vars(RedisAnswers(r)) /\ WF_vars(Continue(r))

(* And the connection comes back in the end.                               *)
FairSpec == OutageSpec /\ WF_vars(Reconnect)
-----------------------------------------------------------------------------
(* Types.                                                                  *)
Commands == {"none", "incr", "get", "ttl", "del", "ping"}

Stages == Guards \cup {"none", "check", "compare", "clear", "failure", "ping", "answered"}

RequestType(reply) ==
    [kind : Kinds \cup {"none"}, ip : Ips \cup {"none"},
     id : Emails \cup Sessions \cup {"none"}, stage : Stages, command : Commands,
     waiting : SUBSET (Counters \cup {Ping}), reply : {reply}, failed : BOOLEAN,
     error : {"none", "401", "500"}, answer : {"none", "200", "401", "429", "500", "503"},
     until : Nat]

(* The types of the counters, the connection and the requests.             *)
TypeOK ==
    /\ counter \in [Counters -> [value : Nat, expiresAt : Nat]]
    /\ up \in BOOLEAN /\ outages \in 0..MaxOutages /\ now \in 0..MaxTime
    /\ window \in [Counters -> Nat]
    /\ DOMAIN request = Requests /\ DOMAIN seen = Requests
    /\ \A r \in Requests :
          /\ request[r] \in RequestType(request[r].reply)
          /\ DOMAIN request[r].reply \subseteq Counters \cup {Ping}
          /\ \A c \in DOMAIN request[r].reply : request[r].reply[c] \in Int
          /\ DOMAIN seen[r] \subseteq Counters
          /\ \A c \in DOMAIN seen[r] : seen[r][c] \in Nat
    /\ admitted \subseteq Counters \X Nat \X Requests

(* What holds besides: why the properties below do.                        *)

StagesOf(kind) ==
    CASE kind = "login" -> {"api", "auth", "check", "compare", "clear", "failure"}
      [] kind = "verification" -> {"api", "auth", "public"}
      [] kind = "api" -> {"api", "session"}
      [] kind = "account" -> {"api", "auth", "session"}
      [] kind = "ready" -> {"ping"}

(* A request is at a stage of its kind and asks about the counters of it.  *)
OnRoute(q) ==
    /\ q.kind \in Kinds /\ q.ip \in Ips /\ q.id \in IdsOf(q.kind)
    /\ q.stage \in StagesOf(q.kind) \cup {"answered"}
    /\ q.stage = "answered" <=> q.answer # "none"
    /\ q.stage \in {"compare", "answered"} => q.command = "none"
    /\ q.stage \notin {"compare", "answered"} =>
          /\ q.command = CommandOf(q.stage) \/ (q.command = "ttl" /\ q.stage \notin {"clear", "ping"})
          /\ q.waiting \cup DOMAIN q.reply \subseteq CountersOf(q, q.stage)
          /\ q.command # "ttl" /\ ~q.failed =>
                CountersOf(q, q.stage) \subseteq q.waiting \cup DOMAIN q.reply
    /\ q.command = "none" => q.waiting = {}
    /\ q.stage = "failure" => q.error # "none"
    /\ q.answer = "none" => q.until = 0

(* What a request asks the TTL of, or was refused for, it has read.        *)
RequestsAreOnRoute ==
    \A r \in Requests :
        \/ request[r] = Unborn
        \/ /\ OnRoute(request[r])
           /\ request[r].command \in {"incr", "get", "ttl"} \/ request[r].answer = "429" =>
                 DOMAIN request[r].reply \subseteq DOMAIN seen[r]
           /\ request[r].command = "ttl" => request[r].waiting \subseteq DOMAIN seen[r]

(* A key that is there lasts; windows that were read are no later ones.    *)
WindowsGoOn ==
    /\ \A c \in Counters : counter[c].value > 0 => now < counter[c].expiresAt
    /\ \A r \in Requests : \A c \in DOMAIN seen[r] : seen[r][c] <= window[c]
    /\ \A a \in admitted : a[2] <= window[a[1]]

(* The most that window w of c may admit.                                  *)
MostOf(c) == IF c[1] \in {"email", "ip"} THEN Limit[c[1]] - 1 ELSE Limit[c[1]]

(* The requests that the count of window w of c has admitted, or is about  *)
(* to when its other counters have replied.                                *)
Within(c, w) ==
    {r \in Requests :
        \/ <<c, w, r>> \in admitted
        \/ /\ request[r].command = "incr" /\ c \in DOMAIN request[r].reply
           /\ request[r].reply[c] <= MostOf(c) /\ seen[r][c] = w}

CountsAreKept ==
    \A c \in Counters : \A w \in 0..window[c] :
        /\ Cardinality(Within(c, w)) <= MostOf(c)
        /\ w = window[c] /\ counter[c].value > 0 =>
               Cardinality(Within(c, w)) <= counter[c].value

(* What ends then is over at that time, or less than half a second later.  *)
OverBy(end, time) == 2 * (end - time) < Second

(* A TTL that was read is not too short, but for its rounding, and what is *)
(* answered is as long as the longest.                                     *)
WaitsAreLongEnough ==
    \A r \in Requests : \A c \in DOMAIN request[r].reply :
        LET ttl == request[r].reply[c]
            last == window[c] = seen[r][c] /\ counter[c].value > 0
        IN  /\ request[r].command = "ttl" =>
                  /\ ttl \in Nat \cup {-2}
                  /\ last => ttl # -2 /\ OverBy(counter[c].expiresAt, now + Second * ttl)
            /\ request[r].answer = "429" /\ last =>
                  OverBy(counter[c].expiresAt, request[r].until)

(* In one window of a counter no more requests are admitted than its limit *)
(* says, and fewer than that many logins are answered 401, however many of *)
(* them checked the counters before one of them counted its failure        *)
(* (ApiRateLimitGuard.consume; assertAllowed and registerFailure).         *)
LimitsHold ==
    \A c \in Counters : \A w \in 1..window[c] :
        LET served == {r \in Requests : <<c, w, r>> \in admitted}
        IN  Cardinality(served) + (IF c[1] \in {"email", "ip"} THEN 1 ELSE 0)
              <= Limit[c[1]]

(* A client that was answered 429 and waits as long as retry_after says,   *)
(* and half a second more, finds every window that refused it over,        *)
(* whoever counted meanwhile (getRetryAfter, and the script, which never   *)
(* extends a window).  Without the half second it may be refused again:    *)
(* the TTL of Redis is rounded, 10.4 seconds are answered as 10.           *)
RetryAfterIsEnough ==
    \A r \in Requests : request[r].answer = "429" =>
        \A c \in DOMAIN request[r].reply :
            2 * (now - request[r].until) >= Second /\ window[c] = seen[r][c]
              => counter[c].value = 0

IsAdmitted(r, c) == \E a \in admitted : a[1] = c /\ a[3] = r

(* Failures are looked up, and a password is compared, only for a request  *)
(* that the guard of the authentication endpoints has counted, whatever    *)
(* becomes of Redis (consumeAuthentication fails closed).                  *)
ComparedWereCounted ==
    \A r \in Requests : request[r].stage \in {"check", "compare", "clear", "failure"} =>
        IsAdmitted(r, <<"auth", request[r].ip>>)

(* A login that was answered 401 has been counted by both of its counters  *)
(* (LocalStrategy.validate awaits registerFailure before it throws).       *)
FailuresAreCounted ==
    \A r \in Requests : request[r].answer = "401" =>
        \A c \in CountersOf(request[r], "failure") : IsAdmitted(r, c)

(* What guards and limiters keep in every state, whatever is in flight:    *)
(* the inductive invariant of the four properties above.                   *)
CountersInv ==
    /\ RequestsAreOnRoute /\ WindowsGoOn /\ CountsAreKept /\ WaitsAreLongEnough
    /\ ComparedWereCounted /\ FailuresAreCounted

(* Every request is answered, through outages of Redis, as long as the     *)
(* connection comes back.                                                  *)
RequestsAreAnswered ==
    \A r \in Requests :
        request[r].stage # "none" ~> request[r].stage = "answered"

(* README.md: "General API and per-session throttling fail open so an      *)
(* infrastructure problem in Redis does not unnecessarily take down        *)
(* ordinary authenticated API traffic"; "Readiness still reports Redis as  *)
(* unavailable": both are answered even when the connection does not come  *)
(* back.                                                                   *)
OutagesAreSurvived ==
    \A r \in Requests :
        request[r].kind \in {"api", "ready"} ~> request[r].stage = "answered"
=============================================================================
