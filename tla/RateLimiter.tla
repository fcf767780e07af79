---------------------------- MODULE RateLimiter ----------------------------
(***************************************************************************)
(* checkRateLimit in internal/gateway/pipeline.go: the counter that limits *)
(* a managed endpoint.  Every request of an (app, endpoint) pair that has  *)
(* a limited policy INCRs one Redis key; the request that creates the key  *)
(* gives it a time to live with a second command, whose result is thrown   *)
(* away; a request that read more than the limit is answered 429.          *)
(*                                                                         *)
(* Requests of any number of gateway processes run concurrently.  A Redis  *)
(* command is one step of the server; the steps of two requests, and the   *)
(* clock, interleave between commands.  A command of a Faulty request can  *)
(* fail (server down, request context cancelled), the gateway process can  *)
(* die between two commands, and the reply of a command can be lost: the   *)
(* client, which internal/shared/cache/redis.go leaves at its defaults,    *)
(* then sends the command again, though the server has executed it.        *)
(***************************************************************************)
EXTENDS Naturals, FiniteSets, Sequences

CONSTANTS Requests,   \* requests that reach the limiter
          Apps,       \* X-App-ID values
          Endpoints,  \* endpoint ids
          Limit,      \* policy.RateLimit, positive or the limiter is skipped
          Window,     \* the 60 seconds of EXPIRE, in clock ticks
          Retries,    \* how often the Redis client sends a command again
          MaxTime,    \* bound: requests arrive before this tick
          Faulty      \* requests whose Redis commands and process can fail

ASSUME LimiterAssumption ==
    /\ IsFiniteSet(Requests)
    /\ Limit \in Nat \ {0}
    /\ Window \in Nat \ {0}
    /\ Retries \in Nat
    /\ MaxTime \in Nat
    /\ Faulty \subseteq Requests

\* Mutant: the endpoint is missing from the key.
Key_AppOnly(a, e) == <<a>>

\* key := fmt.Sprintf("rate:%s:%s", appID, endpointID)
Key(a, e) == <<a, e>>

Keys == {Key(a, e) : a \in Apps, e \in Endpoints}

VARIABLES
    count,  \* Redis: the value of each key, 0 when the key does not exist
    ttl,    \* Redis: ticks the key has left, 0 when it has no expiry
    pc,     \* where each request is in checkRateLimit, or how it ended
    app,    \* the X-App-ID of a request
    ep,     \* the endpoint of a request
    got,    \* the count INCR returned to a request, 0 before
    now,    \* the clock
    win,    \* history: the life of each key, counted from 1
    lives,  \* the INCRs sent for a request and executed: the life each counted in
    gen,    \* history: the life the answered INCR counted in, 0 for none
    at,     \* history: the tick at which it was
    orphan  \* history: this life of the key has nobody left to expire it

redisVars == <<count, ttl, win, orphan>>
vars == <<count, ttl, pc, app, ep, got, now, win, lives, gen, at, orphan>>

KeyOf(r) == Key(app[r], ep[r])

States == {"new", "expire", "decide", "admitted", "limited", "dead"}

TypeOK ==
    /\ count \in [Keys -> Nat]
    /\ ttl \in [Keys -> 0..Window]
    /\ pc \in [Requests -> States]
    /\ app \in [Requests -> Apps]
    /\ ep \in [Requests -> Endpoints]
    /\ got \in [Requests -> Nat]
    /\ now \in 0..MaxTime
    /\ win \in [Keys -> Nat]
    /\ lives \in [Requests -> Seq(Nat)]
    /\ \A r \in Requests : Len(lives[r]) <= Retries + 1
    /\ gen \in [Requests -> Nat]
    /\ at \in [Requests -> 0..MaxTime]
    /\ orphan \in [Keys -> BOOLEAN]

Init ==
    /\ count = [k \in Keys |-> 0]
    /\ ttl = [k \in Keys |-> 0]
    /\ pc = [r \in Requests |-> "new"]
    /\ app \in [Requests -> Apps]
    /\ ep \in [Requests -> Endpoints]
    /\ got = [r \in Requests |-> 0]
    /\ now = 0
    /\ win = [k \in Keys |-> 1]
    /\ lives = [r \in Requests |-> <<>>]
    /\ gen = [r \in Requests |-> 0]
    /\ at = [r \in Requests |-> 0]
    /\ orphan = [k \in Keys |-> FALSE]

-----------------------------------------------------------------------------
(* Steps of a request *)

\* A request whose INCR has not been answered can send it, or send it again: the
\* client's first attempt is followed by at most Retries others.
CanSend(r) ==
    /\ pc[r] = "new"
    /\ now < MaxTime
    /\ Len(lives[r]) <= Retries

\* Mutant: the time to live is armed by the first request over the limit.
Incr_ArmsLate(r) ==
    LET k == KeyOf(r) IN
    /\ CanSend(r)
    /\ count' = [count EXCEPT ![k] = @ + 1]
    /\ lives' = [lives EXCEPT ![r] = Append(@, win[k])]
    /\ got' = [got EXCEPT ![r] = count[k] + 1]
    /\ pc' = [pc EXCEPT ![r] = IF count[k] = Limit THEN "expire" ELSE "decide"]
    /\ gen' = [gen EXCEPT ![r] = win[k]]
    /\ at' = [at EXCEPT ![r] = now]
    /\ UNCHANGED <<ttl, app, ep, now, win, orphan>>

\* Mutant: GET, then SET of the value plus one by a request that saw a stale
\* value: two requests get the same count.
Incr_Lossy(r) ==
    LET k == KeyOf(r) IN
    /\ CanSend(r)
    /\ \E seen \in {count[k], IF count[k] > 1 THEN count[k] - 1 ELSE count[k]} :
         /\ count' = [count EXCEPT ![k] = seen + 1]
         /\ got' = [got EXCEPT ![r] = seen + 1]
         /\ pc' = [pc EXCEPT ![r] = IF seen = 0 THEN "expire" ELSE "decide"]
    /\ lives' = [lives EXCEPT ![r] = Append(@, win[k])]
    /\ gen' = [gen EXCEPT ![r] = win[k]]
    /\ at' = [at EXCEPT ![r] = now]
    /\ UNCHANGED <<ttl, app, ep, now, win, orphan>>

\* p.redis.Incr succeeds.  A request that read 1 goes on to EXPIRE.
Incr(r) ==
    LET k == KeyOf(r) IN
    /\ CanSend(r)
    /\ count' = [count EXCEPT ![k] = @ + 1]
    /\ lives' = [lives EXCEPT ![r] = Append(@, win[k])]
    /\ got' = [got EXCEPT ![r] = count[k] + 1]
    /\ pc' = [pc EXCEPT ![r] = IF count[k] = 0 THEN "expire" ELSE "decide"]
    /\ gen' = [gen EXCEPT ![r] = win[k]]
    /\ at' = [at EXCEPT ![r] = now]
    /\ UNCHANGED <<ttl, app, ep, now, win, orphan>>

\* INCR is executed and its reply is lost: the client sends it again, and the
\* request counts twice.  If it created the key, nobody will know that: who reads
\* 1 is the only one to set the time to live.
IncrReplyLost(r) ==
    LET k == KeyOf(r) IN
    /\ r \in Faulty
    /\ CanSend(r)
    /\ count' = [count EXCEPT ![k] = @ + 1]
    /\ lives' = [lives EXCEPT ![r] = Append(@, win[k])]
    /\ orphan' = [orphan EXCEPT ![k] = @ \/ count[k] = 0]
    /\ UNCHANGED <<ttl, pc, app, ep, got, now, win, gen, at>>

\* p.redis.Incr returns an error, after no attempt, some or all of them were
\* executed, the request's context being cancelled or no attempt being left: the
\* caller answers 429.
IncrFails(r) ==
    /\ r \in Faulty
    /\ pc[r] = "new"
    /\ now < MaxTime
    /\ pc' = [pc EXCEPT ![r] = "limited"]
    /\ UNCHANGED <<app, ep, got, now, lives, gen, at, redisVars>>

\* Mutant: a time to live one tick short.
Armed_Short(k) == [ttl EXCEPT ![k] = IF count[k] > 0 THEN Window - 1 ELSE 0]

\* EXPIRE of a key, which does nothing when the key does not exist.
Armed(k) == [ttl EXCEPT ![k] = IF count[k] > 0 THEN Window ELSE 0]

\* p.redis.Expire is executed.
Expire(r) ==
    /\ pc[r] = "expire"
    /\ ttl' = Armed(KeyOf(r))
    /\ pc' = [pc EXCEPT ![r] = "decide"]
    /\ UNCHANGED <<count, app, ep, got, now, win, lives, gen, at, orphan>>

\* EXPIRE is executed, its reply is lost and it will be sent again: if that takes
\* until the key has expired, it finds no key or a later life of it.
ExpireReplyLost(r) ==
    /\ r \in Faulty
    /\ pc[r] = "expire"
    /\ ttl' = Armed(KeyOf(r))
    /\ UNCHANGED <<count, pc, app, ep, got, now, win, lives, gen, at, orphan>>

\* r has still to give the key the time to live of the life r created.
Arms(r, k) == pc[r] = "expire" /\ KeyOf(r) = k /\ gen[r] = win[k]

\* p.redis.Expire returns an error, which is not looked at.
ExpireFails(r) ==
    /\ r \in Faulty
    /\ pc[r] = "expire"
    /\ pc' = [pc EXCEPT ![r] = "decide"]
    /\ orphan' = [k \in Keys |-> orphan[k] \/ (Arms(r, k) /\ ttl[k] = 0)]
    /\ UNCHANGED <<count, ttl, app, ep, got, now, win, lives, gen, at>>

\* count > int64(limit)
Decide(r) ==
    /\ pc[r] = "decide"
    /\ pc' = [pc EXCEPT ![r] = IF got[r] > Limit THEN "limited" ELSE "admitted"]
    /\ UNCHANGED <<app, ep, got, now, lives, gen, at, redisVars>>

Step(r) == Incr(r) \/ Expire(r) \/ Decide(r)
Fault(r) == IncrFails(r) \/ IncrReplyLost(r) \/ ExpireFails(r) \/ ExpireReplyLost(r)

\* A gateway process dies with some of the requests it is serving.  (One that
\* dies before its INCR is answered is one that takes no further step.)
Crash ==
    /\ \E dying \in SUBSET {r \in Faulty : pc[r] \in {"expire", "decide"}} :
         /\ dying # {}
         /\ pc' = [r \in Requests |-> IF r \in dying THEN "dead" ELSE pc[r]]
         /\ orphan' = [k \in Keys |->
                         orphan[k] \/ (ttl[k] = 0 /\ \E r \in dying : Arms(r, k))]
    /\ UNCHANGED <<count, ttl, app, ep, got, now, win, lives, gen, at>>

\* One tick: keys whose time has come disappear.  The clock stops counting at
\* MaxTime (nobody arrives any more) but keys go on ageing.
Tick ==
    LET expired == {k \in Keys : ttl[k] = 1} IN
    /\ now' = IF now < MaxTime THEN now + 1 ELSE now
    /\ ttl' = [k \in Keys |-> IF ttl[k] > 0 THEN ttl[k] - 1 ELSE 0]
    /\ count' = [k \in Keys |-> IF k \in expired THEN 0 ELSE count[k]]
    /\ win' = [k \in Keys |-> IF k \in expired THEN win[k] + 1 ELSE win[k]]
    /\ orphan' = [k \in Keys |-> orphan[k] /\ k \notin expired]
    /\ UNCHANGED <<pc, app, ep, got, lives, gen, at>>

Next == \/ \E r \in Requests : Step(r) \/ Fault(r)
        \/ Crash
        \/ Tick

Spec == Init /\ [][Next]_vars

-----------------------------------------------------------------------------
(* Properties *)

\* The requests whose answered INCR counted in one life of a key.
Counted(k, g) == {r \in Requests : KeyOf(r) = k /\ gen[r] = g}

Admitted(k) == {r \in Requests : pc[r] = "admitted" /\ KeyOf(r) = k}

\* However the requests interleave and whatever is lost, no more than Limit
\* of them are admitted between the creation and the expiry of a key.
LimitPerWindow ==
    \A k \in Keys : \A r \in Admitted(k) :
        Cardinality(Admitted(k) \cap Counted(k, gen[r])) <= Limit

\* The INCRs, answered or not, of one endpoint of an app in a life of its key: the
\* request each was sent for, and the number of the attempt.
Raised(a, e, g) ==
    {x \in Requests \X (1..(Retries + 1)) :
        /\ app[x[1]] = a /\ ep[x[1]] = e
        /\ x[2] <= Len(lives[x[1]]) /\ lives[x[1]][x[2]] = g}

\* Nobody is turned away for the traffic of another app or endpoint: a request
\* that read a count and was answered 429 had at least Limit other INCRs of its
\* own app and endpoint with it in the window.  (They are of as many requests only
\* when no reply was lost: one that lost replies counts once for each, also
\* against itself.  A 429 without a count stands for a Redis error.)
DeniedOnlyWhenFull ==
    \A r \in Requests : (pc[r] = "limited" /\ got[r] > 0) =>
        Cardinality(Raised(app[r], ep[r], gen[r]) \ {<<r, Len(lives[r])>>}) >= Limit

\* What the fixed window does guarantee over any Window consecutive ticks.  Two
\* lives of the key can meet in them, never three, and the request that read 1 in
\* the older one, if there is one, lies outside: the second begins Window later.
BurstBound ==
    \A k \in Keys : \A t \in 0..MaxTime :
        Cardinality({r \in Admitted(k) : at[r] \in t..(t + Window - 1)}) < 2 * Limit

\* A key without a time to live is either about to get one from the request
\* that created it, or is orphaned: lost EXPIRE, lost INCR reply or a crash.
ExpiryArmed ==
    \A k \in Keys :
        count[k] > 0 /\ ttl[k] = 0 => orphan[k] \/ \E r \in Requests : Arms(r, k)
=============================================================================
