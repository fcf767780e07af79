------------------------- MODULE GatewayRedis_proofs -------------------------
(***************************************************************************)
(* Theorems about the two things the gateway keeps in Redis: the counters  *)
(* of RateLimiter, for any number of requests, apps and endpoints, any     *)
(* limit and any window, with and without faults; and the lists of         *)
(* PermissionCache, for any users, organizations, roles, checks and        *)
(* assignments and any combination of failures.                            *)
(***************************************************************************)
EXTENDS RateLimiter, PermissionCache, FiniteSetTheorems, Functions, TLAPS

-----------------------------------------------------------------------------
(* RateLimiter: the inductive invariant *)

\* A request INCR has answered holds the count of its window it was given,
\* and one it has not answered holds none.
CountInv ==
    \A r \in Requests :
        /\ pc[r] \in {"expire", "decide", "admitted"} => got[r] > 0
        /\ pc[r] = "new" => got[r] = 0
        /\ pc[r] = "admitted" => got[r] <= Limit
        /\ gen[r] <= win[KeyOf(r)]
        /\ gen[r] = win[KeyOf(r)] => got[r] <= count[KeyOf(r)]

\* No two requests of one life of a key hold the same count.
DistinctInv ==
    \A r, s \in Requests :
        (r # s /\ KeyOf(r) = KeyOf(s) /\ gen[r] = gen[s] /\ got[r] > 0)
            => got[r] # got[s]

\* The INCRs that f, the lives of the requests before or after a step, counts in
\* life g of key k.
LifeOf(f, k, g) ==
    {x \in Requests \X (1..(Retries + 1)) :
        KeyOf(x[1]) = k /\ x[2] <= Len(f[x[1]]) /\ f[x[1]][x[2]] = g}

\* A counter is the number of INCRs of the current life of its key, and a
\* request that was answered 429 with a count read more than the limit.
TallyInv ==
    /\ \A k \in Keys : win[k] > 0 /\ count[k] = Cardinality(LifeOf(lives, k, win[k]))
    /\ \A r \in Requests :
        /\ \A i \in 1..Len(lives[r]) : lives[r][i] <= win[KeyOf(r)]
        /\ pc[r] = "new" => gen[r] = 0
        /\ got[r] > 0 => /\ gen[r] > 0
                         /\ got[r] <= Cardinality(LifeOf(lives, KeyOf(r), gen[r]))
        /\ pc[r] = "limited" /\ got[r] > 0 => got[r] > Limit

\* r's answered INCR was before life g of its key, or created it.
Precedes(r, g) == got[r] > 0 /\ (gen[r] < g \/ (gen[r] = g /\ got[r] = 1))

\* Whenever a life of a key is armed it has Window left: it ends that much later
\* than whoever created it, or came in earlier lives.  (Nobody comes once the
\* clock stops.)
ArmInv ==
    /\ \A k \in Keys : count[k] = 0 => ttl[k] = 0
    /\ \A r \in Requests : Precedes(r, win[KeyOf(r)]) /\ ttl[KeyOf(r)] > 0 =>
         at[r] + Window <= now + ttl[KeyOf(r)] \/ now = MaxTime

\* Who precedes a life that has ended came Window ticks before everyone who came
\* in a later life.
LifeInv ==
    /\ \A r \in Requests : at[r] <= now
    /\ \A r \in Requests : \A g \in Nat : Precedes(r, g) /\ g < win[KeyOf(r)] =>
         /\ at[r] + Window <= now \/ now = MaxTime
         /\ \A s \in Requests : (KeyOf(s) = KeyOf(r) /\ got[s] > 0 /\ g < gen[s])
              => at[r] + Window <= at[s]

IInv == TypeOK /\ CountInv /\ DistinctInv /\ ExpiryArmed /\ TallyInv /\ ArmInv /\ LifeInv
-----------------------------------------------------------------------------
(* Type correctness *)

\* The key of a request is one of the keys, and does not change.
LEMMA KeyOfType ==
  ASSUME TypeOK, NEW r \in Requests
  PROVE  KeyOf(r) \in Keys
BY DEF TypeOK, KeyOf, Keys

\* What INCR returns is a number.
LEMMA NextCount ==
  ASSUME TypeOK, NEW r \in Requests
  PROVE  count[KeyOf(r)] + 1 \in Nat
<1>1. KeyOf(r) \in Keys
  BY KeyOfType
<1>2. count \in [Keys -> Nat]
  BY DEF TypeOK
<1>3. QED
  BY <1>1, <1>2

\* INCR leaves every counter a number.
LEMMA RaisedType ==
  ASSUME count \in [Keys -> Nat], NEW k \in Keys, count' = [count EXCEPT ![k] = @ + 1]
  PROVE  count' \in [Keys -> Nat]
<1>1. count[k] + 1 \in Nat
  OBVIOUS
<1>2. QED
  BY <1>1, Zenon

\* EXPIRE leaves every time to live within the window.
LEMMA ArmedType ==
  ASSUME ttl \in [Keys -> 0..Window], NEW k \in Keys, ttl' = Armed(k)
  PROVE  ttl' \in [Keys -> 0..Window]
<1>1. Window \in 0..Window /\ 0 \in 0..Window
  BY LimiterAssumption
<1>2. (IF count[k] > 0 THEN Window ELSE 0) \in 0..Window
  BY <1>1
<1>3. QED
  BY <1>2, Zenon DEF Armed

LEMMA InitTypeOK == Init => TypeOK
BY LimiterAssumption DEF Init, TypeOK, States, Keys

\* The INCRs of a request are one more when it sends another, at most Retries + 1.
LEMMA LivesType ==
  ASSUME TypeOK, NEW r \in Requests, CanSend(r),
         lives' = [lives EXCEPT ![r] = Append(@, win[KeyOf(r)])]
  PROVE  /\ lives' \in [Requests -> Seq(Nat)]
         /\ \A s \in Requests : Len(lives'[s]) <= Retries + 1
<1>1. win[KeyOf(r)] \in Nat /\ lives[r] \in Seq(Nat) /\ Len(lives[r]) <= Retries
  BY KeyOfType DEF TypeOK, CanSend
<1>2. /\ Append(lives[r], win[KeyOf(r)]) \in Seq(Nat)
      /\ Len(Append(lives[r], win[KeyOf(r)])) <= Retries + 1
  BY <1>1, LimiterAssumption
<1>3. QED
  BY <1>2 DEF TypeOK

LEMMA TypeOKStep ==
  ASSUME TypeOK, [Next]_vars
  PROVE  TypeOK'
<1> USE LimiterAssumption, KeyOfType DEF TypeOK, States, redisVars
<1>1. ASSUME NEW r \in Requests, Incr(r) PROVE TypeOK'
  <2>1. /\ lives' \in [Requests -> Seq(Nat)]
        /\ \A s \in Requests : Len(lives'[s]) <= Retries + 1
    BY <1>1, LivesType DEF Incr
  <2>2. count' \in [Keys -> Nat]
    BY <1>1, RaisedType DEF Incr
  <2>3. got' \in [Requests -> Nat]
    <3>1. count[KeyOf(r)] + 1 \in Nat
      BY NextCount
    <3>2. QED
      BY <1>1, <3>1 DEF Incr
  <2>4. gen' \in [Requests -> Nat] /\ at' \in [Requests -> 0..MaxTime]
    BY <1>1 DEF Incr
  <2>5. pc' \in [Requests -> States]
    BY <1>1 DEF Incr
  <2>6. QED
    BY <1>1, <2>1, <2>2, <2>3, <2>4, <2>5 DEF Incr
<1>2. ASSUME NEW r \in Requests, IncrFails(r) PROVE TypeOK'
  BY <1>2 DEF IncrFails
<1>3. ASSUME NEW r \in Requests, IncrReplyLost(r) PROVE TypeOK'
  <2>1. orphan' \in [Keys -> BOOLEAN]
    <3>1. (orphan[KeyOf(r)] \/ count[KeyOf(r)] = 0) \in BOOLEAN
      OBVIOUS
    <3>2. QED
      BY <1>3, <3>1, Zenon DEF IncrReplyLost
  <2>2. /\ lives' \in [Requests -> Seq(Nat)]
        /\ \A s \in Requests : Len(lives'[s]) <= Retries + 1
    BY <1>3, LivesType DEF IncrReplyLost
  <2>3. count' \in [Keys -> Nat]
    BY <1>3, RaisedType DEF IncrReplyLost
  <2>4. QED
    BY <1>3, <2>1, <2>2, <2>3 DEF IncrReplyLost
<1>4. ASSUME NEW r \in Requests, Expire(r) PROVE TypeOK'
  <2>1. ttl' \in [Keys -> 0..Window]
    BY <1>4, ArmedType DEF Expire
  <2>2. QED
    BY <1>4, <2>1 DEF Expire
<1>5. ASSUME NEW r \in Requests, ExpireFails(r) PROVE TypeOK'
  <2>1. orphan' \in [Keys -> BOOLEAN]
    BY <1>5, Zenon DEF ExpireFails
  <2>2. QED
    BY <1>5, <2>1 DEF ExpireFails
<1>6. ASSUME NEW r \in Requests, ExpireReplyLost(r) PROVE TypeOK'
  <2>1. ttl' \in [Keys -> 0..Window]
    BY <1>6, ArmedType DEF ExpireReplyLost
  <2>2. QED
    BY <1>6, <2>1 DEF ExpireReplyLost
<1>7. ASSUME NEW r \in Requests, Decide(r) PROVE TypeOK'
  BY <1>7 DEF Decide
<1>8. CASE Crash
  <2>1. PICK dying \in SUBSET {r \in Faulty : pc[r] \in {"expire", "decide"}} :
          /\ pc' = [r \in Requests |-> IF r \in dying THEN "dead" ELSE pc[r]]
          /\ orphan' = [k \in Keys |->
                          orphan[k] \/ (ttl[k] = 0 /\ \E r \in dying : Arms(r, k))]
    BY <1>8 DEF Crash
  <2>2. orphan' \in [Keys -> BOOLEAN]
    BY <2>1, Zenon
  <2>3. QED
    BY <1>8, <2>1, <2>2 DEF Crash
<1>9. CASE Tick
  <2>1. orphan' \in [Keys -> BOOLEAN]
    BY <1>9, Zenon DEF Tick
  <2>2. QED
    BY <1>9, <2>1 DEF Tick
<1>10. CASE UNCHANGED vars
  BY <1>10 DEF vars
<1>11. QED
  BY <1>1, <1>2, <1>3, <1>4, <1>5, <1>6, <1>7, <1>8, <1>9, <1>10 DEF Next, Step, Fault

\* The limiter keeps its types; in particular a time to live never exceeds the
\* window, and no request sends its INCR more than Retries times again.
THEOREM TypeCorrect == Spec => []TypeOK
<1>1. Init => TypeOK
  BY InitTypeOK
<1>2. TypeOK /\ [Next]_vars => TypeOK'
  BY TypeOKStep
<1>3. QED
  BY <1>1, <1>2, PTL DEF Spec

-----------------------------------------------------------------------------
(* The inductive invariant *)

LEMMA InitIInv == Init => IInv
<1> SUFFICES ASSUME Init PROVE IInv
  OBVIOUS
<1>1. TypeOK
  BY InitTypeOK
<1>2. CountInv
  BY <1>1, KeyOfType DEF Init, CountInv, TypeOK
<1>3. DistinctInv
  BY <1>1 DEF Init, DistinctInv, TypeOK
<1>4. ExpiryArmed
  BY <1>1 DEF Init, ExpiryArmed, TypeOK
<1>5. TallyInv
  <2>1. \A k \in Keys : LifeOf(lives, k, 1) = {}
    BY <1>1 DEF Init, LifeOf, TypeOK
  <2>2. Cardinality({}) = 0
    BY FS_EmptySet
  <2>3. \A k \in Keys : win[k] = 1 /\ count[k] = Cardinality(LifeOf(lives, k, win[k]))
    BY <2>1, <2>2 DEF Init
  <2>4. \A r \in Requests : lives[r] = <<>> /\ pc[r] = "new" /\ gen[r] = 0 /\ got[r] = 0
    BY DEF Init
  <2>5. QED
    BY <2>3, <2>4 DEF TallyInv
<1>6. ArmInv
  BY <1>1, KeyOfType DEF Init, ArmInv, Precedes, TypeOK
<1>7. LifeInv
  BY <1>1, KeyOfType DEF Init, LifeInv, Precedes, TypeOK
<1>8. QED
  BY <1>1, <1>2, <1>3, <1>4, <1>5, <1>6, <1>7 DEF IInv

\* INCR gives a request a count above every count of the same life of the key.
LEMMA IncrStep ==
  ASSUME IInv, NEW q \in Requests, Incr(q)
  PROVE  CountInv' /\ DistinctInv' /\ ExpiryArmed'
<1> DEFINE k == KeyOf(q)
<1>1. TypeOK /\ k \in Keys /\ count[k] \in Nat
  BY KeyOfType DEF IInv, TypeOK
<1>2. \A r \in Requests : KeyOf(r)' = KeyOf(r) /\ KeyOf(r) \in Keys
  BY <1>1, KeyOfType DEF Incr, KeyOf
<1>3. /\ pc'[q] = (IF count[k] = 0 THEN "expire" ELSE "decide")
      /\ got'[q] = count[k] + 1
      /\ gen'[q] = win[k]
  BY <1>1 DEF Incr, TypeOK
<1>4. \A r \in Requests \ {q} :
        pc'[r] = pc[r] /\ got'[r] = got[r] /\ gen'[r] = gen[r]
  BY <1>1 DEF Incr, TypeOK
<1>5. count'[k] = count[k] + 1 /\ \A j \in Keys \ {k} : count'[j] = count[j]
  BY <1>1 DEF Incr, TypeOK
<1>6. win' = win /\ ttl' = ttl /\ orphan' = orphan
  BY DEF Incr
<1>7. \A r \in Requests : gen[r] \in Nat /\ got[r] \in Nat /\ count[KeyOf(r)] \in Nat
  BY <1>1, <1>2 DEF TypeOK
<1> HIDE DEF k
<1>8. \A r \in Requests \ {q} :
        (KeyOf(r) = k /\ gen[r] = win[k]) => got[r] <= count[k]
  BY DEF IInv, CountInv, k
<1>9. CountInv'
  <2>1. SUFFICES ASSUME NEW r \in Requests
        PROVE  /\ pc'[r] \in {"expire", "decide", "admitted"} => got'[r] > 0
               /\ pc'[r] = "new" => got'[r] = 0
               /\ pc'[r] = "admitted" => got'[r] <= Limit
               /\ gen'[r] <= win[KeyOf(r)]
               /\ gen'[r] = win[KeyOf(r)] => got'[r] <= count'[KeyOf(r)]
    BY <1>2, <1>6 DEF CountInv
  <2>2. CASE r = q
    BY <2>2, <1>1, <1>3, <1>5 DEF k, TypeOK
  <2>3. CASE r # q
    <3>1. count'[KeyOf(r)] >= count[KeyOf(r)]
      BY <1>1, <1>2, <1>5, <1>7
    <3>2. count'[KeyOf(r)] \in Nat
      BY <1>1, <1>2, <1>5, <1>7
    <3>3. QED
      BY <2>3, <3>1, <3>2, <1>4, <1>7 DEF IInv, CountInv
  <2>4. QED
    BY <2>2, <2>3
<1>10. DistinctInv'
  <2>1. SUFFICES ASSUME NEW r \in Requests, NEW s \in Requests, r # s,
                        KeyOf(r) = KeyOf(s), gen'[r] = gen'[s], got'[r] > 0
        PROVE  got'[r] # got'[s]
    BY <1>2 DEF DistinctInv
  <2>2. CASE r = q
    BY <2>1, <2>2, <1>1, <1>3, <1>4, <1>7, <1>8 DEF k
  <2>3. CASE s = q
    BY <2>1, <2>3, <1>1, <1>3, <1>4, <1>7, <1>8 DEF k
  <2>4. CASE r # q /\ s # q
    BY <2>1, <2>4, <1>4 DEF IInv, DistinctInv
  <2>5. QED
    BY <2>2, <2>3, <2>4
<1>11. ExpiryArmed'
  <2>1. SUFFICES ASSUME NEW j \in Keys, count'[j] > 0, ttl[j] = 0, ~orphan[j]
        PROVE  \E r \in Requests : pc'[r] = "expire" /\ KeyOf(r) = j /\ gen'[r] = win[j]
    BY <1>2, <1>6 DEF ExpiryArmed, Arms
  <2>2. CASE j = k /\ count[k] = 0
    BY <2>2, <1>3 DEF k
  <2>3. CASE ~(j = k /\ count[k] = 0)
    <3>1. count[j] > 0
      BY <2>1, <2>3, <1>1, <1>5
    <3>2. PICK r \in Requests : pc[r] = "expire" /\ KeyOf(r) = j /\ gen[r] = win[j]
      BY <2>1, <3>1 DEF IInv, ExpiryArmed, Arms
    <3>3. r # q
      BY <3>2 DEF Incr, CanSend
    <3>4. QED
      BY <3>2, <3>3, <1>4
  <2>4. QED
    BY <2>2, <2>3
<1>12. QED
  BY <1>9, <1>10, <1>11

\* An INCR whose reply is lost raises the counter, and orphans a key it created.
LEMMA IncrReplyLostStep ==
  ASSUME IInv, NEW q \in Requests, IncrReplyLost(q)
  PROVE  CountInv' /\ DistinctInv' /\ ExpiryArmed'
<1>1. TypeOK /\ KeyOf(q) \in Keys
  BY KeyOfType DEF IInv
<1>2. \A r \in Requests : KeyOf(r)' = KeyOf(r) /\ KeyOf(r) \in Keys
  BY <1>1, KeyOfType DEF IncrReplyLost, KeyOf
<1>3. pc' = pc /\ got' = got /\ gen' = gen /\ win' = win /\ ttl' = ttl
  BY DEF IncrReplyLost
<1>4. /\ count'[KeyOf(q)] = count[KeyOf(q)] + 1
      /\ \A j \in Keys \ {KeyOf(q)} : count'[j] = count[j]
  BY <1>1 DEF IncrReplyLost, TypeOK
<1>5. /\ count[KeyOf(q)] = 0 => orphan'[KeyOf(q)]
      /\ \A j \in Keys : orphan[j] => orphan'[j]
  BY <1>1 DEF IncrReplyLost, TypeOK
<1>6. \A j \in Keys : /\ count[j] \in Nat /\ count'[j] \in Nat
                      /\ count'[j] = count[j] \/ count'[j] = count[j] + 1
  BY <1>1, <1>4 DEF TypeOK
<1>7. \A r \in Requests :
        /\ got[r] \in Nat /\ count[KeyOf(r)] \in Nat
        /\ count'[KeyOf(r)] \in Nat /\ count'[KeyOf(r)] >= count[KeyOf(r)]
  <2>1. SUFFICES ASSUME NEW r \in Requests
        PROVE  /\ got[r] \in Nat /\ count[KeyOf(r)] \in Nat
               /\ count'[KeyOf(r)] \in Nat /\ count'[KeyOf(r)] >= count[KeyOf(r)]
    OBVIOUS
  <2>2. got[r] \in Nat /\ KeyOf(r) \in Keys
    BY <1>1, <1>2 DEF TypeOK
  <2>3. QED
    BY <2>2, <1>6
<1>8. CountInv'
  BY <1>2, <1>3, <1>7 DEF IInv, CountInv
<1>9. DistinctInv'
  BY <1>2, <1>3 DEF IInv, DistinctInv
<1>10. ExpiryArmed'
  <2>1. SUFFICES ASSUME NEW j \in Keys, count'[j] > 0, ttl[j] = 0, ~orphan'[j]
        PROVE  \E r \in Requests : Arms(r, j)
    BY <1>2, <1>3 DEF ExpiryArmed, Arms
  <2>2. count[j] > 0
    <3>1. j = KeyOf(q) => count[j] # 0
      BY <2>1, <1>5
    <3>2. j # KeyOf(q) => count'[j] = count[j]
      BY <1>4
    <3>3. count[j] \in Nat
      BY <1>6
    <3>4. QED
      BY <2>1, <3>1, <3>2, <3>3
  <2>3. QED
    BY <2>1, <2>2, <1>5 DEF IInv, ExpiryArmed
<1>11. QED
  BY <1>8, <1>9, <1>10

\* EXPIRE arms the key of its request and no other.
LEMMA ExpireStep ==
  ASSUME IInv, NEW q \in Requests, Expire(q) \/ ExpireReplyLost(q)
  PROVE  CountInv' /\ DistinctInv' /\ ExpiryArmed'
<1>1. TypeOK /\ KeyOf(q) \in Keys
  BY KeyOfType DEF IInv
<1>2. \A r \in Requests : KeyOf(r)' = KeyOf(r)
  BY DEF Expire, ExpireReplyLost, KeyOf
<1>3. /\ pc[q] = "expire" /\ pc'[q] \in {"expire", "decide"}
      /\ \A r \in Requests \ {q} : pc'[r] = pc[r]
  BY <1>1 DEF Expire, ExpireReplyLost, TypeOK
<1>4. got' = got /\ gen' = gen /\ win' = win /\ count' = count /\ orphan' = orphan
  BY DEF Expire, ExpireReplyLost
<1>5. /\ count[KeyOf(q)] > 0 => ttl'[KeyOf(q)] = Window
      /\ \A j \in Keys \ {KeyOf(q)} : ttl'[j] = ttl[j]
  BY <1>1 DEF Expire, ExpireReplyLost, Armed, TypeOK
<1>6. CountInv'
  BY <1>2, <1>3, <1>4 DEF IInv, CountInv
<1>7. DistinctInv'
  BY <1>2, <1>4 DEF IInv, DistinctInv
<1>8. ExpiryArmed'
  <2>1. SUFFICES ASSUME NEW j \in Keys, count[j] > 0, ttl'[j] = 0, ~orphan[j]
        PROVE  \E r \in Requests : pc'[r] = "expire" /\ KeyOf(r) = j /\ gen[r] = win[j]
    BY <1>2, <1>4 DEF ExpiryArmed, Arms
  <2>2. j # KeyOf(q)
    BY <2>1, <1>5, LimiterAssumption
  <2>3. PICK r \in Requests : pc[r] = "expire" /\ KeyOf(r) = j /\ gen[r] = win[j]
    BY <2>1, <2>2, <1>5 DEF IInv, ExpiryArmed, Arms
  <2>4. QED
    BY <2>2, <2>3, <1>3
<1>9. QED
  BY <1>6, <1>7, <1>8

\* The steps of a request that touch no Redis counter: a failed INCR, a failed
\* EXPIRE, the comparison with the limit.
LEMMA RequestStep ==
  ASSUME IInv, NEW q \in Requests, IncrFails(q) \/ ExpireFails(q) \/ Decide(q)
  PROVE  CountInv' /\ DistinctInv' /\ ExpiryArmed'
<1>1. TypeOK /\ KeyOf(q) \in Keys
  BY KeyOfType DEF IInv
<1>2. \A r \in Requests : KeyOf(r)' = KeyOf(r)
  BY DEF IncrFails, ExpireFails, Decide, KeyOf
<1>3. /\ pc'[q] \in {"limited", "decide", "admitted"}
      /\ pc'[q] = "decide" => pc[q] = "expire"
      /\ pc'[q] = "admitted" => pc[q] = "decide" /\ ~(got[q] > Limit)
      /\ \A r \in Requests \ {q} : pc'[r] = pc[r]
  BY <1>1 DEF IncrFails, ExpireFails, Decide, TypeOK
<1>4. got' = got /\ gen' = gen /\ win' = win /\ count' = count /\ ttl' = ttl
  BY DEF IncrFails, ExpireFails, Decide, redisVars
<1>5. \A j \in Keys : orphan[j] \/ (Arms(q, j) /\ ttl[j] = 0) => orphan'[j]
  BY <1>1 DEF IncrFails, ExpireFails, Decide, Arms, TypeOK, redisVars
<1>6. got[q] \in Nat /\ Limit \in Nat
  BY <1>1, LimiterAssumption DEF TypeOK
<1>7. CountInv'
  BY <1>2, <1>3, <1>4, <1>6 DEF IInv, CountInv
<1>8. DistinctInv'
  BY <1>2, <1>4 DEF IInv, DistinctInv
<1>9. ExpiryArmed'
  <2>1. SUFFICES ASSUME NEW j \in Keys, count[j] > 0, ttl[j] = 0, ~orphan'[j]
        PROVE  \E r \in Requests : pc'[r] = "expire" /\ KeyOf(r) = j /\ gen[r] = win[j]
    BY <1>2, <1>4 DEF ExpiryArmed, Arms
  <2>2. PICK r \in Requests : Arms(r, j)
    BY <2>1, <1>5 DEF IInv, ExpiryArmed
  <2>3. r # q
    BY <2>1, <2>2, <1>5
  <2>4. QED
    BY <2>2, <2>3, <1>3 DEF Arms
<1>10. QED
  BY <1>7, <1>8, <1>9

\* A dying process orphans the keys its requests had still to arm.
LEMMA CrashStep ==
  ASSUME IInv, Crash
  PROVE  CountInv' /\ DistinctInv' /\ ExpiryArmed'
<1>1. TypeOK
  BY DEF IInv
<1>2. \A r \in Requests : KeyOf(r)' = KeyOf(r)
  BY DEF Crash, KeyOf
<1>3. PICK dying \in SUBSET {r \in Faulty : pc[r] \in {"expire", "decide"}} :
        /\ pc' = [r \in Requests |-> IF r \in dying THEN "dead" ELSE pc[r]]
        /\ orphan' = [k \in Keys |->
                        orphan[k] \/ (ttl[k] = 0 /\ \E r \in dying : Arms(r, k))]
  BY DEF Crash
<1>4. got' = got /\ gen' = gen /\ win' = win /\ count' = count /\ ttl' = ttl
  BY DEF Crash
<1>5. \A r \in Requests : pc'[r] \in {"dead", pc[r]}
  BY <1>3
<1>6. CountInv'
  BY <1>2, <1>4, <1>5 DEF IInv, CountInv
<1>7. DistinctInv'
  BY <1>2, <1>4 DEF IInv, DistinctInv
<1>8. ExpiryArmed'
  <2>1. SUFFICES ASSUME NEW j \in Keys, count[j] > 0, ttl[j] = 0, ~orphan'[j]
        PROVE  \E r \in Requests : pc'[r] = "expire" /\ KeyOf(r) = j /\ gen[r] = win[j]
    BY <1>2, <1>4 DEF ExpiryArmed, Arms
  <2>2. ~orphan[j] /\ \A r \in dying : ~Arms(r, j)
    BY <2>1, <1>3
  <2>3. PICK r \in Requests : Arms(r, j)
    BY <2>1, <2>2 DEF IInv, ExpiryArmed
  <2>4. QED
    BY <2>2, <2>3, <1>3 DEF Arms
<1>9. QED
  BY <1>6, <1>7, <1>8

\* A key that expires leaves its life behind: no later request has its gen.
LEMMA TickStep ==
  ASSUME IInv, Tick
  PROVE  CountInv' /\ DistinctInv' /\ ExpiryArmed'
<1>1. TypeOK
  BY DEF IInv
<1>2. \A r \in Requests : KeyOf(r)' = KeyOf(r) /\ KeyOf(r) \in Keys
  BY <1>1, KeyOfType DEF Tick, KeyOf
<1>3. got' = got /\ gen' = gen /\ pc' = pc
  BY DEF Tick
<1>4. \A j \in Keys :
        /\ ttl[j] = 1 => count'[j] = 0 /\ win'[j] = win[j] + 1
        /\ ttl[j] # 1 => count'[j] = count[j] /\ win'[j] = win[j]
        /\ ttl[j] > 1 => ttl'[j] > 0
        /\ win[j] \in Nat /\ count[j] \in Nat /\ ttl[j] \in Nat
  BY <1>1, LimiterAssumption DEF Tick, TypeOK
<1>5. \A j \in Keys : ttl[j] # 1 /\ orphan[j] => orphan'[j]
  BY <1>1 DEF Tick, TypeOK
<1>6. \A r \in Requests : gen[r] \in Nat /\ got[r] \in Nat
  BY <1>1 DEF TypeOK
<1>7. CountInv'
  BY <1>2, <1>3, <1>4, <1>6 DEF IInv, CountInv
<1>8. DistinctInv'
  BY <1>2, <1>3 DEF IInv, DistinctInv
<1>9. ExpiryArmed'
  <2>1. SUFFICES ASSUME NEW j \in Keys, count'[j] > 0, ttl'[j] = 0, ~orphan'[j]
        PROVE  \E r \in Requests : pc[r] = "expire" /\ KeyOf(r) = j /\ gen[r] = win'[j]
    BY <1>2, <1>3 DEF ExpiryArmed, Arms
  <2>2. ttl[j] = 0 /\ count[j] > 0 /\ win'[j] = win[j] /\ ~orphan[j]
    BY <2>1, <1>4, <1>5
  <2>3. QED
    BY <2>2 DEF IInv, ExpiryArmed, Arms
<1>10. QED
  BY <1>7, <1>8, <1>9

-----------------------------------------------------------------------------
(* Lives of a key *)

\* The INCRs of one life can be counted.
LEMMA LifeFinite ==
  ASSUME NEW f, NEW k, NEW g
  PROVE  IsFiniteSet(LifeOf(f, k, g)) /\ Cardinality(LifeOf(f, k, g)) \in Nat
<1>1. IsFiniteSet(1..(Retries + 1))
  BY LimiterAssumption, FS_Interval
<1>2. IsFiniteSet(Requests \X (1..(Retries + 1)))
  BY <1>1, LimiterAssumption, FS_Product
<1>3. LifeOf(f, k, g) \subseteq Requests \X (1..(Retries + 1))
  BY DEF LifeOf
<1>4. QED
  BY <1>2, <1>3, FS_Subset, FS_CardinalityType

\* The lives of requests whose key a step does not change, seen after the step.
LEMMA LifePrime ==
  ASSUME \A r \in Requests : KeyOf(r)' = KeyOf(r), NEW k, NEW g
  PROVE  LifeOf(lives, k, g)' = LifeOf(lives', k, g)
<1>1. ASSUME NEW x \in Requests \X (1..(Retries + 1)) PROVE KeyOf(x[1])' = KeyOf(x[1])
  BY <1>1
<1>2. QED
  BY <1>1 DEF LifeOf

\* TallyInv after a step that moves no request to another key.
LEMMA TallyNext ==
  ASSUME \A r \in Requests : KeyOf(r)' = KeyOf(r),
         \A k \in Keys : win'[k] > 0 /\ count'[k] = Cardinality(LifeOf(lives', k, win'[k])),
         \A r \in Requests : \A i \in 1..Len(lives'[r]) : lives'[r][i] <= win'[KeyOf(r)],
         \A r \in Requests :
           got'[r] > 0 => /\ gen'[r] > 0
                          /\ got'[r] <= Cardinality(LifeOf(lives', KeyOf(r), gen'[r])),
         \A r \in Requests :
           /\ pc'[r] = "new" => gen'[r] = 0
           /\ pc'[r] = "limited" /\ got'[r] > 0 => got'[r] > Limit
  PROVE  TallyInv'
<1>1. \A k \in Keys : LifeOf(lives, k, win[k])' = LifeOf(lives', k, win'[k])
  BY LifePrime DEF LifeOf
<1>2. \A r \in Requests : LifeOf(lives, KeyOf(r), gen[r])' = LifeOf(lives', KeyOf(r), gen'[r])
  BY LifePrime DEF LifeOf
<1>3. \A k \in Keys : win'[k] > 0 /\ count'[k] = Cardinality(LifeOf(lives, k, win[k])')
  BY <1>1
<1>4. \A r \in Requests :
        got'[r] > 0 => /\ gen'[r] > 0
                       /\ got'[r] <= Cardinality(LifeOf(lives, KeyOf(r), gen[r])')
  BY <1>2
<1>5. QED
  BY <1>3, <1>4 DEF TallyInv

\* What INCR does for a request q, answered or not, as the lives of keys see it.
Joins(q) ==
    /\ pc[q] = "new" /\ now < MaxTime /\ Len(lives[q]) <= Retries
    /\ \A r \in Requests : KeyOf(r)' = KeyOf(r)
    /\ \A r \in Requests \ {q} :
         /\ pc'[r] = pc[r] /\ got'[r] = got[r] /\ gen'[r] = gen[r]
         /\ at'[r] = at[r] /\ lives'[r] = lives[r]
    /\ lives'[q] = Append(lives[q], win[KeyOf(q)])
    /\ win' = win /\ ttl' = ttl /\ now' = now
    /\ count'[KeyOf(q)] = count[KeyOf(q)] + 1
    /\ \A k \in Keys \ {KeyOf(q)} : count'[k] = count[k]
    /\ \/ /\ got'[q] = count[KeyOf(q)] + 1 /\ gen'[q] = win[KeyOf(q)] /\ at'[q] = now
          /\ pc'[q] = IF count[KeyOf(q)] = 0 THEN "expire" ELSE "decide"
       \/ got'[q] = 0 /\ gen'[q] = gen[q] /\ at'[q] = at[q] /\ pc'[q] = "new"

\* One more INCR of q counts in the current life of its key and in no other life.
LEMMA LifeGrows ==
  ASSUME TypeOK, NEW q \in Requests, Joins(q)
  PROVE  /\ Cardinality(LifeOf(lives', KeyOf(q), win[KeyOf(q)]))
              = Cardinality(LifeOf(lives, KeyOf(q), win[KeyOf(q)])) + 1
         /\ \A k, i : (k # KeyOf(q) \/ i # win[KeyOf(q)])
                         => LifeOf(lives', k, i) = LifeOf(lives, k, i)
<1> DEFINE g == win[KeyOf(q)]
<1>0. /\ g \in Nat /\ lives[q] \in Seq(Nat) /\ Len(lives[q]) <= Retries
      /\ lives'[q] = Append(lives[q], g) /\ \A r \in Requests \ {q} : lives'[r] = lives[r]
  BY KeyOfType DEF Joins, TypeOK
<1> HIDE DEF g
<1> DEFINE n == Len(lives[q]) + 1
<1>1. /\ n \in 1..(Retries + 1) /\ Len(lives'[q]) = n /\ lives'[q][n] = g
      /\ \A i \in 1..(n - 1) : lives'[q][i] = lives[q][i]
      /\ Len(lives[q]) = n - 1 /\ n \in Nat
  BY <1>0, LimiterAssumption
<1> HIDE DEF n
<1>2. ASSUME NEW r \in Requests, NEW m \in 1..(Retries + 1)
      PROVE  /\ m <= Len(lives'[r]) <=> (m <= Len(lives[r]) \/ (r = q /\ m = n))
             /\ m <= Len(lives[r]) => lives'[r][m] = lives[r][m] /\ ~(r = q /\ m = n)
  <2>1. CASE r # q
    BY <2>1, <1>0
  <2>2. CASE r = q
    <3>1. m \in Nat /\ m >= 1
      BY LimiterAssumption
    <3>2. m <= n - 1 => m \in 1..(n - 1)
      BY <3>1, <1>1
    <3>3. QED
      BY <2>2, <1>1, <3>1, <3>2
  <2>3. QED
    BY <2>1, <2>2
<1>3. LifeOf(lives', KeyOf(q), g) = LifeOf(lives, KeyOf(q), g) \cup {<<q, n>>}
  BY <1>1, <1>2 DEF LifeOf
<1>4. <<q, n>> \notin LifeOf(lives, KeyOf(q), g)
  BY <1>1 DEF LifeOf
<1>5. \A k, i : (k # KeyOf(q) \/ i # g) => LifeOf(lives', k, i) = LifeOf(lives, k, i)
  BY <1>1, <1>2 DEF LifeOf
<1>6. Cardinality(LifeOf(lives, KeyOf(q), g) \cup {<<q, n>>})
        = Cardinality(LifeOf(lives, KeyOf(q), g)) + 1
  BY <1>4, LifeFinite, FS_AddElement
<1>7. QED
  BY <1>3, <1>5, <1>6 DEF g

LEMMA IncrJoins ==
  ASSUME IInv, NEW q \in Requests, Incr(q) \/ IncrReplyLost(q)
  PROVE  Joins(q)
<1>1. TypeOK /\ KeyOf(q) \in Keys /\ (pc[q] = "new" => got[q] = 0)
  BY KeyOfType DEF IInv, CountInv
<1>2. CASE Incr(q)
  BY <1>1, <1>2 DEF Incr, CanSend, Joins, TypeOK, KeyOf
<1>3. CASE IncrReplyLost(q)
  BY <1>1, <1>3 DEF IncrReplyLost, CanSend, Joins, TypeOK, KeyOf
<1>4. QED
  BY <1>2, <1>3

\* The count an INCR makes is the number of INCRs of its key's life.
LEMMA JoinTally ==
  ASSUME IInv, NEW q \in Requests, Joins(q), TypeOK'
  PROVE  TallyInv'
<1>1. TypeOK /\ CountInv /\ TallyInv
  BY DEF IInv
<1>2. \A r \in Requests :
        /\ KeyOf(r) \in Keys /\ KeyOf(r)' = KeyOf(r)
        /\ got[r] \in Nat /\ gen[r] \in Nat /\ got'[r] \in Nat /\ gen'[r] \in Nat
        /\ lives[r] \in Seq(Nat) /\ lives'[r] \in Seq(Nat)
  BY <1>1, KeyOfType DEF Joins, TypeOK
<1>3. \A k \in Keys : count[k] \in Nat /\ win[k] \in Nat
  BY <1>1 DEF TypeOK
<1>4. win' = win /\ Limit \in Nat
  BY LimiterAssumption DEF Joins
<1>5. /\ Cardinality(LifeOf(lives', KeyOf(q), win[KeyOf(q)]))
           = Cardinality(LifeOf(lives, KeyOf(q), win[KeyOf(q)])) + 1
      /\ \A k, g : (k # KeyOf(q) \/ g # win[KeyOf(q)])
                      => LifeOf(lives', k, g) = LifeOf(lives, k, g)
  BY <1>1, LifeGrows
<1>6. ASSUME NEW k \in Keys
      PROVE  win'[k] > 0 /\ count'[k] = Cardinality(LifeOf(lives', k, win'[k]))
  <2>1. win[k] > 0 /\ count[k] = Cardinality(LifeOf(lives, k, win[k]))
    BY <1>1 DEF TallyInv
  <2>2. CASE k = KeyOf(q)
    BY <2>1, <2>2, <1>4, <1>5 DEF Joins
  <2>3. CASE k # KeyOf(q)
    BY <2>1, <2>3, <1>4, <1>5 DEF Joins
  <2>4. QED
    BY <2>2, <2>3
<1>7. ASSUME NEW r \in Requests, NEW i \in 1..Len(lives'[r])
      PROVE  lives'[r][i] <= win'[KeyOf(r)]
  <2>1. CASE r # q
    BY <2>1, <1>1, <1>4, <1>7 DEF Joins, TallyInv
  <2>2. CASE r = q
    <3>1. lives'[q] = Append(lives[q], win[KeyOf(q)]) /\ win[KeyOf(q)] \in Nat
      BY <1>2, <1>3 DEF Joins
    <3>2. CASE i = Len(lives[q]) + 1
      BY <2>2, <3>1, <3>2, <1>2, <1>4
    <3>3. CASE i # Len(lives[q]) + 1
      <4>1. i \in 1..Len(lives[q]) /\ lives'[q][i] = lives[q][i]
        BY <2>2, <3>1, <3>3, <1>2, <1>7
      <4>2. QED
        BY <4>1, <2>2, <1>1, <1>4 DEF TallyInv
    <3>4. QED
      BY <3>2, <3>3
  <2>3. QED
    BY <2>1, <2>2
<1>8. ASSUME NEW r \in Requests, got'[r] > 0
      PROVE  gen'[r] > 0 /\ got'[r] <= Cardinality(LifeOf(lives', KeyOf(r), gen'[r]))
  <2>1. CASE r = q
    <3>1. /\ got'[q] = count[KeyOf(q)] + 1 /\ gen'[q] = win'[KeyOf(q)]
          /\ got'[q] = count'[KeyOf(q)]
      BY <2>1, <1>8 DEF Joins
    <3>2. gen'[q] > 0 /\ got'[q] = Cardinality(LifeOf(lives', KeyOf(q), gen'[q]))
      BY <3>1, <1>2, <1>6
    <3>3. QED
      BY <2>1, <3>2, <1>2
  <2>2. CASE r # q
    <3>1. gen'[r] = gen[r] /\ got'[r] = got[r]
      BY <2>2 DEF Joins
    <3>2. gen[r] > 0 /\ got[r] <= Cardinality(LifeOf(lives, KeyOf(r), gen[r]))
      BY <3>1, <1>1, <1>8 DEF TallyInv
    <3>3. /\ Cardinality(LifeOf(lives, KeyOf(r), gen[r])) \in Nat
          /\ Cardinality(LifeOf(lives', KeyOf(r), gen[r])) \in Nat
          /\ \/ Cardinality(LifeOf(lives', KeyOf(r), gen[r]))
                  = Cardinality(LifeOf(lives, KeyOf(r), gen[r])) + 1
             \/ Cardinality(LifeOf(lives', KeyOf(r), gen[r]))
                  = Cardinality(LifeOf(lives, KeyOf(r), gen[r]))
      BY <1>5, LifeFinite
    <3>4. QED
      BY <3>1, <3>2, <3>3, <1>2
  <2>3. QED
    BY <2>1, <2>2
<1>9. \A r \in Requests :
        /\ pc'[r] = "new" => gen'[r] = 0
        /\ pc'[r] = "limited" /\ got'[r] > 0 => got'[r] > Limit
  BY <1>1, <1>2 DEF Joins, TallyInv
<1>10. QED
  BY <1>2, <1>6, <1>7, <1>8, <1>9, TallyNext

\* An INCR comes after everyone who preceded a life that has ended, and whoever
\* creates a life finds a key without a time to live.
LEMMA JoinLives ==
  ASSUME IInv, NEW q \in Requests, Joins(q), TypeOK'
  PROVE  ArmInv' /\ LifeInv'
<1>1. TypeOK /\ CountInv /\ TallyInv /\ ArmInv /\ LifeInv
  BY DEF IInv
<1>2. \A r \in Requests :
        /\ KeyOf(r) \in Keys /\ KeyOf(r)' = KeyOf(r)
        /\ got[r] \in Nat /\ gen[r] \in Nat /\ at[r] \in Nat
        /\ got'[r] \in Nat /\ gen'[r] \in Nat /\ at'[r] \in Nat
  <2>1. \A r \in Requests : KeyOf(r) \in Keys /\ KeyOf(r)' = KeyOf(r)
    BY <1>1, KeyOfType DEF Joins
  <2>2. \A r \in Requests : got[r] \in Nat /\ gen[r] \in Nat /\ at[r] \in Nat
    BY <1>1, LimiterAssumption DEF TypeOK
  <2>3. \A r \in Requests : got'[r] \in Nat /\ gen'[r] \in Nat /\ at'[r] \in Nat
    BY LimiterAssumption DEF TypeOK
  <2>4. QED
    BY <2>1, <2>2, <2>3
<1>3. \A k \in Keys : count[k] \in Nat /\ win[k] \in Nat /\ ttl[k] \in Nat
  BY <1>1, LimiterAssumption DEF TypeOK
<1>4. /\ now \in Nat /\ MaxTime \in Nat /\ Window \in Nat /\ now < MaxTime
      /\ win' = win /\ ttl' = ttl /\ now' = now /\ got[q] = 0
  BY <1>1, LimiterAssumption DEF Joins, TypeOK, CountInv
<1>5. \A r \in Requests \ {q} : \A g : Precedes(r, g)' <=> Precedes(r, g)
  BY DEF Joins, Precedes
<1>6. \A g \in Nat : Precedes(q, g)' =>
        /\ got'[q] = count[KeyOf(q)] + 1 /\ gen'[q] = win[KeyOf(q)] /\ at'[q] = now
        /\ win[KeyOf(q)] <= g /\ (g = win[KeyOf(q)] => count[KeyOf(q)] = 0)
  BY <1>2, <1>3 DEF Joins, Precedes
<1>7. ArmInv'
  <2>1. \A k \in Keys : count'[k] = 0 => ttl'[k] = 0
    BY <1>1, <1>2, <1>3, <1>4 DEF Joins, ArmInv
  <2>2. ASSUME NEW r \in Requests, Precedes(r, win[KeyOf(r)])', ttl[KeyOf(r)] > 0
        PROVE  at'[r] + Window <= now + ttl[KeyOf(r)] \/ now = MaxTime
    <3>1. CASE r = q
      <4>1. Precedes(q, win[KeyOf(q)])'
        BY <3>1, <2>2
      <4>2. got'[q] = 1 /\ got'[q] = count[KeyOf(q)] + 1
        BY <4>1, <1>2, <1>3, <1>4 DEF Precedes, Joins
      <4>3. ttl[KeyOf(q)] = 0
        BY <4>2, <1>1, <1>2, <1>3 DEF ArmInv
      <4>4. QED
        BY <4>3, <3>1, <2>2
    <3>2. CASE r # q
      <4>1. Precedes(r, win[KeyOf(r)]) /\ at'[r] = at[r]
        BY <3>2, <2>2, <1>2, <1>4 DEF Joins, Precedes
      <4>2. QED
        BY <4>1, <2>2, <1>1 DEF ArmInv
    <3>3. QED
      BY <3>1, <3>2
  <2>3. QED
    BY <2>1, <2>2, <1>2, <1>4 DEF ArmInv, Precedes
<1>8. LifeInv'
  <2>1. \A r \in Requests : at'[r] <= now'
    BY <1>1, <1>2, <1>4 DEF Joins, LifeInv
  <2>2. ASSUME NEW r \in Requests, NEW g \in Nat, Precedes(r, g)', g < win[KeyOf(r)]
        PROVE  /\ at'[r] + Window <= now
               /\ \A s \in Requests : (KeyOf(s) = KeyOf(r) /\ got'[s] > 0 /\ g < gen'[s])
                    => at'[r] + Window <= at'[s]
    <3>1. r # q
      BY <2>2, <1>2, <1>3, <1>6
    <3>2. Precedes(r, g) /\ at'[r] = at[r]
      BY <3>1, <2>2, <1>5 DEF Joins
    <3>3. /\ at[r] + Window <= now
          /\ \A s \in Requests : (KeyOf(s) = KeyOf(r) /\ got[s] > 0 /\ g < gen[s])
               => at[r] + Window <= at[s]
      BY <3>2, <2>2, <1>1, <1>4 DEF LifeInv
    <3>4. QED
      BY <3>2, <3>3 DEF Joins
  <2>3. QED
    BY <2>1, <2>2, <1>2, <1>4 DEF LifeInv, Precedes
<1>9. QED
  BY <1>7, <1>8

\* What every other step of a request is for them: nothing is counted, and EXPIRE
\* gives Window to a key that exists.
Quiet ==
    /\ \A r \in Requests : KeyOf(r)' = KeyOf(r)
    /\ got' = got /\ gen' = gen /\ at' = at /\ lives' = lives
    /\ win' = win /\ count' = count /\ now' = now
    /\ \A r \in Requests :
         /\ pc'[r] = "new" => pc[r] = "new"
         /\ pc'[r] = "limited" /\ got[r] > 0 => pc[r] = "limited" \/ got[r] > Limit
    /\ \A k \in Keys : ttl'[k] = ttl[k] \/ (ttl'[k] = Window /\ count[k] # 0) \/ ttl'[k] = 0

LEMMA QuietSteps ==
  ASSUME IInv,
         \/ \E q \in Requests : \/ IncrFails(q) \/ Expire(q) \/ ExpireReplyLost(q)
                                \/ ExpireFails(q) \/ Decide(q)
         \/ Crash
         \/ UNCHANGED vars
  PROVE  Quiet
<1>1. TypeOK /\ \A r \in Requests : pc[r] = "new" => got[r] = 0
  BY DEF IInv, CountInv
<1>2. ASSUME NEW q \in Requests, IncrFails(q) PROVE Quiet
  BY <1>1, <1>2 DEF IncrFails, redisVars, Quiet, TypeOK, KeyOf
<1>3. ASSUME NEW q \in Requests, Expire(q) \/ ExpireReplyLost(q) PROVE Quiet
  <2>1. \A k \in Keys : ttl'[k] = ttl[k] \/ (ttl'[k] = Window /\ count[k] # 0) \/ ttl'[k] = 0
    BY <1>1, <1>3, KeyOfType DEF Expire, ExpireReplyLost, Armed, TypeOK
  <2>2. \A r \in Requests : pc'[r] = pc[r] \/ pc'[r] = "decide"
    BY <1>1, <1>3 DEF Expire, ExpireReplyLost, TypeOK
  <2>3. \A r \in Requests : KeyOf(r)' = KeyOf(r)
    BY <1>3 DEF Expire, ExpireReplyLost, KeyOf
  <2>4. UNCHANGED <<got, gen, at, lives, win, count, now>>
    BY <1>3 DEF Expire, ExpireReplyLost
  <2>5. QED
    BY <2>1, <2>2, <2>3, <2>4 DEF Quiet
<1>4. ASSUME NEW q \in Requests, ExpireFails(q) PROVE Quiet
  BY <1>1, <1>4 DEF ExpireFails, Quiet, TypeOK, KeyOf
<1>5. ASSUME NEW q \in Requests, Decide(q) PROVE Quiet
  BY <1>1, <1>5 DEF Decide, redisVars, Quiet, TypeOK, KeyOf
<1>6. CASE Crash
  <2>1. \A r \in Requests : pc'[r] \in {"dead", pc[r]}
    BY <1>6 DEF Crash
  <2>2. QED
    BY <1>1, <1>6, <2>1 DEF Crash, Quiet, KeyOf
<1>7. CASE UNCHANGED vars
  BY <1>7 DEF vars, Quiet, KeyOf
<1>8. QED
  BY <1>2, <1>3, <1>4, <1>5, <1>6, <1>7

LEMMA QuietStep ==
  ASSUME IInv, Quiet
  PROVE  TallyInv' /\ ArmInv' /\ LifeInv'
<1>1. TypeOK /\ TallyInv /\ ArmInv /\ LifeInv
  BY DEF IInv
<1>2. \A r \in Requests : KeyOf(r)' = KeyOf(r) /\ KeyOf(r) \in Keys
  BY <1>1, KeyOfType DEF Quiet
<1>3. \A r \in Requests : \A g : Precedes(r, g)' <=> Precedes(r, g)
  BY DEF Quiet, Precedes
<1>4. TallyInv'
  <2>1. \A k \in Keys : win'[k] > 0 /\ count'[k] = Cardinality(LifeOf(lives', k, win'[k]))
    BY <1>1 DEF Quiet, TallyInv
  <2>2. \A r \in Requests : \A i \in 1..Len(lives'[r]) : lives'[r][i] <= win'[KeyOf(r)]
    BY <1>1 DEF Quiet, TallyInv
  <2>3. \A r \in Requests :
          got'[r] > 0 => /\ gen'[r] > 0
                         /\ got'[r] <= Cardinality(LifeOf(lives', KeyOf(r), gen'[r]))
    BY <1>1 DEF Quiet, TallyInv
  <2>4. \A r \in Requests :
          /\ pc'[r] = "new" => gen'[r] = 0
          /\ pc'[r] = "limited" /\ got'[r] > 0 => got'[r] > Limit
    BY <1>1 DEF Quiet, TallyInv
  <2>5. QED
    BY <1>2, <2>1, <2>2, <2>3, <2>4, TallyNext
<1>5. ArmInv'
  <2>1. \A k \in Keys : count'[k] = 0 => ttl'[k] = 0
    BY <1>1 DEF Quiet, ArmInv
  <2>2. ASSUME NEW r \in Requests, Precedes(r, win[KeyOf(r)]), ttl'[KeyOf(r)] > 0
        PROVE  at[r] + Window <= now + ttl'[KeyOf(r)] \/ now = MaxTime
    <3>1. at[r] <= now /\ at[r] \in Nat /\ now \in Nat /\ Window \in Nat
      BY <1>1, LimiterAssumption DEF LifeInv, TypeOK
    <3>2. CASE ttl'[KeyOf(r)] = ttl[KeyOf(r)]
      BY <3>2, <2>2, <1>1 DEF ArmInv
    <3>3. CASE ttl'[KeyOf(r)] = Window
      BY <3>1, <3>3
    <3>4. QED
      BY <3>2, <3>3, <2>2, <1>2 DEF Quiet
  <2>3. QED
    BY <2>1, <2>2, <1>2 DEF ArmInv, Precedes, Quiet
<1>6. LifeInv'
  BY <1>1, <1>2, <1>3 DEF Quiet, LifeInv, Precedes
<1>7. QED
  BY <1>4, <1>5, <1>6

\* A tick ends the lives of the keys whose time has come, and starts new ones
\* that have counted nobody.
LEMMA TickLives ==
  ASSUME IInv, Tick
  PROVE  TallyInv' /\ ArmInv' /\ LifeInv'
<1>1. TypeOK /\ CountInv /\ TallyInv /\ ArmInv /\ LifeInv
  BY DEF IInv
<1>2. \A r \in Requests : KeyOf(r)' = KeyOf(r) /\ KeyOf(r) \in Keys
  BY <1>1, KeyOfType DEF Tick, KeyOf
<1>3. got' = got /\ gen' = gen /\ pc' = pc /\ at' = at /\ lives' = lives
  BY DEF Tick
<1>4. \A k \in Keys :
        /\ ttl[k] = 1 => count'[k] = 0 /\ win'[k] = win[k] + 1
        /\ ttl[k] # 1 => count'[k] = count[k] /\ win'[k] = win[k]
        /\ ttl'[k] = IF ttl[k] > 0 THEN ttl[k] - 1 ELSE 0
        /\ win[k] \in Nat /\ win[k] > 0 /\ count[k] \in Nat /\ ttl[k] \in Nat
  BY <1>1, LimiterAssumption DEF Tick, TypeOK, TallyInv
<1>5. \A r \in Requests :
        /\ gen[r] \in Nat /\ got[r] \in Nat /\ at[r] \in Nat /\ lives[r] \in Seq(Nat)
        /\ gen[r] <= win[KeyOf(r)]
        /\ \A i \in 1..Len(lives[r]) : lives[r][i] \in Nat /\ lives[r][i] <= win[KeyOf(r)]
  <2>1. \A r \in Requests :
          gen[r] \in Nat /\ got[r] \in Nat /\ at[r] \in Nat /\ lives[r] \in Seq(Nat)
    BY <1>1, LimiterAssumption DEF TypeOK
  <2>2. \A r \in Requests : gen[r] <= win[KeyOf(r)]
    BY <1>1 DEF CountInv
  <2>3. \A r \in Requests : \A i \in 1..Len(lives[r]) : lives[r][i] <= win[KeyOf(r)]
    BY <1>1 DEF TallyInv
  <2>4. QED
    BY <2>1, <2>2, <2>3
<1>6. /\ now' = (IF now < MaxTime THEN now + 1 ELSE now)
      /\ now \in Nat /\ now <= MaxTime /\ MaxTime \in Nat /\ Window \in Nat
  BY <1>1, LimiterAssumption DEF Tick, TypeOK
<1>7. \A r \in Requests : \A g : Precedes(r, g)' <=> Precedes(r, g)
  BY <1>3 DEF Precedes
<1>8. TallyInv'
  <2>1. \A k \in Keys : win'[k] > 0 /\ count'[k] = Cardinality(LifeOf(lives', k, win'[k]))
    <3> SUFFICES ASSUME NEW k \in Keys
                 PROVE  win'[k] > 0 /\ count'[k] = Cardinality(LifeOf(lives, k, win'[k]))
      BY <1>3
    <3>1. CASE ttl[k] = 1
      <4>1. ASSUME NEW r \in Requests, NEW i \in 1..(Retries + 1)
            PROVE  ~(KeyOf(r) = k /\ i <= Len(lives[r]) /\ lives[r][i] = win[k] + 1)
        <5>1. i <= Len(lives[r]) => i \in 1..Len(lives[r])
          BY <1>5, LimiterAssumption
        <5>2. QED
          BY <5>1, <1>4, <1>5
      <4>2. LifeOf(lives, k, win[k] + 1) = {}
        BY <4>1 DEF LifeOf
      <4>3. win'[k] = win[k] + 1 /\ count'[k] = 0 /\ win'[k] > 0
        BY <3>1, <1>4
      <4>4. Cardinality(LifeOf(lives, k, win'[k])) = 0
        BY <4>2, <4>3, FS_EmptySet
      <4>5. QED
        BY <4>3, <4>4
    <3>2. CASE ttl[k] # 1
      BY <3>2, <1>1, <1>4 DEF TallyInv
    <3>3. QED
      BY <3>1, <3>2
  <2>2. \A r \in Requests : \A i \in 1..Len(lives'[r]) : lives'[r][i] <= win'[KeyOf(r)]
    <3> SUFFICES ASSUME NEW r \in Requests, NEW i \in 1..Len(lives[r])
                 PROVE  lives[r][i] <= win'[KeyOf(r)]
      BY <1>3
    <3>1. win[KeyOf(r)] \in Nat /\ win'[KeyOf(r)] \in {win[KeyOf(r)], win[KeyOf(r)] + 1}
      BY <1>2, <1>4
    <3>2. lives[r][i] \in Nat /\ lives[r][i] <= win[KeyOf(r)]
      BY <1>5
    <3>3. QED
      BY <3>1, <3>2
  <2>3. \A r \in Requests :
          got'[r] > 0 => /\ gen'[r] > 0
                         /\ got'[r] <= Cardinality(LifeOf(lives', KeyOf(r), gen'[r]))
    BY <1>1, <1>3 DEF TallyInv
  <2>4. \A r \in Requests :
          /\ pc'[r] = "new" => gen'[r] = 0
          /\ pc'[r] = "limited" /\ got'[r] > 0 => got'[r] > Limit
    BY <1>1, <1>3 DEF TallyInv
  <2>5. QED
    BY <1>2, <2>1, <2>2, <2>3, <2>4, TallyNext
<1>9. ArmInv'
  <2>1. \A k \in Keys : count'[k] = 0 => ttl'[k] = 0
    BY <1>1, <1>4 DEF ArmInv
  <2>2. ASSUME NEW r \in Requests, Precedes(r, win[KeyOf(r)])', ttl'[KeyOf(r)] > 0
        PROVE  at'[r] + Window <= now' + ttl'[KeyOf(r)] \/ now' = MaxTime
    <3>1. /\ ttl[KeyOf(r)] > 1 /\ ttl[KeyOf(r)] \in Nat
          /\ win'[KeyOf(r)] = win[KeyOf(r)] /\ ttl'[KeyOf(r)] = ttl[KeyOf(r)] - 1
      BY <2>2, <1>2, <1>4
    <3>2. Precedes(r, win[KeyOf(r)])
      BY <2>2, <3>1, <1>2, <1>3 DEF Precedes
    <3>3. at[r] + Window <= now + ttl[KeyOf(r)] \/ now = MaxTime
      BY <3>1, <3>2, <1>1 DEF ArmInv
    <3>4. at[r] \in Nat
      BY <1>5
    <3>5. QED
      BY <3>1, <3>3, <3>4, <1>3, <1>6
  <2>3. QED
    BY <2>1, <2>2, <1>2 DEF ArmInv
<1>10. LifeInv'
  <2>1. \A r \in Requests : at'[r] <= now'
    BY <1>1, <1>3, <1>5, <1>6 DEF LifeInv
  <2>2. ASSUME NEW r \in Requests, NEW g \in Nat, Precedes(r, g), g < win'[KeyOf(r)]
        PROVE  /\ at[r] + Window <= now' \/ now' = MaxTime
               /\ \A s \in Requests : (KeyOf(s) = KeyOf(r) /\ got[s] > 0 /\ g < gen[s])
                    => at[r] + Window <= at[s]
    <3>1. CASE g < win[KeyOf(r)]
      <4>1. /\ at[r] + Window <= now \/ now = MaxTime
            /\ \A s \in Requests : (KeyOf(s) = KeyOf(r) /\ got[s] > 0 /\ g < gen[s])
                 => at[r] + Window <= at[s]
        BY <3>1, <2>2, <1>1 DEF LifeInv
      <4>2. at[r] + Window <= now' \/ now' = MaxTime
        BY <4>1, <1>5, <1>6
      <4>3. QED
        BY <4>1, <4>2
    <3>2. CASE ~(g < win[KeyOf(r)])
      <4>1. g = win[KeyOf(r)] /\ ttl[KeyOf(r)] = 1
        BY <3>2, <2>2, <1>2, <1>4
      <4>2. at[r] + Window <= now + 1 \/ now = MaxTime
        BY <4>1, <2>2, <1>1 DEF ArmInv
      <4>3. at[r] + Window <= now' \/ now' = MaxTime
        BY <4>2, <1>5, <1>6
      <4>4. \A s \in Requests : ~(KeyOf(s) = KeyOf(r) /\ g < gen[s])
        BY <4>1, <1>2, <1>4, <1>5
      <4>5. QED
        BY <4>3, <4>4
    <3>3. QED
      BY <3>1, <3>2
  <2>3. QED
    BY <2>1, <2>2, <1>2, <1>3, <1>7 DEF LifeInv, Precedes
<1>11. QED
  BY <1>8, <1>9, <1>10

LEMMA IInvStep ==
  ASSUME IInv, [Next]_vars
  PROVE  IInv'
<1>1. TypeOK'
  BY TypeOKStep DEF IInv
<1>2. CountInv' /\ DistinctInv' /\ ExpiryArmed'
  <2>1. ASSUME NEW r \in Requests, Step(r) \/ Fault(r)
        PROVE  CountInv' /\ DistinctInv' /\ ExpiryArmed'
    BY <2>1, IncrStep, IncrReplyLostStep, ExpireStep, RequestStep DEF Step, Fault
  <2>2. CASE UNCHANGED vars
    BY <2>2 DEF vars, IInv, CountInv, DistinctInv, ExpiryArmed, Arms, KeyOf
  <2>3. QED
    BY <2>1, <2>2, CrashStep, TickStep DEF Next
<1>3. TallyInv' /\ ArmInv' /\ LifeInv'
  <2>1. ASSUME NEW r \in Requests, Step(r) \/ Fault(r)
        PROVE  TallyInv' /\ ArmInv' /\ LifeInv'
    <3>1. CASE Incr(r) \/ IncrReplyLost(r)
      BY <3>1, <1>1, IncrJoins, JoinTally, JoinLives
    <3>2. CASE \/ IncrFails(r) \/ Expire(r) \/ ExpireReplyLost(r)
               \/ ExpireFails(r) \/ Decide(r)
      BY <3>2, QuietSteps, QuietStep
    <3>3. QED
      BY <2>1, <3>1, <3>2 DEF Step, Fault
  <2>2. CASE Crash \/ UNCHANGED vars
    BY <2>2, QuietSteps, QuietStep
  <2>3. QED
    BY <2>1, <2>2, TickLives DEF Next
<1>4. QED
  BY <1>1, <1>2, <1>3 DEF IInv

LEMMA IInvCorrect == Spec => []IInv
<1>1. Init => IInv
  BY InitIInv
<1>2. IInv /\ [Next]_vars => IInv'
  BY IInvStep
<1>3. QED
  BY <1>1, <1>2, PTL DEF Spec

-----------------------------------------------------------------------------
(* What follows from it *)

\* The admitted requests of one life of a key hold different counts from 1 to
\* Limit, so there are no more than Limit of them.
LEMMA IInvLimit == IInv => LimitPerWindow
<1> SUFFICES ASSUME IInv, NEW k \in Keys, NEW q \in Admitted(k)
             PROVE  Cardinality(Admitted(k) \cap Counted(k, gen[q])) <= Limit
  BY DEF LimitPerWindow
<1> DEFINE S == Admitted(k) \cap Counted(k, gen[q])
           f == [r \in S |-> got[r]]
<1>1. \A r \in S : /\ r \in Requests
                   /\ got[r] \in 1..Limit
                   /\ KeyOf(r) = k
                   /\ gen[r] = gen[q]
  BY LimiterAssumption DEF Admitted, Counted, IInv, TypeOK, CountInv
<1>2. f \in [S -> 1..Limit]
  BY <1>1
<1>3. \A r, s \in S : f[r] = f[s] => r = s
  BY <1>1 DEF IInv, DistinctInv
<1>4. f \in Injection(S, 1..Limit)
  BY <1>2, <1>3 DEF Injection, IsInjective
<1>5. IsFiniteSet(1..Limit) /\ Cardinality(1..Limit) = Limit
  BY FS_Interval, LimiterAssumption
<1>6. QED
  BY <1>4, <1>5, FS_Injection

\* No more than Limit requests are admitted in one life of a key, for any
\* number of concurrent requests and whatever is lost (checkRateLimit).
THEOREM LimitPerWindowCorrect == Spec => []LimitPerWindow
<1>1. IInv => LimitPerWindow
  BY IInvLimit
<1>2. QED
  BY <1>1, IInvCorrect, PTL

\* A key without a time to live is about to get one or was orphaned by a fault
\* (the EXPIRE of checkRateLimit).
THEOREM ExpiryArmedCorrect == Spec => []ExpiryArmed
<1>1. IInv => ExpiryArmed
  BY DEF IInv
<1>2. QED
  BY <1>1, IInvCorrect, PTL

\* A request that read a count over the limit has at least Limit other INCRs of
\* its app and endpoint beside its own in its window.
LEMMA IInvDenied == IInv => DeniedOnlyWhenFull
<1> SUFFICES ASSUME IInv, NEW r \in Requests, pc[r] = "limited", got[r] > 0
             PROVE  Cardinality(Raised(app[r], ep[r], gen[r]) \ {<<r, Len(lives[r])>>}) >= Limit
  BY DEF DeniedOnlyWhenFull
<1> DEFINE S == LifeOf(lives, KeyOf(r), gen[r])
           own == <<r, Len(lives[r])>>
<1>1. got[r] > Limit /\ got[r] <= Cardinality(S)
  BY DEF IInv, TallyInv
<1>2. IsFiniteSet(S) /\ Cardinality(S) \in Nat
  BY LifeFinite
<1>3. Raised(app[r], ep[r], gen[r]) = S
  BY DEF Raised, LifeOf, KeyOf, Key
<1>4. got[r] \in Nat /\ Limit \in Nat
  BY LimiterAssumption DEF IInv, TypeOK
<1> HIDE DEF S, own
<1>5. Cardinality(S \ {own}) >= Cardinality(S) - 1
  <2>1. CASE own \in S
    <3>1. Cardinality(S \ {own}) = Cardinality(S) - 1
      BY <2>1, <1>2, FS_RemoveElement
    <3>2. QED
      BY <3>1, <1>2
  <2>2. CASE own \notin S
    <3>1. Cardinality(S \ {own}) = Cardinality(S)
      <4>1. S \ {own} = S
        BY <2>2
      <4>2. QED
        BY <4>1
    <3>2. QED
      BY <3>1, <1>2
  <2>3. QED
    BY <2>1, <2>2
<1>6. Cardinality(S \ {own}) \in Nat
  BY <1>2, FS_Subset, FS_CardinalityType
<1>7. Cardinality(S \ {own}) >= Limit
  BY <1>1, <1>2, <1>4, <1>5, <1>6
<1>8. QED
  BY <1>3, <1>7 DEF own

\* Nobody is turned away for the traffic of another app or endpoint (checkRateLimit
\* and its key), for any number of them, of concurrent requests and of commands the
\* Redis client sends again.
THEOREM DeniedOnlyWhenFullCorrect == Spec => []DeniedOnlyWhenFull
<1>1. IInv => DeniedOnlyWhenFull
  BY IInvDenied
<1>2. QED
  BY <1>1, IInvCorrect, PTL

\* Admitted requests with different counts from low to Limit.
LEMMA AdmittedBound ==
  ASSUME IInv, NEW k \in Keys, NEW g, NEW low \in {1, 2},
         NEW S \in SUBSET (Admitted(k) \cap Counted(k, g)),
         \A r \in S : got[r] >= low
  PROVE  /\ IsFiniteSet(S)
         /\ Cardinality(S) <= Limit - low + 1
<1> DEFINE f == [r \in S |-> got[r]]
<1>1. \A r \in S : /\ r \in Requests
                   /\ got[r] \in low..Limit
                   /\ KeyOf(r) = k
                   /\ gen[r] = g
                   /\ got[r] > 0
  BY LimiterAssumption DEF Admitted, Counted, IInv, TypeOK, CountInv
<1>2. f \in [S -> low..Limit]
  BY <1>1
<1>3. \A r, s \in S : f[r] = f[s] => r = s
  BY <1>1 DEF IInv, DistinctInv
<1>4. f \in Injection(S, low..Limit)
  BY <1>2, <1>3 DEF Injection, IsInjective
<1>5. IsFiniteSet(low..Limit) /\ Cardinality(low..Limit) = Limit - low + 1
  <2>1. low \in Int /\ Limit \in Int /\ low <= Limit + 1
    BY LimiterAssumption
  <2>2. IsFiniteSet(low..Limit)
        /\ Cardinality(low..Limit) = IF low > Limit THEN 0 ELSE Limit - low + 1
    BY <2>1, FS_Interval
  <2>3. QED
    BY <2>1, <2>2
<1>6. Cardinality(S) <= Cardinality(low..Limit)
  BY <1>4, <1>5, FS_Injection
<1>7. IsFiniteSet(S)
  BY <1>1, LimiterAssumption, FS_Subset
<1>8. QED
  BY <1>5, <1>6, <1>7

\* Two lives of a key can meet in Window ticks, never three; who read 1 in the older
\* one came too early, so it has at most Limit - 1 admitted requests there.
LEMMA IInvBurst == IInv => BurstBound
<1> SUFFICES ASSUME IInv, NEW k \in Keys, NEW t \in 0..MaxTime
             PROVE  Cardinality({r \in Admitted(k) : at[r] \in t..(t + Window - 1)}) < 2 * Limit
  BY DEF BurstBound
<1> DEFINE S == {r \in Admitted(k) : at[r] \in t..(t + Window - 1)}
           In(g) == {r \in S : gen[r] = g}
<1>1. TypeOK /\ CountInv /\ DistinctInv /\ TallyInv /\ ArmInv /\ LifeInv
  BY DEF IInv
<1>2. \A r \in S : /\ r \in Requests /\ KeyOf(r) = k /\ got[r] \in Nat /\ got[r] >= 1
                   /\ gen[r] \in Nat /\ gen[r] >= 1 /\ gen[r] <= win[k]
                   /\ at[r] \in Nat /\ t <= at[r] /\ at[r] < t + Window
  BY <1>1, LimiterAssumption DEF Admitted, TypeOK, CountInv, TallyInv
<1>3. t \in Nat /\ Window \in Nat /\ Limit \in Nat /\ Limit >= 1 /\ win[k] \in Nat
  BY <1>1, LimiterAssumption DEF TypeOK
<1>4. \A g : In(g) \in SUBSET (Admitted(k) \cap Counted(k, g))
  BY DEF Counted, Admitted
<1>5. \A g : IsFiniteSet(In(g)) /\ Cardinality(In(g)) \in Nat /\ Cardinality(In(g)) <= Limit
  <2> SUFFICES ASSUME NEW g
               PROVE  IsFiniteSet(In(g)) /\ Cardinality(In(g)) \in Nat /\ Cardinality(In(g)) <= Limit
    OBVIOUS
  <2>1. \A r \in In(g) : got[r] >= 1
    BY <1>2
  <2>2. IsFiniteSet(In(g)) /\ Cardinality(In(g)) <= Limit - 1 + 1
    BY <2>1, <1>4, AdmittedBound
  <2>3. QED
    BY <2>2, <1>3, FS_CardinalityType
<1>6. ASSUME NEW r \in S, NEW s \in S, gen[r] < gen[s]
      PROVE  Cardinality(S) < 2 * Limit
  <2>1. \A u \in In(gen[r]) : got[u] >= 2
    <3>1. SUFFICES ASSUME NEW u \in In(gen[r]), got[u] = 1 PROVE FALSE
      BY <1>2
    <3>2. Precedes(u, gen[r]) /\ gen[r] \in Nat /\ gen[r] < win[k] /\ KeyOf(u) = k
      BY <3>1, <1>2, <1>3, <1>6 DEF Precedes
    <3>3. s \in Requests /\ KeyOf(s) = k /\ got[s] > 0 /\ u \in Requests
      BY <3>1, <1>2
    <3>4. at[u] + Window <= at[s]
      BY <3>2, <3>3, <1>1, <1>6 DEF LifeInv
    <3>5. QED
      BY <3>1, <3>4, <1>2, <1>3
  <2>2. Cardinality(In(gen[r])) <= Limit - 1
    <3>1. Cardinality(In(gen[r])) <= Limit - 2 + 1
      BY <2>1, <1>4, AdmittedBound
    <3>2. QED
      BY <3>1, <1>3, <1>5
  <2>3. \A u \in S : gen[u] = gen[r] \/ gen[u] = gen[s]
    <3>1. SUFFICES ASSUME NEW u \in S, gen[u] # gen[r], gen[u] # gen[s] PROVE FALSE
      OBVIOUS
    <3>2. \A x, y, z \in S : ~(gen[x] < gen[y] /\ gen[y] < gen[z])
      <4>1. SUFFICES ASSUME NEW x \in S, NEW y \in S, NEW z \in S,
                            gen[x] < gen[y], gen[y] < gen[z]
            PROVE  FALSE
        OBVIOUS
      <4>2. Precedes(x, gen[y]) /\ gen[y] \in Nat /\ gen[y] < win[k] /\ KeyOf(x) = k
        BY <4>1, <1>2, <1>3 DEF Precedes
      <4>3. x \in Requests /\ z \in Requests /\ KeyOf(z) = k /\ got[z] > 0
        BY <1>2
      <4>4. at[x] + Window <= at[z]
        BY <4>1, <4>2, <4>3, <1>1 DEF LifeInv
      <4>5. QED
        BY <4>4, <1>2, <1>3
    <3>3. QED
      BY <3>1, <3>2, <1>2, <1>6
  <2>4. S = In(gen[r]) \cup In(gen[s])
    BY <2>3
  <2> HIDE DEF S, In
  <2>5. Cardinality(In(gen[r]) \cup In(gen[s]))
          = Cardinality(In(gen[r])) + Cardinality(In(gen[s]))
              - Cardinality(In(gen[r]) \cap In(gen[s]))
    BY <1>5, FS_Union
  <2>6. Cardinality(In(gen[r]) \cap In(gen[s])) \in Nat
    BY <1>5, FS_Intersection, FS_CardinalityType
  <2>7. QED
    BY <2>2, <2>4, <2>5, <2>6, <1>3, <1>5
<1>7. CASE \A r, s \in S : ~(gen[r] < gen[s])
  <2>1. CASE S = {}
    <3>1. Cardinality(S) = 0
      BY <2>1, FS_EmptySet
    <3> HIDE DEF S
    <3>2. Cardinality(S) < 2 * Limit
      BY <3>1, <1>3
    <3>3. QED
      BY <3>2 DEF S
  <2>2. CASE S # {}
    <3>1. PICK r \in S : TRUE
      BY <2>2
    <3>2. S = In(gen[r])
      BY <3>1, <1>2, <1>7
    <3> HIDE DEF S, In
    <3>3. Cardinality(S) < 2 * Limit
      BY <3>2, <1>3, <1>5
    <3>4. QED
      BY <3>3 DEF S
  <2>3. QED
    BY <2>1, <2>2
<1>8. QED
  BY <1>6, <1>7

\* Over any Window consecutive ticks fewer than 2 * Limit requests are admitted
\* (the fixed window of checkRateLimit), whatever is lost.
THEOREM BurstBoundCorrect == Spec => []BurstBound
<1>1. IInv => BurstBound
  BY IInvBurst
<1>2. QED
  BY <1>1, IInvCorrect, PTL

-----------------------------------------------------------------------------
(* PermissionCache *)

(***************************************************************************)
(* The inductive invariant.  A list in the hands of a check is subject to  *)
(* the same conditions as a cached one: it may become one at any time.     *)
(***************************************************************************)

\* l is a list the cache of subject s may hold.
GoodList(s, l) ==
    /\ l \subseteq StoredPerms(s)
    /\ "truncated" \notin Faults => first[s] \subseteq l

CachedGood == \A s \in Subjects : \A l \in cache[CacheKey(s)] : GoodList(s, l)

HeldGood ==
    \A c \in Checks : check[c].at = "set" => GoodList(check[c].who, check[c].list)

\* first is what its name says: stored, and empty only if nothing is.
FirstInv ==
    \A s \in Subjects :
        /\ first[s] \subseteq StoredPerms(s)
        /\ first[s] = {} => StoredPerms(s) = {}

CacheInv == CacheTypeOK /\ CachedGood /\ HeldGood /\ FirstInv /\ NoUndueGrant

-----------------------------------------------------------------------------
(* Facts about checks and assignments *)

LEMMA CheckType ==
  ASSUME CacheTypeOK, NEW c \in Checks
  PROVE  /\ check[c].at \in {"idle", "query", "set"}
         /\ check[c].at = "idle" <=> check[c] = Idle
         /\ check[c].at \in {"query", "set"} =>
              check[c].who \in Subjects /\ check[c].want \in Wants
         /\ check[c].at = "set" => check[c].list \in Lists
<1>1. check[c] \in {Idle} \cup Reading \cup Filling
  BY DEF CacheTypeOK
<1>2. CASE check[c] = Idle
  BY <1>2 DEF Idle
<1>3. CASE check[c] \in Reading
  BY <1>3 DEF Idle, Reading
<1>4. CASE check[c] \in Filling
  BY <1>4 DEF Idle, Filling
<1>5. QED
  BY <1>1, <1>2, <1>3, <1>4

LEMMA AssignerType ==
  ASSUME CacheTypeOK, NEW a \in Assigners,
         assigner[a].at \in {"invalidate", "announce", "done"}
  PROVE  /\ assigner[a] \in Working
         /\ assigner[a].who \in Subjects /\ assigner[a].role \in Roles
BY DEF CacheTypeOK, New, Ended, Working

LEMMA StoredType == \A s : StoredPerms(s) \subseteq Perms
BY DEF StoredPerms

-----------------------------------------------------------------------------
(* Type correctness *)

LEMMA InitCacheTypeOK == CacheInit => CacheTypeOK
BY DEF CacheInit, CacheTypeOK

LEMMA AnswerType ==
  ASSUME CacheTypeOK, NEW c \in Checks, NEW s \in Subjects, NEW want \in Wants,
         NEW list, Answer(c, s, want, list)
  PROVE  /\ check' \in [Checks -> {Idle} \cup Reading \cup Filling]
         /\ granted' \subseteq Subjects \X Wants
BY DEF CacheTypeOK, Answer

LEMMA FetchedType ==
  ASSUME CacheTypeOK, NEW c \in Checks, check[c].at = "query",
         NEW list \in SUBSET Perms, Fetched(c, list)
  PROVE  /\ check' \in [Checks -> {Idle} \cup Reading \cup Filling]
         /\ granted' \subseteq Subjects \X Wants
<1>1. check[c].who \in Subjects /\ check[c].want \in Wants
  BY CheckType
<1>2. CASE Answer(c, check[c].who, check[c].want, list)
  BY <1>1, <1>2, AnswerType
<1>3. CASE /\ list # {}
           /\ check' = [check EXCEPT ![c] =
                          [at |-> "set", who |-> check[c].who,
                           want |-> check[c].want, list |-> list]]
           /\ UNCHANGED granted
  <2>1. [at |-> "set", who |-> check[c].who, want |-> check[c].want,
         list |-> list] \in Filling
    BY <1>1, <1>3 DEF Filling, Lists
  <2>2. QED
    BY <1>3, <2>1 DEF CacheTypeOK
<1>4. QED
  BY <1>2, <1>3 DEF Fetched

LEMMA CheckStepType ==
  ASSUME CacheTypeOK, NEW c \in Checks, CheckStep(c)
  PROVE  CacheTypeOK'
<1>1. ASSUME NEW s \in Subjects, NEW want \in Wants, Hit(c, s, want)
      PROVE  CacheTypeOK'
  BY <1>1, AnswerType DEF Hit, CacheTypeOK
<1>2. ASSUME NEW s \in Subjects, NEW want \in Wants, Miss(c, s, want)
      PROVE  CacheTypeOK'
  <2>1. [at |-> "query", who |-> s, want |-> want] \in Reading
    BY DEF Reading
  <2>2. QED
    BY <1>2, <2>1 DEF Miss, CacheTypeOK
<1>3. CASE Query(c)
  <2>1. PICK list \in SUBSET Perms : Fetched(c, list)
    BY <1>3, StoredType DEF Query
  <2>2. QED
    BY <1>3, <2>1, FetchedType DEF Query, CacheTypeOK
<1>4. CASE QueryFails(c)
  BY <1>4 DEF QueryFails, CacheTypeOK
<1>5. CASE Fill(c)
  <2>1. /\ check[c].who \in Subjects /\ check[c].want \in Wants
        /\ check[c].list \in Lists
    BY <1>5, CheckType DEF Fill
  <2>2. cache' \in [CacheKeys -> SUBSET Lists]
    BY <1>5, <2>1 DEF Fill, CacheTypeOK
  <2>3. QED
    BY <1>5, <2>1, <2>2, AnswerType DEF Fill, CacheTypeOK
<1>6. CASE FillReplyLost(c)
  <2>1. check[c].list \in Lists
    BY <1>6, CheckType DEF FillReplyLost
  <2>2. cache' \in [CacheKeys -> SUBSET Lists]
    BY <1>6, <2>1 DEF FillReplyLost, CacheTypeOK
  <2>3. QED
    BY <1>6, <2>2 DEF FillReplyLost, CacheTypeOK
<1>7. CASE CheckDies(c)
  BY <1>7 DEF CheckDies, CacheTypeOK
<1>8. QED
  BY <1>1, <1>2, <1>3, <1>4, <1>5, <1>6, <1>7 DEF CheckStep

LEMMA CommitType ==
  ASSUME CacheTypeOK, NEW s \in Subjects, NEW r \in Roles, Commit(s, r)
  PROVE  /\ assigned' \subseteq Subjects \X Roles
         /\ first' \in [Subjects -> SUBSET Perms]
BY CacheAssumption DEF Commit, CacheTypeOK

LEMMA AssignStepType ==
  ASSUME CacheTypeOK, NEW a \in Assigners, AssignStep(a)
  PROVE  CacheTypeOK'
<1>1. ASSUME NEW s \in Subjects, NEW r \in Roles, Assign(a, s, r)
      PROVE  CacheTypeOK'
  <2>1. [at |-> "invalidate", who |-> s, role |-> r] \in Working
    BY DEF Working
  <2>2. assigner' \in [Assigners -> {New, Ended} \cup Working]
    BY <1>1, <2>1 DEF Assign, CacheTypeOK
  <2>3. QED
    BY <1>1, <2>2, CommitType DEF Assign, CacheTypeOK
<1>2. ASSUME NEW s \in Subjects, NEW r \in Roles, AssignFails(a, s, r)
      PROVE  CacheTypeOK'
  <2>1. assigned' \subseteq Subjects \X Roles /\ first' \in [Subjects -> SUBSET Perms]
    BY <1>2, CommitType DEF AssignFails, CacheTypeOK
  <2>2. QED
    BY <1>2, <2>1 DEF AssignFails, CacheTypeOK
<1>3. CASE Invalidate(a)
  <2>1. assigner[a] \in Working /\ assigner[a].who \in Subjects
    BY <1>3, AssignerType DEF Invalidate
  <2>2. [assigner[a] EXCEPT !.at = "announce"] \in Working
    BY <2>1 DEF Working
  <2>3. assigner' \in [Assigners -> {New, Ended} \cup Working]
    BY <1>3, <2>2 DEF Invalidate, CacheTypeOK
  <2>4. cache' \in [CacheKeys -> SUBSET Lists]
    BY <1>3, <2>1 DEF Invalidate, CacheTypeOK
  <2>5. QED
    BY <1>3, <2>3, <2>4 DEF Invalidate, CacheTypeOK
<1>4. CASE InvalidateReplyLost(a)
  <2>1. cache' \in [CacheKeys -> SUBSET Lists]
    BY <1>4 DEF InvalidateReplyLost, CacheTypeOK
  <2>2. QED
    BY <1>4, <2>1 DEF InvalidateReplyLost, CacheTypeOK
<1>5. CASE Announce(a)
  <2>1. /\ assigner[a] \in Working
        /\ assigner[a].who \in Subjects /\ assigner[a].role \in Roles
    BY <1>5, AssignerType DEF Announce
  <2>2. [assigner[a] EXCEPT !.at = "done"] \in Working
    BY <2>1 DEF Working
  <2>3. assigner' \in [Assigners -> {New, Ended} \cup Working]
    BY <1>5, <2>2 DEF Announce, CacheTypeOK
  <2>4. announced' \subseteq Subjects \X Roles
    BY <1>5, <2>1 DEF Announce, CacheTypeOK
  <2>5. QED
    BY <1>5, <2>3, <2>4 DEF Announce, CacheTypeOK
<1>6. CASE AssignerDies(a)
  BY <1>6 DEF AssignerDies, CacheTypeOK
<1>7. QED
  BY <1>1, <1>2, <1>3, <1>4, <1>5, <1>6 DEF AssignStep

LEMMA CacheTypeOKStep ==
  ASSUME CacheTypeOK, [CacheNext]_cacheVars
  PROVE  CacheTypeOK'
<1>1. ASSUME NEW k \in CacheKeys, Evict(k) PROVE CacheTypeOK'
  BY <1>1 DEF Evict, CacheTypeOK
<1>2. CASE UNCHANGED cacheVars
  BY <1>2 DEF cacheVars, CacheTypeOK
<1>3. QED
  BY <1>1, <1>2, CheckStepType, AssignStepType DEF CacheNext

\* The types hold; in particular no empty list is ever cached.
THEOREM CacheTypeCorrect == CacheSafeSpec => []CacheTypeOK
<1>1. CacheInit => CacheTypeOK
  BY InitCacheTypeOK
<1>2. CacheTypeOK /\ [CacheNext]_cacheVars => CacheTypeOK'
  BY CacheTypeOKStep
<1>3. QED
  BY <1>1, <1>2, PTL DEF CacheSafeSpec

-----------------------------------------------------------------------------
(* The inductive invariant *)

LEMMA InitCacheInv == CacheInit => CacheInv
<1> SUFFICES ASSUME CacheInit PROVE CacheInv
  OBVIOUS
<1>1. CacheTypeOK
  BY InitCacheTypeOK
<1>2. CachedGood
  BY DEF CacheInit, CachedGood, CacheKeys
<1>3. HeldGood
  BY DEF CacheInit, HeldGood, Idle
<1>4. FirstInv
  BY DEF CacheInit, FirstInv, StoredPerms
<1>5. NoUndueGrant
  BY DEF CacheInit, NoUndueGrant
<1>6. QED
  BY <1>1, <1>2, <1>3, <1>4, <1>5 DEF CacheInv

\* An answer given from a list without undue permissions grants none.
LEMMA AnswerSound ==
  ASSUME CacheInv, NEW c \in Checks, NEW s \in Subjects, NEW want \in Wants,
         NEW list \in SUBSET StoredPerms(s), Answer(c, s, want, list),
         assigned' = assigned, first' = first
  PROVE  HeldGood' /\ NoUndueGrant'
<1>1. \A t : StoredPerms(t)' = StoredPerms(t)
  BY DEF StoredPerms
<1>2. HeldGood'
  <2>1. check'[c] = Idle /\ \A d \in Checks \ {c} : check'[d] = check[d]
    BY DEF Answer, CacheInv, CacheTypeOK
  <2>2. QED
    BY <1>1, <2>1 DEF HeldGood, GoodList, CacheInv, Idle
<1>3. NoUndueGrant'
  <2>1. ASSUME NEW g \in granted' PROVE StoredPerms(g[1]) \cap g[2] # {}
    <3>1. CASE g \in granted
      BY <3>1 DEF CacheInv, NoUndueGrant
    <3>2. CASE g \notin granted
      <4>1. g = <<s, want>> /\ Allows(list, want)
        BY <2>1, <3>2 DEF Answer
      <4>2. QED
        BY <4>1 DEF Allows
    <3>3. QED
      BY <3>1, <3>2
  <2>2. QED
    BY <1>1, <2>1 DEF NoUndueGrant
<1>4. QED
  BY <1>2, <1>3

\* What the query of a check returns may be cached.
LEMMA FetchedSound ==
  ASSUME CacheInv, NEW c \in Checks, check[c].at = "query",
         NEW list \in SUBSET StoredPerms(check[c].who),
         "truncated" \notin Faults => list = StoredPerms(check[c].who),
         Fetched(c, list), assigned' = assigned, first' = first
  PROVE  HeldGood' /\ NoUndueGrant'
<1>1. check[c].who \in Subjects /\ check[c].want \in Wants
  BY CheckType DEF CacheInv
<1>2. CASE Answer(c, check[c].who, check[c].want, list)
  BY <1>1, <1>2, AnswerSound
<1>3. CASE /\ check' = [check EXCEPT ![c] =
                          [at |-> "set", who |-> check[c].who,
                           want |-> check[c].want, list |-> list]]
           /\ UNCHANGED granted
  <2>1. \A t : StoredPerms(t)' = StoredPerms(t)
    BY DEF StoredPerms
  <2>2. /\ check'[c].who = check[c].who /\ check'[c].list = list
        /\ \A d \in Checks \ {c} : check'[d] = check[d]
    BY <1>3 DEF CacheInv, CacheTypeOK
  <2>3. GoodList(check[c].who, list)
    BY <1>1 DEF GoodList, CacheInv, FirstInv
  <2>4. HeldGood'
    <3>1. SUFFICES ASSUME NEW d \in Checks, check'[d].at = "set"
                   PROVE  GoodList(check'[d].who, check'[d].list)
      BY <2>1 DEF HeldGood, GoodList
    <3>2. CASE d = c
      BY <2>2, <2>3, <3>2
    <3>3. CASE d # c
      BY <2>2, <3>1, <3>3 DEF CacheInv, HeldGood
    <3>4. QED
      BY <3>2, <3>3
  <2>5. QED
    BY <1>3, <2>1, <2>4 DEF CacheInv, NoUndueGrant
<1>4. QED
  BY <1>2, <1>3 DEF Fetched

LEMMA CheckStepSound ==
  ASSUME CacheInv, NEW c \in Checks, CheckStep(c)
  PROVE  CachedGood' /\ HeldGood' /\ FirstInv' /\ NoUndueGrant'
<1>1. assigned' = assigned /\ first' = first
  BY DEF CheckStep, Hit, Miss, Query, QueryFails, Fill, FillReplyLost, CheckDies
<1>2. \A t : StoredPerms(t)' = StoredPerms(t)
  BY <1>1 DEF StoredPerms
<1>3. \A t, l : GoodList(t, l)' <=> GoodList(t, l)
  BY <1>1, <1>2 DEF GoodList
<1>4. FirstInv'
  BY <1>1, <1>2 DEF CacheInv, FirstInv
<1>5. CachedGood'
  <2>1. CASE cache' = cache
    BY <1>3, <2>1 DEF CacheInv, CachedGood, GoodList
  <2>2. CASE /\ check[c].at = "set"
             /\ cache' = [cache EXCEPT ![CacheKey(check[c].who)] = {check[c].list}]
    <3>1. GoodList(check[c].who, check[c].list)
      BY <2>2 DEF CacheInv, HeldGood
    <3>2. \A s \in Subjects :
            cache'[CacheKey(s)] =
              IF s = check[c].who THEN {check[c].list} ELSE cache[CacheKey(s)]
      BY <2>2 DEF CacheInv, CacheTypeOK, CacheKeys, CacheKey
    <3>3. ASSUME NEW s \in Subjects, NEW l \in cache'[CacheKey(s)]
          PROVE  GoodList(s, l)
      BY <3>1, <3>2, <3>3 DEF CacheInv, CachedGood
    <3>4. QED
      BY <1>3, <3>3 DEF CachedGood, CacheKey
  <2>3. QED
    BY <2>1, <2>2
       DEF CheckStep, Hit, Miss, Query, QueryFails, Fill, FillReplyLost, CheckDies
<1>6. HeldGood' /\ NoUndueGrant'
  <2>1. ASSUME NEW s \in Subjects, NEW want \in Wants, Hit(c, s, want)
        PROVE  HeldGood' /\ NoUndueGrant'
    <3>1. PICK list \in cache[CacheKey(s)] : Answer(c, s, want, list)
      BY <2>1 DEF Hit
    <3>2. list \subseteq StoredPerms(s)
      BY DEF CacheInv, CachedGood, GoodList
    <3>3. QED
      BY <1>1, <3>1, <3>2, AnswerSound
  <2>2. CASE Query(c)
    <3>1. PICK list \in SUBSET StoredPerms(check[c].who) :
            /\ Fetched(c, list)
            /\ "truncated" \notin Faults => list = StoredPerms(check[c].who)
      BY <2>2 DEF Query
    <3>2. check[c].at = "query"
      BY <2>2 DEF Query
    <3>3. QED
      BY <1>1, <3>1, <3>2, FetchedSound
  <2>3. CASE Fill(c)
    <3>1. check[c].who \in Subjects /\ check[c].want \in Wants
      BY <2>3, CheckType DEF Fill, CacheInv
    <3>2. check[c].list \subseteq StoredPerms(check[c].who)
      BY <2>3 DEF Fill, CacheInv, HeldGood, GoodList
    <3>3. Answer(c, check[c].who, check[c].want, check[c].list)
      BY <2>3 DEF Fill
    <3>4. QED
      BY <1>1, <3>1, <3>2, <3>3, AnswerSound
  <2>4. ASSUME check'[c].at # "set", \A d \in Checks \ {c} : check'[d] = check[d],
               UNCHANGED granted
        PROVE  HeldGood' /\ NoUndueGrant'
    <3>1. SUFFICES ASSUME NEW d \in Checks, check'[d].at = "set"
                   PROVE  GoodList(check'[d].who, check'[d].list)
      BY <1>1, <1>2, <2>4 DEF CacheInv, HeldGood, GoodList, NoUndueGrant
    <3>2. QED
      BY <2>4, <3>1 DEF CacheInv, HeldGood
  <2>5. ASSUME NEW s \in Subjects, NEW want \in Wants, Miss(c, s, want)
        PROVE  HeldGood' /\ NoUndueGrant'
    <3>1. check'[c].at = "query" /\ \A d \in Checks \ {c} : check'[d] = check[d]
      BY <2>5 DEF Miss, CacheInv, CacheTypeOK
    <3>2. QED
      BY <2>4, <2>5, <3>1 DEF Miss
  <2>6. CASE QueryFails(c) \/ CheckDies(c)
    <3>1. check'[c].at = "idle" /\ \A d \in Checks \ {c} : check'[d] = check[d]
      BY <2>6 DEF QueryFails, CheckDies, CacheInv, CacheTypeOK, Idle
    <3>2. QED
      BY <2>4, <2>6, <3>1 DEF QueryFails, CheckDies
  <2>7. CASE FillReplyLost(c)
    BY <1>1, <1>2, <2>7
       DEF FillReplyLost, CacheInv, HeldGood, GoodList, NoUndueGrant
  <2>8. QED
    BY <2>1, <2>2, <2>3, <2>5, <2>6, <2>7 DEF CheckStep
<1>7. QED
  BY <1>4, <1>5, <1>6

\* A commit only adds permissions.  If it gives the subject its first ones, no
\* list of that subject exists: it would be an empty one.
LEMMA CommitSound ==
  ASSUME CacheInv, NEW s \in Subjects, NEW r \in Roles, Commit(s, r),
         UNCHANGED <<cache, check, granted>>
  PROVE  CachedGood' /\ HeldGood' /\ FirstInv' /\ NoUndueGrant'
<1>1. \A t \in Subjects : StoredPerms(t) \subseteq StoredPerms(t)'
  BY DEF Commit, StoredPerms
<1>2. StoredPerms(s)' = StoredPerms(s) \cup RolePerms[r]
  BY CacheAssumption DEF Commit, StoredPerms
<1>3. \A t \in Subjects \ {s} : StoredPerms(t)' = StoredPerms(t)
  BY DEF Commit, StoredPerms
<1>4. /\ first'[s] = IF first[s] = {} THEN RolePerms[r] ELSE first[s]
      /\ \A t \in Subjects \ {s} : first'[t] = first[t]
  BY DEF Commit, CacheInv, CacheTypeOK
<1>5. ASSUME NEW t \in Subjects, NEW l \in Lists, GoodList(t, l)
      PROVE  GoodList(t, l)'
  <2>1. first[t] # {}
    BY <1>5 DEF GoodList, CacheInv, FirstInv, Lists
  <2>2. first'[t] = first[t]
    BY <1>4, <2>1
  <2>3. QED
    BY <1>1, <1>5, <2>2 DEF GoodList
<1>6. CachedGood'
  <2>1. SUFFICES ASSUME NEW t \in Subjects, NEW l \in cache[CacheKey(t)]
                 PROVE  GoodList(t, l)'
    BY DEF CachedGood
  <2>2. l \in Lists
    BY DEF CacheInv, CacheTypeOK, CacheKeys
  <2>3. QED
    BY <1>5, <2>2 DEF CacheInv, CachedGood
<1>7. HeldGood'
  <2>1. SUFFICES ASSUME NEW c \in Checks, check[c].at = "set"
                 PROVE  GoodList(check[c].who, check[c].list)'
    BY DEF HeldGood
  <2>2. check[c].who \in Subjects /\ check[c].list \in Lists
    BY <2>1, CheckType DEF CacheInv
  <2>3. QED
    BY <1>5, <2>1, <2>2 DEF CacheInv, HeldGood
<1>8. FirstInv'
  BY <1>2, <1>3, <1>4 DEF CacheInv, FirstInv
<1>9. NoUndueGrant'
  <2>1. ASSUME NEW g \in granted PROVE StoredPerms(g[1])' \cap g[2] # {}
    <3>1. g[1] \in Subjects
      BY DEF CacheInv, CacheTypeOK
    <3>2. QED
      BY <1>1, <3>1 DEF CacheInv, NoUndueGrant
  <2>2. QED
    BY <2>1 DEF NoUndueGrant
<1>10. QED
  BY <1>6, <1>7, <1>8, <1>9

\* A step that at most removes a list from the cache.
LEMMA RemovalSound ==
  ASSUME CacheInv, UNCHANGED <<assigned, check, granted, first>>,
         \A k \in CacheKeys : cache'[k] \subseteq cache[k]
  PROVE  CachedGood' /\ HeldGood' /\ FirstInv' /\ NoUndueGrant'
<1>1. \A t : StoredPerms(t)' = StoredPerms(t)
  BY DEF StoredPerms
<1>2. CachedGood'
  BY <1>1 DEF CacheInv, CachedGood, GoodList, CacheKeys
<1>3. HeldGood' /\ FirstInv' /\ NoUndueGrant'
  BY <1>1 DEF CacheInv, HeldGood, GoodList, FirstInv, NoUndueGrant
<1>4. QED
  BY <1>2, <1>3

LEMMA AssignStepSound ==
  ASSUME CacheInv, NEW a \in Assigners, AssignStep(a)
  PROVE  CachedGood' /\ HeldGood' /\ FirstInv' /\ NoUndueGrant'
<1>1. ASSUME NEW s \in Subjects, NEW r \in Roles,
             Assign(a, s, r) \/ AssignFails(a, s, r)
      PROVE  CachedGood' /\ HeldGood' /\ FirstInv' /\ NoUndueGrant'
  <2>1. CASE Commit(s, r)
    BY <1>1, <2>1, CommitSound DEF Assign, AssignFails
  <2>2. CASE UNCHANGED <<assigned, first>>
    BY <1>1, <2>2, RemovalSound DEF Assign, AssignFails
  <2>3. QED
    BY <1>1, <2>1, <2>2 DEF Assign, AssignFails
<1>2. CASE Invalidate(a) \/ InvalidateReplyLost(a)
  <2>1. \A k \in CacheKeys : cache'[k] \subseteq cache[k]
    BY <1>2 DEF Invalidate, InvalidateReplyLost, CacheInv, CacheTypeOK
  <2>2. QED
    BY <1>2, <2>1, RemovalSound DEF Invalidate, InvalidateReplyLost
<1>3. CASE Announce(a) \/ AssignerDies(a)
  BY <1>3, RemovalSound DEF Announce, AssignerDies
<1>4. QED
  BY <1>1, <1>2, <1>3 DEF AssignStep

LEMMA CacheInvStep ==
  ASSUME CacheInv, [CacheNext]_cacheVars
  PROVE  CacheInv'
<1>1. CacheTypeOK'
  BY CacheTypeOKStep DEF CacheInv
<1>2. ASSUME NEW k \in CacheKeys, Evict(k)
      PROVE  CachedGood' /\ HeldGood' /\ FirstInv' /\ NoUndueGrant'
  <2>1. \A j \in CacheKeys : cache'[j] \subseteq cache[j]
    BY <1>2 DEF Evict, CacheInv, CacheTypeOK
  <2>2. QED
    BY <1>2, <2>1, RemovalSound DEF Evict
<1>3. CASE UNCHANGED cacheVars
  BY <1>1, <1>3, RemovalSound DEF cacheVars, CacheInv
<1>4. QED
  BY <1>1, <1>2, <1>3, CheckStepSound, AssignStepSound DEF CacheNext, CacheInv

LEMMA CacheInvCorrect == CacheSafeSpec => []CacheInv
<1>1. CacheInit => CacheInv
  BY InitCacheInv
<1>2. CacheInv /\ [CacheNext]_cacheVars => CacheInv'
  BY CacheInvStep
<1>3. QED
  BY <1>1, <1>2, PTL DEF CacheSafeSpec

-----------------------------------------------------------------------------
(* What follows from it *)

\* The cache never lists a permission its user does not have in its
\* organization (GetUserPermissions, whatever fails or interleaves).
THEOREM CacheSoundCorrect == CacheSafeSpec => []CacheSound
<1>1. CacheInv => CacheSound
  BY DEF CacheInv, CachedGood, GoodList, CacheSound
<1>2. QED
  BY <1>1, CacheInvCorrect, PTL

\* HasPermission and HasAnyPermission answer true only for permissions the user
\* has in that organization.
THEOREM NoUndueGrantCorrect == CacheSafeSpec => []NoUndueGrant
<1>1. CacheInv => NoUndueGrant
  BY DEF CacheInv
<1>2. QED
  BY <1>1, CacheInvCorrect, PTL

\* The first role of a user in an organization is never hidden by a stale list,
\* even if every DEL fails, as long as reads are complete.
THEOREM FirstRoleAtOnceCorrect == CacheSafeSpec => []FirstRoleAtOnce
<1>1. CacheInv => FirstRoleAtOnce
  BY DEF CacheInv, CachedGood, GoodList, FirstRoleAtOnce
<1>2. QED
  BY <1>1, CacheInvCorrect, PTL

-----------------------------------------------------------------------------
(* A fresh list stays fresh: the safety half of GrantsTakeEffect *)

\* p is stored for s, its cached list has it, and no check is about to write a
\* list without it.
Fresh(s, p) ==
    /\ p \in StoredPerms(s)
    /\ \A list \in cache[CacheKey(s)] : p \in list
    /\ \A c \in Checks : check[c].at = "set" /\ check[c].who = s => p \in check[c].list

FreshStays ==
    "truncated" \notin Faults =>
        \A s \in Subjects, p \in Perms : Fresh(s, p) => Fresh(s, p)'

\* What a step may do to the lists of one subject: a list that it caches was in
\* the hands of a check, and one that a check takes in hand is complete.
LEMMA NewLists ==
  ASSUME CacheInv, [CacheNext]_cacheVars, "truncated" \notin Faults, NEW s \in Subjects
  PROVE  /\ StoredPerms(s) \subseteq StoredPerms(s)'
         /\ \A l \in cache'[CacheKey(s)] :
              \/ l \in cache[CacheKey(s)]
              \/ \E c \in Checks : check[c].at = "set" /\ check[c].who = s /\ check[c].list = l
         /\ \A c \in Checks : check'[c].at = "set" /\ check'[c].who = s =>
              \/ check[c].at = "set" /\ check[c].who = s /\ check'[c].list = check[c].list
              \/ check'[c].list = StoredPerms(s)
<1> DEFINE Grows == StoredPerms(s) \subseteq StoredPerms(s)'
           Caches == \A l \in cache'[CacheKey(s)] :
              \/ l \in cache[CacheKey(s)]
              \/ \E c \in Checks : check[c].at = "set" /\ check[c].who = s /\ check[c].list = l
           Holds == \A c \in Checks : check'[c].at = "set" /\ check'[c].who = s =>
              \/ check[c].at = "set" /\ check[c].who = s /\ check'[c].list = check[c].list
              \/ check'[c].list = StoredPerms(s)
<1>0. CacheTypeOK
  BY DEF CacheInv
<1>1. assigned \subseteq assigned' => Grows
  BY DEF StoredPerms
<1>2. (\A k \in CacheKeys : cache'[k] \subseteq cache[k]) => Caches
  BY DEF CacheKeys
<1>3. check' = check => Holds
  OBVIOUS
<1>4. ASSUME NEW c \in Checks, check'[c].at # "set",
             \A d \in Checks \ {c} : check'[d] = check[d]
      PROVE  Holds
  BY <1>4
<1>5. ASSUME NEW c \in Checks, NEW t, NEW want, NEW list, Answer(c, t, want, list)
      PROVE  Holds
  <2>1. check'[c] = Idle /\ \A d \in Checks \ {c} : check'[d] = check[d]
    BY <1>0, <1>5 DEF Answer, CacheTypeOK
  <2>2. QED
    BY <1>4, <2>1 DEF Idle
<1>6. ASSUME NEW c \in Checks, CheckStep(c)
      PROVE  Grows /\ Caches /\ Holds
  <2>1. Grows
    BY <1>1, <1>6
       DEF CheckStep, Hit, Miss, Query, QueryFails, Fill, FillReplyLost, CheckDies
  <2>2. CASE Query(c)
    <3>1. Caches
      BY <2>2 DEF Query
    <3>2. Fetched(c, StoredPerms(check[c].who))
      BY <2>2 DEF Query
    <3>3. CASE Answer(c, check[c].who, check[c].want, StoredPerms(check[c].who))
      BY <1>5, <2>1, <3>1, <3>3
    <3>4. CASE check' = [check EXCEPT ![c] =
                           [at |-> "set", who |-> check[c].who, want |-> check[c].want,
                            list |-> StoredPerms(check[c].who)]]
      <4>1. /\ check'[c].who = check[c].who
            /\ check'[c].list = StoredPerms(check[c].who)
            /\ \A d \in Checks \ {c} : check'[d] = check[d]
        BY <1>0, <3>4 DEF CacheTypeOK
      <4>2. Holds
        BY <4>1
      <4>3. QED
        BY <2>1, <3>1, <4>2
    <3>5. QED
      BY <3>2, <3>3, <3>4 DEF Fetched
  <2>3. CASE Fill(c) \/ FillReplyLost(c)
    <3>1. Holds
      BY <1>3, <1>5, <2>3 DEF Fill, FillReplyLost
    <3>2. check[c].at = "set" /\ check[c].who \in Subjects
      BY <1>0, <2>3, CheckType DEF Fill, FillReplyLost
    <3>3. CASE cache' = cache
      BY <2>1, <3>1, <3>3
    <3>4. CASE cache' = [cache EXCEPT ![CacheKey(check[c].who)] = {check[c].list}]
      <4>1. cache'[CacheKey(s)] =
              IF s = check[c].who THEN {check[c].list} ELSE cache[CacheKey(s)]
        BY <1>0, <3>2, <3>4 DEF CacheTypeOK, CacheKeys, CacheKey
      <4>2. Caches
        BY <3>2, <4>1
      <4>3. QED
        BY <2>1, <3>1, <4>2
    <3>5. QED
      BY <2>3, <3>3, <3>4 DEF Fill, FillReplyLost
  <2>4. ASSUME NEW t \in Subjects, NEW want \in Wants, Hit(c, t, want)
        PROVE  Caches /\ Holds
    BY <1>5, <2>4 DEF Hit
  <2>5. ASSUME NEW t \in Subjects, NEW want \in Wants, Miss(c, t, want)
        PROVE  Caches /\ Holds
    <3>1. check'[c].at = "query" /\ \A d \in Checks \ {c} : check'[d] = check[d]
      BY <1>0, <2>5 DEF Miss, CacheTypeOK
    <3>2. QED
      BY <1>4, <2>5, <3>1 DEF Miss
  <2>6. CASE QueryFails(c) \/ CheckDies(c)
    <3>1. check'[c].at = "idle" /\ \A d \in Checks \ {c} : check'[d] = check[d]
      BY <1>0, <2>6 DEF QueryFails, CheckDies, CacheTypeOK, Idle
    <3>2. QED
      BY <1>4, <2>1, <2>6, <3>1 DEF QueryFails, CheckDies
  <2>7. QED
    BY <1>6, <2>1, <2>2, <2>3, <2>4, <2>5, <2>6 DEF CheckStep
<1>7. ASSUME NEW a \in Assigners, AssignStep(a)
      PROVE  Grows /\ Caches /\ Holds
  <2>1. assigned \subseteq assigned' /\ check' = check
    BY <1>7
       DEF AssignStep, Assign, AssignFails, Commit, Invalidate, InvalidateReplyLost,
           Announce, AssignerDies
  <2>2. CASE cache' = cache
    BY <1>1, <1>3, <2>1, <2>2
  <2>3. CASE cache' = [cache EXCEPT ![CacheKey(assigner[a].who)] = {}]
    <3>1. \A k \in CacheKeys : cache'[k] \subseteq cache[k]
      BY <1>0, <2>3 DEF CacheTypeOK
    <3>2. QED
      BY <1>1, <1>2, <1>3, <2>1, <3>1
  <2>4. QED
    BY <1>7, <2>2, <2>3
       DEF AssignStep, Assign, AssignFails, Invalidate, InvalidateReplyLost,
           Announce, AssignerDies
<1>8. ASSUME NEW k \in CacheKeys, Evict(k)
      PROVE  Grows /\ Caches /\ Holds
  <2>1. \A j \in CacheKeys : cache'[j] \subseteq cache[j]
    BY <1>0, <1>8 DEF Evict, CacheTypeOK
  <2>2. QED
    BY <1>1, <1>2, <1>3, <1>8, <2>1 DEF Evict
<1>9. CASE UNCHANGED cacheVars
  BY <1>1, <1>2, <1>3, <1>9 DEF cacheVars
<1>10. QED
  BY <1>6, <1>7, <1>8, <1>9 DEF CacheNext

LEMMA FreshStep ==
  ASSUME CacheInv, [CacheNext]_cacheVars
  PROVE  FreshStays
<1> SUFFICES ASSUME "truncated" \notin Faults, NEW s \in Subjects, NEW p \in Perms, Fresh(s, p)
             PROVE  Fresh(s, p)'
  BY DEF FreshStays
<1>1. p \in StoredPerms(s)'
  BY NewLists DEF Fresh
<1>2. \A list \in cache'[CacheKey(s)] : p \in list
  BY NewLists DEF Fresh
<1>3. \A c \in Checks : check'[c].at = "set" /\ check'[c].who = s => p \in check'[c].list
  BY NewLists DEF Fresh
<1>4. QED
  BY <1>1, <1>2, <1>3 DEF Fresh, CacheKey

\* Once a committed permission is in the cached list of its user and in the
\* lists that checks are about to cache, no interleaving of checks, assignments,
\* failures and expiries makes GetUserPermissions serve a list without it again
\* (reads being complete).  What GrantsTakeEffect adds, that this point is
\* reached, is liveness.
THEOREM FreshForGood == CacheSafeSpec => [][FreshStays]_cacheVars
<1>1. CacheInv /\ [CacheNext]_cacheVars => [FreshStays]_cacheVars
  BY FreshStep
<1>2. QED
  BY <1>1, CacheInvCorrect, PTL DEF CacheSafeSpec
=============================================================================
