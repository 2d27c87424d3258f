--------------------------- MODULE RateLimitProofs ---------------------------
(***************************************************************************)
(* Proofs about the rate limiter, for any capacity, window and lag of the  *)
(* callers' clocks: over any stretch of requests a key gets a full bucket  *)
(* and what it earned meanwhile, and Retry-After is honoured.              *)
(***************************************************************************)
EXTENDS RateLimit, FiniteSetTheorems, TLAPS

-----------------------------------------------------------------------------
(* The inductive invariant *)

Request == [at : Nat, rewound : Nat, free : BOOLEAN]

Bucket == [present : {TRUE}, tokens : 0 .. Requests, last : Nat, expires : Nat]

Denial == [denied : {TRUE}, until : Nat]

\* Types that every step relies on.
Shapes ==
    /\ policy \in FailurePolicy
    /\ clock \in 0 .. MaxTime /\ seen \in 0 .. clock /\ rewound \in Nat
    /\ bucket \in {Absent} \cup Bucket
    /\ served \in Seq(Request)
    /\ denial \in {NoDenial} \cup Denial

\* A bucket that is there was written by the last script call; one that is gone
\* has been left alone for two windows, or there was no call.
BucketKept ==
    IF bucket.present
    THEN /\ bucket.last = seen
         /\ bucket.expires \in (clock + 1) .. (clock + 2 * Window)
         /\ bucket.expires >= seen + 2 * Window
    ELSE \/ \A k \in DOMAIN served : served[k].free
         \/ clock >= seen + 2 * Window

\* The time on which the bucket earned since request k.
Since(k) == seen - served[k].at + rewound - served[k].rewound

\* The requests of s let through on a token, from i on and from i to j.
OnToken(s, i) == {k \in DOMAIN s : ~s[k].free /\ i <= k}
Between(s, i, j) == {k \in OnToken(s, i) : k <= j}

Left == IF bucket.present THEN bucket.tokens ELSE 0

\* No request is later than the last call.  What a key got since one of its
\* requests and what is left in the bucket are at most a full bucket and what
\* was earned.
Earned ==
    /\ \A k \in DOMAIN served : served[k].at <= clock
    /\ \A k \in DOMAIN served : ~served[k].free =>
          /\ Since(k) >= 0
          /\ Cardinality(OnToken(served, k)) + Left <= Requests + Refill(Since(k))

\* The same between two requests on a token, whatever came later.
EarnedBetween ==
    \A i, j \in DOMAIN served : ~served[i].free /\ ~served[j].free /\ i <= j =>
        LET time == served[j].at - served[i].at + served[j].rewound - served[i].rewound
        IN  Cardinality(Between(served, i, j)) <= Requests + Refill(time)

\* A route that fails closed serves nothing for free.
ClosedPays == policy = "FailClosed" => \A k \in DOMAIN served : ~served[k].free

\* A client is told to come back later than its own request, at a time when there
\* is a token.
DenialKept ==
    denial.denied => /\ bucket.present => denial.until > seen
                     /\ RetryAfterHonoured

IInv == Shapes /\ BucketKept /\ Earned /\ EarnedBetween /\ ClosedPays /\ DenialKept

-----------------------------------------------------------------------------
(* What a bucket earns *)

\* Refill rounds down: time earns no less in one piece than in two.
LEMMA RefillAdds ==
    ASSUME NEW a \in Nat, NEW b \in Nat
    PROVE  /\ Refill(a) \in Nat
           /\ Refill(a) + Refill(b) <= Refill(a + b)
<1> DEFINE x == a * Requests
           y == b * Requests
           z == (a + b) * Requests
<1>1. Requests \in Nat /\ Window \in Nat \ {0}
  BY RateLimitAssumption
<1>2. x \in Nat /\ y \in Nat /\ z = x + y
  BY <1>1
<1> HIDE DEF x, y, z
<1>3. x \div Window \in Nat /\ (x \div Window) + (y \div Window) <= (x + y) \div Window
  <2>1. \A n \in Nat : /\ n \div Window \in Nat
                       /\ (n \div Window) * Window <= n
                       /\ n < (n \div Window) * Window + Window
    BY <1>1
  <2>2. PICK p, q, r \in Nat : p = x \div Window /\ q = y \div Window /\ r = (x + y) \div Window
    BY <1>2, <2>1
  <2>3. p * Window <= x /\ q * Window <= y /\ x + y < r * Window + Window
    BY <1>2, <2>1, <2>2
  <2>4. (p + q) * Window < (r + 1) * Window
    BY <1>1, <1>2, <2>3
  <2>5. p + q < r + 1
    BY <1>1, <2>4
  <2> QED
    BY <2>2, <2>5
<1> QED
  BY <1>2, <1>3 DEF Refill, x, y, z

\* A window fills the bucket.
LEMMA RefillFull ==
    ASSUME NEW a \in Nat, a >= Window
    PROVE  Refill(a) >= Requests
<1>1. Requests \in Nat /\ Window \in Nat \ {0}
  BY RateLimitAssumption
<1>2. Refill(Window) = Requests
  BY <1>1 DEF Refill
<1>3. a - Window \in Nat /\ a = Window + (a - Window)
  BY <1>1
<1>4. Refill(Window) + Refill(a - Window) <= Refill(a) /\ Refill(a - Window) \in Nat
       /\ Refill(a) \in Nat
  BY <1>1, <1>3, RefillAdds
<1> QED
  BY <1>1, <1>2, <1>4

\* A time that has earned nothing is shorter than a window, and what is left of
\* the window earns a token if the bucket has room for two.
LEMMA RefillRest ==
    ASSUME NEW e \in Nat, Refill(e) = 0
    PROVE  e < Window /\ (Requests > 1 => Refill(Window - e) > 0)
<1>1. Requests \in Nat \ {0} /\ Window \in Nat \ {0}
  BY RateLimitAssumption
<1>2. e * Requests \in Nat /\ e * Requests < Window
  BY <1>1 DEF Refill
<1>3. e < Window
  BY <1>1, <1>2
<1>4. ASSUME Requests > 1 PROVE Refill(Window - e) > 0
  <2>1. (Window - e) * Requests = Window * Requests - e * Requests
    BY <1>1, <1>3
  <2>2. Window * Requests >= 2 * Window
    BY <1>1, <1>4
  <2>3. (Window - e) * Requests >= Window /\ (Window - e) * Requests \in Nat
    BY <1>1, <1>2, <2>1, <2>2
  <2>4. \A n \in Nat : n >= Window => n \div Window > 0
    BY <1>1
  <2> QED
    BY <2>3, <2>4 DEF Refill
<1> QED
  BY <1>3, <1>4

-----------------------------------------------------------------------------
(* The script *)

\* The requests on a token are finitely many.
LEMMA OnTokenFinite ==
    ASSUME served \in Seq(Request), NEW k
    PROVE  IsFiniteSet(OnToken(served, k)) /\ Cardinality(OnToken(served, k)) \in Nat
<1>1. Len(served) \in Nat /\ DOMAIN served = 1 .. Len(served)
  OBVIOUS
<1>2. IsFiniteSet(1 .. Len(served))
  BY <1>1, FS_Interval
<1>3. OnToken(served, k) \subseteq 1 .. Len(served)
  BY <1>1 DEF OnToken
<1> QED
  BY <1>2, <1>3, FS_Subset, FS_CardinalityType

\* A bucket that is there has its fields.
LEMMA BucketFields ==
    ASSUME NEW b, b \in {Absent} \cup Bucket, b.present
    PROVE  b \in Bucket /\ b.tokens \in 0 .. Requests /\ b.last \in Nat /\ b.expires \in Nat
<1>1. CASE b = Absent
  <2>1. b.present = FALSE
    BY <1>1 DEF Absent
  <2> QED
    BY <2>1
<1>2. CASE b \in Bucket
  BY <1>2 DEF Bucket
<1> QED
  BY <1>1, <1>2

\* A call finds at most a full bucket and leaves one token less, if there was one.
LEMMA ScriptStores ==
    ASSUME Shapes, BucketKept, NEW now \in 0 .. MaxTime, RunScript(now)
    PROVE  /\ Tokens(bucket, now) \in 0 .. Requests
           /\ bucket' \in Bucket /\ bucket'.last = now /\ bucket'.expires = clock + 2 * Window
           /\ bucket'.present
           /\ bucket'.tokens = IF Tokens(bucket, now) > 0 THEN Tokens(bucket, now) - 1 ELSE 0
           /\ seen' = now /\ now \in 0 .. clock /\ now >= clock - MaxLag
           /\ rewound' = rewound + Elapsed(now, seen) /\ rewound' \in Nat
<1>0. /\ Requests \in Nat \ {0} /\ Window \in Nat \ {0}
      /\ MaxLag \in 0 .. Window /\ MaxTime \in Nat
  BY RateLimitAssumption
<1>1. /\ clock \in Nat /\ seen \in Nat /\ rewound \in Nat /\ now \in Nat
      /\ bucket \in {Absent} \cup Bucket
  BY <1>0 DEF Shapes
<1>2. now \in 0 .. clock /\ now >= clock - MaxLag /\ seen' = now
  BY <1>0, <1>1 DEF RunScript
<1>3. rewound' = rewound + Elapsed(now, seen) /\ rewound' \in Nat
  BY <1>1 DEF RunScript, Elapsed
<1>4. Tokens(bucket, now) \in 0 .. Requests
  <2>1. CASE ~bucket.present
    BY <1>0, <2>1 DEF Tokens
  <2>2. CASE bucket.present
    <3>1. bucket.tokens \in Nat /\ bucket.last \in Nat
      BY <1>0, <1>1, <2>2, BucketFields
    <3>2. Elapsed(bucket.last, now) \in Nat
      BY <1>1, <3>1 DEF Elapsed
    <3>3. Refill(Elapsed(bucket.last, now)) \in Nat
      BY <3>2, RefillAdds
    <3> QED
      BY <1>0, <2>2, <3>1, <3>3 DEF Tokens
  <2> QED
    BY <2>1, <2>2
<1>5. bucket' = [present |-> TRUE,
                 tokens |-> IF Tokens(bucket, now) > 0 THEN Tokens(bucket, now) - 1 ELSE 0,
                 last |-> now, expires |-> clock + 2 * Window]
  BY DEF RunScript, Stored
<1>6. clock + 2 * Window \in Nat
  BY <1>0, <1>1
<1>7. bucket' \in Bucket
  <2> DEFINE t == Tokens(bucket, now)
  <2>1. t \in 0 .. Requests
    BY <1>4
  <2> HIDE DEF t
  <2>2. (IF t > 0 THEN t - 1 ELSE 0) \in 0 .. Requests
    BY <1>0, <2>1
  <2> QED
    BY <1>1, <1>5, <1>6, <2>2 DEF Bucket, t
<1> QED
  BY <1>2, <1>3, <1>4, <1>5, <1>7

\* What a key got and what a call finds in the bucket has been earned, also when
\* the bucket had expired: then nobody called for a window.
LEMMA ScriptEarns ==
    ASSUME Shapes, BucketKept, Earned, NEW now \in 0 .. MaxTime, RunScript(now),
           NEW k \in DOMAIN served, ~served[k].free,
           NEW t, t = now - served[k].at + rewound' - served[k].rewound
    PROVE  /\ t \in Nat
           /\ Cardinality(OnToken(served, k)) + Tokens(bucket, now) <= Requests + Refill(t)
<1> DEFINE n == Cardinality(OnToken(served, k))
           s == Since(k)
           e == Elapsed(seen, now)
<1>0. /\ Requests \in Nat \ {0} /\ Window \in Nat \ {0}
      /\ MaxLag \in 0 .. Window /\ MaxTime \in Nat
  BY RateLimitAssumption
<1>1. /\ clock \in Nat /\ seen \in Nat /\ rewound \in Nat /\ now \in Nat
      /\ bucket \in {Absent} \cup Bucket /\ served \in Seq(Request)
  BY <1>0 DEF Shapes
<1>2. served[k].at \in Nat /\ served[k].rewound \in Nat
  <2>1. served[k] \in Request
    BY <1>1
  <2> QED
    BY <2>1 DEF Request
<1>3. n \in Nat
  BY <1>1, OnTokenFinite
<1>4. s \in Nat /\ n + Left <= Requests + Refill(s)
  BY <1>1, <1>2, SMTT(60) DEF Earned, Since
<1>5. e \in Nat
  BY <1>1 DEF Elapsed
<1>6. t = s + e
  <2>1. rewound' = rewound + Elapsed(now, seen)
    BY ScriptStores
  <2> QED
    BY <1>1, <1>2, <2>1, SMTT(60) DEF Since, Elapsed
<1>7. /\ Refill(s) \in Nat /\ Refill(e) \in Nat /\ Refill(t) \in Nat
      /\ Refill(s) + Refill(e) <= Refill(t)
  BY <1>4, <1>5, <1>6, RefillAdds
<1>8. Tokens(bucket, now) \in 0 .. Requests
  BY ScriptStores
<1>9. Tokens(bucket, now) <= Left + Refill(e)
  <2>1. CASE bucket.present
    <3>1. bucket.last = seen /\ bucket.tokens \in 0 .. Requests
      BY <1>1, <2>1, BucketFields DEF BucketKept
    <3> QED
      BY <1>0, <1>7, <2>1, <3>1 DEF Tokens, Left
  <2>2. CASE ~bucket.present
    <3>1. clock >= seen + 2 * Window
      BY <2>2 DEF BucketKept
    <3>2. now >= clock - MaxLag
      BY ScriptStores
    <3>3. e >= Window
      BY <1>0, <1>1, <3>1, <3>2 DEF Elapsed
    <3>4. Refill(e) >= Requests
      BY <1>5, <3>3, RefillFull
    <3> QED
      BY <1>0, <1>7, <1>8, <2>2, <3>4 DEF Left
  <2> QED
    BY <2>1, <2>2
<1>10. Left \in Nat
  BY <1>0, <1>1, BucketFields DEF Left
<1> HIDE DEF n, s, e
<1>11. n + Tokens(bucket, now) <= Requests + Refill(t)
  BY <1>0, <1>3, <1>4, <1>7, <1>8, <1>9, <1>10
<1> QED
  BY <1>4, <1>5, <1>6, <1>11 DEF n

-----------------------------------------------------------------------------
(* Requests that are served *)

\* u is s with the request r as its n-th and last: the sets of earlier requests
\* change only at the end.
OneMore(s, r, n, u) ==
    /\ u \in Seq(Request) /\ DOMAIN u = DOMAIN s \cup {n}
    /\ n \in Nat /\ n \notin DOMAIN s
    /\ u[n] = r
    /\ \A k \in DOMAIN s : u[k] = s[k] /\ k < n
    /\ r.free => \A k \in DOMAIN s : OnToken(u, k) = OnToken(s, k)
    /\ ~r.free => /\ \A k \in DOMAIN s : OnToken(u, k) = OnToken(s, k) \cup {n}
                  /\ OnToken(u, n) = {n}
    /\ \A i, j \in DOMAIN s : Between(u, i, j) = Between(s, i, j)
    /\ \A i \in DOMAIN s \cup {n} : Between(u, i, n) = OnToken(u, i)

\* Append adds one more request.
LEMMA OneMoreServed ==
    ASSUME NEW s \in Seq(Request), NEW r \in Request, NEW n, n = Len(s) + 1,
           NEW u, u = Append(s, r)
    PROVE  OneMore(s, r, n, u)
<1>1. /\ Len(s) \in Nat /\ n \in Nat /\ DOMAIN s = 1 .. Len(s) /\ DOMAIN u = 1 .. n
      /\ u \in Seq(Request)
  OBVIOUS
<1>2. DOMAIN u = DOMAIN s \cup {n} /\ n \notin DOMAIN s
  BY <1>1
<1>3. u[n] = r /\ \A k \in DOMAIN s : u[k] = s[k] /\ k < n /\ k \in Nat
  BY <1>1
<1>4. /\ r.free => \A k \in DOMAIN s : OnToken(u, k) = OnToken(s, k)
      /\ ~r.free => \A k \in DOMAIN s : OnToken(u, k) = OnToken(s, k) \cup {n}
  BY <1>1, <1>2, <1>3 DEF OnToken
<1>5. ~r.free => OnToken(u, n) = {n}
  BY <1>1, <1>2, <1>3 DEF OnToken
<1>6. \A i, j \in DOMAIN s : Between(u, i, j) = Between(s, i, j)
  BY <1>1, <1>2, <1>3 DEF OnToken, Between
<1>7. \A i \in DOMAIN s \cup {n} : Between(u, i, n) = OnToken(u, i)
  BY <1>1, <1>2, <1>3 DEF OnToken, Between
<1> QED
  BY <1>1, <1>2, <1>3, <1>4, <1>5, <1>6, <1>7 DEF OneMore

\* A request that is let through for free is not counted.
LEMMA ServedFree ==
    ASSUME IInv, NEW now \in 0 .. clock, seen' \in Nat, rewound' \in Nat,
           served' = Append(served, [at |-> now, rewound |-> rewound', free |-> TRUE]),
           clock' = clock,
           \A k \in DOMAIN served : ~served[k].free =>
               LET t == seen' - served[k].at + rewound' - served[k].rewound
               IN  t >= 0 /\ Cardinality(OnToken(served, k)) + Left' <= Requests + Refill(t)
    PROVE  (Earned /\ EarnedBetween)' /\ served' \in Seq(Request)
<1> DEFINE r == [at |-> now, rewound |-> rewound', free |-> TRUE]
           n == Len(served) + 1
<1>1. r \in Request /\ r.free /\ r.at = now /\ served \in Seq(Request) /\ clock \in Nat
  BY DEF Request, IInv, Shapes
<1>2. OneMore(served, r, n, served')
  <2> HIDE DEF r, n
  <2>1. served' = Append(served, r)
    BY DEF r
  <2>2. n = Len(served) + 1
    BY DEF n
  <2> QED
    BY <1>1, <2>1, <2>2, OneMoreServed
<1> HIDE DEF r, n
<1>3. Earned'
  <2>1. \A k \in DOMAIN served' : ~served'[k].free =>
            k \in DOMAIN served /\ ~served[k].free /\ served'[k] = served[k]
                /\ OnToken(served', k) = OnToken(served, k)
    BY <1>1, <1>2 DEF OneMore
  <2>2. \A k \in DOMAIN served' : served'[k].at <= clock'
    BY <1>1, <1>2 DEF OneMore, Earned, IInv
  <2> QED
    BY <2>1, <2>2 DEF Earned, Since
<1>4. EarnedBetween'
  <2>1. \A k \in DOMAIN served' : ~served'[k].free =>
            k \in DOMAIN served /\ ~served[k].free /\ served'[k] = served[k]
    BY <1>1, <1>2 DEF OneMore
  <2>2. \A i, j \in DOMAIN served : Between(served', i, j) = Between(served, i, j)
    BY <1>2 DEF OneMore
  <2>3. EarnedBetween
    BY DEF IInv
  <2>4. ASSUME NEW i \in DOMAIN served', NEW j \in DOMAIN served',
               ~served'[i].free, ~served'[j].free, i <= j
        PROVE  Cardinality(Between(served', i, j)) <=
                  Requests + Refill(served'[j].at - served'[i].at
                                    + served'[j].rewound - served'[i].rewound)
    <3>1. i \in DOMAIN served /\ j \in DOMAIN served /\ ~served[i].free /\ ~served[j].free
          /\ served'[i] = served[i] /\ served'[j] = served[j]
      BY <2>1, <2>4
    <3> QED
      BY <2>2, <2>3, <2>4, <3>1 DEF EarnedBetween
  <2> QED
    BY <2>4 DEF EarnedBetween
<1> QED
  BY <1>2, <1>3, <1>4 DEF OneMore

\* A request on a token is paid for by the token it takes.
LEMMA ServedOnToken ==
    ASSUME IInv, NEW now \in 0 .. MaxTime, RunScript(now), Tokens(bucket, now) > 0,
           served' = Append(served, [at |-> now, rewound |-> rewound', free |-> FALSE]),
           clock' = clock
    PROVE  (Earned /\ EarnedBetween)' /\ served' \in Seq(Request)
<1> DEFINE r == [at |-> now, rewound |-> rewound', free |-> FALSE]
           n == Len(served) + 1
           time(k) == now - served[k].at + rewound' - served[k].rewound
<1>0. Requests \in Nat \ {0} /\ Window \in Nat \ {0} /\ MaxTime \in Nat
  BY RateLimitAssumption
<1>1. /\ Tokens(bucket, now) \in 1 .. Requests /\ bucket'.tokens = Tokens(bucket, now) - 1
      /\ bucket'.present /\ seen' = now /\ rewound' \in Nat /\ now \in 0 .. clock
  BY <1>0, ScriptStores DEF IInv
<1>2. /\ r \in Request /\ r.free = FALSE /\ r.at = now /\ r.rewound = rewound'
      /\ served \in Seq(Request) /\ clock \in Nat
  BY <1>0, <1>1 DEF Request, IInv, Shapes
<1>3. OneMore(served, r, n, served')
  <2> HIDE DEF r, n
  <2>1. served' = Append(served, r)
    BY DEF r
  <2>2. n = Len(served) + 1
    BY DEF n
  <2> QED
    BY <1>2, <2>1, <2>2, OneMoreServed
<1> HIDE DEF r, n, time
<1>4. /\ DOMAIN served' = DOMAIN served \cup {n} /\ n \notin DOMAIN served /\ served'[n] = r
      /\ n \in Nat
      /\ \A k \in DOMAIN served : served'[k] = served[k] /\ k < n /\ k \in Nat
  BY <1>2, <1>3 DEF OneMore
<1>5. /\ \A k \in DOMAIN served : OnToken(served', k) = OnToken(served, k) \cup {n}
      /\ OnToken(served', n) = {n}
      /\ \A i, j \in DOMAIN served : Between(served', i, j) = Between(served, i, j)
      /\ \A i \in DOMAIN served' : Between(served', i, n) = OnToken(served', i)
  BY <1>2, <1>3 DEF OneMore
<1>6. \A k \in DOMAIN served : ~served[k].free =>
          /\ time(k) \in Nat
          /\ Cardinality(OnToken(served, k)) + Tokens(bucket, now) <= Requests + Refill(time(k))
  BY ScriptEarns DEF IInv, time
<1>7. ASSUME NEW k \in DOMAIN served
      PROVE  /\ Cardinality(OnToken(served, k)) \in Nat
             /\ Cardinality(OnToken(served', k)) = Cardinality(OnToken(served, k)) + 1
  <2> DEFINE S == OnToken(served, k)
  <2>1. IsFiniteSet(S) /\ Cardinality(S) \in Nat
    BY <1>2, OnTokenFinite
  <2>2. n \notin S
    BY <1>4 DEF OnToken
  <2>3. OnToken(served', k) = S \cup {n}
    BY <1>5
  <2> HIDE DEF S
  <2>4. Cardinality(S \cup {n}) = Cardinality(S) + 1
    BY <2>1, <2>2, FS_AddElement
  <2> QED
    BY <2>1, <2>3, <2>4 DEF S
<1>8. Cardinality(OnToken(served', n)) = 1
  BY <1>5, FS_Singleton
<1>9. Left' = Tokens(bucket, now) - 1 /\ Left' \in Nat
  BY <1>0, <1>1 DEF Left
<1>10. Refill(0) = 0
  BY <1>0 DEF Refill
<1> DEFINE after(k) == now - served'[k].at + rewound' - served'[k].rewound
<1>11. ASSUME NEW k \in DOMAIN served', ~served'[k].free
       PROVE  /\ after(k) \in Nat
              /\ Cardinality(OnToken(served', k)) \in Nat
              /\ Cardinality(OnToken(served', k)) + Left' <= Requests + Refill(after(k))
  <2>1. CASE k \in DOMAIN served
    <3>1. after(k) = time(k) /\ ~served[k].free
      BY <1>4, <1>11, <2>1 DEF time
    <3>2. time(k) \in Nat /\ Refill(time(k)) \in Nat
      BY <1>6, <2>1, <3>1, RefillAdds
    <3>3. Cardinality(OnToken(served, k)) + Tokens(bucket, now) <= Requests + Refill(time(k))
      BY <1>6, <2>1, <3>1
    <3>4. /\ Cardinality(OnToken(served, k)) \in Nat
          /\ Cardinality(OnToken(served', k)) = Cardinality(OnToken(served, k)) + 1
      BY <1>7, <2>1
    <3> HIDE DEF after
    <3>5. Refill(after(k)) = Refill(time(k)) /\ after(k) \in Nat
      BY <3>1, <3>2
    <3> QED
      BY <1>0, <1>1, <1>9, <3>2, <3>3, <3>4, <3>5, SMTT(60)
  <2>2. CASE k = n
    <3>1. after(k) = 0
      <4>1. served'[k].at = now /\ served'[k].rewound = rewound'
        BY <1>2, <1>4, <2>2
      <4>2. now \in Int /\ rewound' \in Int
        BY <1>1
      <4> QED
        BY <4>1, <4>2
    <3> HIDE DEF after
    <3>2. Refill(after(k)) = 0
      BY <1>10, <3>1
    <3>3. Cardinality(OnToken(served', k)) = 1
      BY <1>8, <2>2
    <3> QED
      BY <1>0, <1>1, <1>9, <3>1, <3>2, <3>3
  <2> QED
    BY <1>4, <2>1, <2>2
<1>12. Earned'
  <2>1. ASSUME NEW k \in DOMAIN served' PROVE served'[k].at <= clock'
    BY <1>1, <1>2, <1>4 DEF Earned, IInv
  <2>2. ASSUME NEW k \in DOMAIN served', ~served'[k].free
        PROVE  /\ Since(k)' >= 0
               /\ Cardinality(OnToken(served', k)) + Left' <= Requests + Refill(Since(k)')
    <3>1. Since(k)' = after(k)
      BY <1>1 DEF Since
    <3>2. /\ after(k) \in Nat
          /\ Cardinality(OnToken(served', k)) + Left' <= Requests + Refill(after(k))
      BY <1>11, <2>2
    <3> HIDE DEF after
    <3>3. Refill(Since(k)') = Refill(after(k))
      BY <3>1
    <3> QED
      BY <3>1, <3>2, <3>3
  <2> QED
    BY <2>1, <2>2 DEF Earned, Refill
<1>13. EarnedBetween'
  <2>1. ASSUME NEW i \in DOMAIN served', NEW j \in DOMAIN served',
               ~served'[i].free, ~served'[j].free, i <= j
        PROVE  Cardinality(Between(served', i, j)) <=
                  Requests + Refill(served'[j].at - served'[i].at
                                    + served'[j].rewound - served'[i].rewound)
    <3>1. CASE j = n
      <4>1. /\ Cardinality(OnToken(served', i)) + Left' <= Requests + Refill(after(i))
            /\ after(i) \in Nat /\ Cardinality(OnToken(served', i)) \in Nat
        BY <1>11, <2>1
      <4>2. after(i) = served'[j].at - served'[i].at + served'[j].rewound - served'[i].rewound
        BY <1>2, <1>4, <3>1
      <4> HIDE DEF after
      <4>3. Refill(after(i)) \in Nat
        BY <4>1, RefillAdds
      <4>4. Cardinality(OnToken(served', i)) <= Requests + Refill(after(i))
        BY <1>0, <1>9, <4>1, <4>3
      <4>5. Between(served', i, j) = OnToken(served', i)
        BY <1>5, <3>1
      <4> QED
        BY <4>2, <4>4, <4>5
    <3>2. CASE i = n /\ j # n
      BY <1>4, <2>1, <3>2
    <3>3. CASE i # n /\ j # n
      <4>1. i \in DOMAIN served /\ j \in DOMAIN served /\ ~served[i].free /\ ~served[j].free
            /\ served'[i] = served[i] /\ served'[j] = served[j]
        BY <1>4, <2>1, <3>3
      <4>2. EarnedBetween
        BY DEF IInv
      <4> QED
        BY <1>5, <2>1, <4>1, <4>2 DEF EarnedBetween
    <3> QED
      BY <3>1, <3>2, <3>3
  <2> QED
    BY <2>1 DEF EarnedBetween, Refill
<1> QED
  BY <1>3, <1>12, <1>13 DEF OneMore

\* A route that fails closed goes on serving on tokens only.
LEMMA ClosedStays ==
    ASSUME IInv, policy' = policy, NEW now \in Nat, rewound' \in Nat,
           \/ UNCHANGED served
           \/ Serve(now, TRUE) /\ policy = "FailOpen"
           \/ Serve(now, FALSE)
    PROVE  ClosedPays'
<1>1. CASE UNCHANGED served
  BY <1>1 DEF IInv, ClosedPays
<1>2. CASE policy = "FailOpen"
  BY <1>2 DEF ClosedPays
<1>3. CASE Serve(now, FALSE)
  <2> DEFINE r == [at |-> now, rewound |-> rewound', free |-> FALSE]
             n == Len(served) + 1
  <2>1. r \in Request /\ r.free = FALSE /\ served \in Seq(Request) /\ served' = Append(served, r)
    BY <1>3 DEF Request, IInv, Shapes, Serve
  <2> HIDE DEF r
  <2>2. OneMore(served, r, n, served')
    BY <2>1, OneMoreServed
  <2>3. \A k \in DOMAIN served' : (k \in DOMAIN served /\ served'[k] = served[k]) \/ served'[k] = r
    BY <2>2 DEF OneMore
  <2> QED
    BY <2>1, <2>3 DEF IInv, ClosedPays
<1> QED
  BY <1>1, <1>2, <1>3

\* One more request for free leaves all requests free, if they were.
LEMMA FreeStays ==
    ASSUME served \in Seq(Request), NEW now \in Nat, rewound' \in Nat, Serve(now, TRUE),
           \A k \in DOMAIN served : served[k].free
    PROVE  \A k \in DOMAIN served' : served'[k].free
<1> DEFINE r == [at |-> now, rewound |-> rewound', free |-> TRUE]
           n == Len(served) + 1
<1>1. r \in Request /\ r.free = TRUE /\ served' = Append(served, r)
  BY DEF Request, Serve
<1> HIDE DEF r
<1>2. OneMore(served, r, n, served')
  BY <1>1, OneMoreServed
<1>3. \A k \in DOMAIN served' : (k \in DOMAIN served /\ served'[k] = served[k]) \/ served'[k] = r
  BY <1>2 DEF OneMore
<1> QED
  BY <1>1, <1>3

-----------------------------------------------------------------------------
(* Every step keeps the invariant *)

\* At the start there is no bucket and no request.
LEMMA InitIInv == Init => IInv
<1> SUFFICES ASSUME Init PROVE IInv
  OBVIOUS
<1>0. MaxLag \in Nat /\ MaxTime \in Nat /\ MaxLag <= MaxTime
  BY RateLimitAssumption
<1>1. served \in Seq(Request) /\ DOMAIN served = {}
  BY DEF Init
<1>2. Shapes
  BY <1>0, <1>1 DEF Init, Shapes
<1>3. bucket.present = FALSE /\ denial.denied = FALSE
  BY DEF Init, Absent, NoDenial
<1> QED
  BY <1>1, <1>2, <1>3 DEF IInv, BucketKept, Earned, EarnedBetween, ClosedPays, DenialKept

\* The clock runs: a bucket that nobody used for two windows is gone.
LEMMA TickStep == IInv /\ Tick => IInv'
<1> SUFFICES ASSUME IInv, Tick PROVE IInv'
  OBVIOUS
<1>0. Window \in Nat \ {0} /\ MaxTime \in Nat /\ Requests \in Nat \ {0}
  BY RateLimitAssumption
<1>1. /\ clock \in 0 .. MaxTime /\ seen \in 0 .. clock /\ rewound \in Nat
      /\ bucket \in {Absent} \cup Bucket /\ served \in Seq(Request)
  BY DEF IInv, Shapes
<1>2. /\ clock' = clock + 1 /\ clock' \in 0 .. MaxTime
      /\ UNCHANGED <<policy, seen, rewound, served, denial>>
  BY <1>0, <1>1 DEF Tick
<1>3. Absent.present = FALSE
  BY DEF Absent
<1>4. \/ bucket' = bucket /\ ~Expired(bucket, clock')
      \/ bucket' = Absent /\ Expired(bucket, clock')
  BY DEF Tick
<1>5. Shapes'
  BY <1>0, <1>1, <1>2, <1>4 DEF IInv, Shapes
<1>6. BucketKept'
  <2>1. CASE ~bucket.present
    BY <1>0, <1>1, <1>2, <1>3, <1>4, <2>1 DEF IInv, BucketKept
  <2>2. CASE bucket.present
    <3>1. /\ bucket.last = seen /\ bucket.expires \in (clock + 1) .. (clock + 2 * Window)
          /\ bucket.expires >= seen + 2 * Window
      BY <2>2 DEF IInv, BucketKept
    <3>2. CASE bucket' = bucket /\ ~Expired(bucket, clock')
      <4>1. bucket.expires > clock'
        BY <1>0, <1>1, <1>2, <2>2, <3>1, <3>2 DEF Expired
      <4>2. bucket'.expires \in (clock' + 1) .. (clock' + 2 * Window)
        BY <1>0, <1>1, <1>2, <3>1, <3>2, <4>1
      <4> QED
        BY <1>2, <2>2, <3>1, <3>2, <4>2 DEF BucketKept
    <3>3. CASE bucket' = Absent /\ Expired(bucket, clock')
      <4>1. clock' >= seen' + 2 * Window
        BY <1>0, <1>1, <1>2, <3>1, <3>3 DEF Expired
      <4> QED
        BY <1>3, <3>3, <4>1 DEF BucketKept
    <3> QED
      BY <1>4, <3>2, <3>3
  <2> QED
    BY <2>1, <2>2
<1>7. Left' \in Nat /\ Left \in Nat /\ Left' <= Left
  <2>1. Left \in Nat
    BY <1>0, <1>1, BucketFields DEF Left
  <2>2. Left' = Left \/ Left' = 0
    BY <1>3, <1>4 DEF Left
  <2> QED
    BY <2>1, <2>2
<1>8. Earned'
  <2>1. ASSUME NEW k \in DOMAIN served' PROVE served'[k].at <= clock'
    <3>1. served[k] \in Request /\ served[k].at <= clock
      BY <1>1, <1>2 DEF IInv, Earned
    <3> QED
      BY <1>1, <1>2, <3>1 DEF Request
  <2>2. ASSUME NEW k \in DOMAIN served', ~served'[k].free
        PROVE  Since(k)' >= 0 /\ Cardinality(OnToken(served', k)) + Left' <= Requests + Refill(Since(k)')
    <3>1. Since(k)' = Since(k) /\ OnToken(served', k) = OnToken(served, k)
      BY <1>2 DEF Since
    <3>2. Since(k) >= 0 /\ Cardinality(OnToken(served, k)) + Left <= Requests + Refill(Since(k))
      BY <1>2, <2>2 DEF IInv, Earned
    <3>3. Since(k) \in Nat /\ Cardinality(OnToken(served, k)) \in Nat
      <4>1. served[k] \in Request
        BY <1>1, <1>2
      <4>2. Since(k) \in Int
        BY <1>1, <4>1 DEF Since, Request
      <4> QED
        BY <1>1, <3>2, <4>2, OnTokenFinite
    <3>4. Refill(Since(k)) \in Nat
      BY <3>3, RefillAdds
    <3>5. Refill(Since(k)') = Refill(Since(k))
      BY <3>1
    <3> QED
      BY <1>0, <1>7, <3>1, <3>2, <3>3, <3>4, <3>5
  <2> QED
    BY <2>1, <2>2 DEF Earned, Refill
<1>9. EarnedBetween' /\ ClosedPays'
  BY <1>2 DEF IInv, EarnedBetween, ClosedPays
<1>10. DenialKept'
  <2>1. CASE bucket' = bucket
    BY <1>2, <2>1 DEF IInv, DenialKept, RetryAfterHonoured, Tokens
  <2>2. CASE bucket' = Absent
    BY <1>0, <1>3, <2>2 DEF DenialKept, RetryAfterHonoured, Tokens
  <2> QED
    BY <1>4, <2>1, <2>2
<1> QED
  BY <1>5, <1>6, <1>8, <1>9, <1>10 DEF IInv

\* A script call keeps the bucket and the requests in balance, whether it serves a
\* request on its token, for free or not at all.
LEMMA CallStep ==
    ASSUME IInv, NEW now \in 0 .. MaxTime, RunScript(now), UNCHANGED <<policy, clock>>,
           \/ UNCHANGED served
           \/ Serve(now, TRUE) /\ policy = "FailOpen"
           \/ Serve(now, FALSE) /\ Tokens(bucket, now) > 0,
           denial' \in {NoDenial} \cup Denial, DenialKept'
    PROVE  IInv'
<1>0. Window \in Nat \ {0} /\ MaxTime \in Nat /\ MaxLag \in 0 .. Window /\ Requests \in Nat \ {0}
  BY RateLimitAssumption
<1>1. /\ clock \in 0 .. MaxTime /\ seen \in 0 .. clock /\ rewound \in Nat
      /\ bucket \in {Absent} \cup Bucket /\ served \in Seq(Request)
  BY DEF IInv, Shapes
<1>2. /\ Tokens(bucket, now) \in 0 .. Requests
      /\ bucket' \in Bucket /\ bucket'.last = now /\ bucket'.expires = clock + 2 * Window
      /\ bucket'.present
      /\ bucket'.tokens = IF Tokens(bucket, now) > 0 THEN Tokens(bucket, now) - 1 ELSE 0
      /\ seen' = now /\ now \in 0 .. clock /\ now >= clock - MaxLag
      /\ rewound' = rewound + Elapsed(now, seen) /\ rewound' \in Nat
  BY ScriptStores DEF IInv
<1>3. Left' \in Nat /\ Left' <= Tokens(bucket, now)
  BY <1>0, <1>2 DEF Left
<1>4. ASSUME NEW k \in DOMAIN served, ~served[k].free, NEW t,
             t = seen' - served[k].at + rewound' - served[k].rewound
      PROVE  t \in Nat /\ Cardinality(OnToken(served, k)) + Left' <= Requests + Refill(t)
  <2>1. /\ t \in Nat
        /\ Cardinality(OnToken(served, k)) + Tokens(bucket, now) <= Requests + Refill(t)
    BY <1>2, <1>4, ScriptEarns DEF IInv
  <2>2. Refill(t) \in Nat /\ Cardinality(OnToken(served, k)) \in Nat
    BY <1>1, <2>1, RefillAdds, OnTokenFinite
  <2> QED
    BY <1>0, <1>2, <1>3, <2>1, <2>2
<1>5. (Earned /\ EarnedBetween)' /\ served' \in Seq(Request)
  <2>1. CASE UNCHANGED served
    <3>1. Earned'
      <4>1. ASSUME NEW k \in DOMAIN served', ~served'[k].free
            PROVE  Since(k)' >= 0 /\ Cardinality(OnToken(served', k)) + Left' <= Requests + Refill(Since(k)')
        <5>1. Since(k)' \in Nat /\ Cardinality(OnToken(served, k)) + Left' <= Requests + Refill(Since(k)')
          BY <1>4, <2>1, <4>1 DEF Since
        <5> QED
          BY <2>1, <5>1
      <4>2. \A k \in DOMAIN served' : served'[k].at <= clock'
        BY <2>1 DEF IInv, Earned
      <4> QED
        BY <4>1, <4>2 DEF Earned, Refill
    <3> QED
      BY <1>1, <2>1, <3>1 DEF IInv, EarnedBetween
  <2>2. CASE Serve(now, TRUE)
    <3>1. served' = Append(served, [at |-> now, rewound |-> rewound', free |-> TRUE])
      BY <2>2 DEF Serve
    <3>2. \A k \in DOMAIN served : ~served[k].free =>
             LET t == seen' - served[k].at + rewound' - served[k].rewound
             IN  t >= 0 /\ Cardinality(OnToken(served, k)) + Left' <= Requests + Refill(t)
      BY <1>4
    <3>3. seen' \in Nat /\ rewound' \in Nat /\ now \in 0 .. clock /\ clock' = clock
      BY <1>1, <1>2
    <3> QED
      BY <3>1, <3>2, <3>3, ServedFree
  <2>3. CASE Serve(now, FALSE) /\ Tokens(bucket, now) > 0
    <3>1. served' = Append(served, [at |-> now, rewound |-> rewound', free |-> FALSE])
      BY <2>3 DEF Serve
    <3> QED
      BY <2>3, <3>1, ServedOnToken
  <2> QED
    BY <2>1, <2>2, <2>3
<1>6. Shapes'
  BY <1>1, <1>2, <1>5 DEF IInv, Shapes
<1>7. BucketKept'
  <2>1. bucket'.expires \in (clock' + 1) .. (clock' + 2 * Window)
        /\ bucket'.expires >= seen' + 2 * Window
    BY <1>0, <1>1, <1>2
  <2> QED
    BY <1>2, <2>1 DEF BucketKept
<1>8. ClosedPays'
  <2>1. now \in Nat
    BY <1>1, <1>2
  <2> QED
    BY <1>2, <2>1, ClosedStays
<1> QED
  BY <1>5, <1>6, <1>7, <1>8 DEF IInv

\* A client that is denied finds a token at the time it is told.
LEMMA DenyTold ==
    ASSUME IInv, NEW now \in 0 .. MaxTime, Deny(now)
    PROVE  denial' \in Denial /\ DenialKept'
<1> DEFINE e == Elapsed(bucket.last, now)
<1>0. Window \in Nat \ {0} /\ Requests \in Nat \ {0} /\ MaxTime \in Nat
  BY RateLimitAssumption
<1>1. bucket \in {Absent} \cup Bucket /\ now \in Nat
  BY <1>0 DEF IInv, Shapes
<1>2. RunScript(now) /\ Tokens(bucket, now) = 0
  BY DEF Deny
<1>3. bucket.present
  BY <1>0, <1>2 DEF Tokens
<1>4. bucket.tokens \in Nat /\ bucket.last \in Nat
  BY <1>1, <1>3, <1>0, BucketFields
<1>5. e \in Nat
  BY <1>1, <1>4 DEF Elapsed
<1>6. Refill(e) = 0
  <2>1. Refill(e) \in Nat
    BY <1>5, RefillAdds
  <2> QED
    BY <1>0, <1>2, <1>3, <1>4, <2>1 DEF Tokens
<1>7. e < Window /\ (Requests > 1 => Refill(Window - e) > 0)
  BY <1>5, <1>6, RefillRest
<1>8. Window - e \in Nat /\ Window - e > 0 /\ Refill(Window - e) \in Nat
  <2>1. Window - e \in Nat /\ Window - e > 0
    BY <1>0, <1>5, <1>7
  <2> QED
    BY <2>1, RefillAdds
<1>9. denial' = [denied |-> TRUE, until |-> now + (Window - e)]
  BY DEF Deny, Reset
<1>10. bucket'.present /\ bucket'.last = now /\ bucket'.tokens = 0 /\ seen' = now
  BY <1>2, ScriptStores DEF IInv
<1> HIDE DEF e
<1>11. denial' \in Denial /\ denial'.until = now + (Window - e) /\ denial'.until > now
  BY <1>1, <1>8, <1>9 DEF Denial
<1>12. Requests > 1 => Tokens(bucket', denial'.until) > 0
  <2>1. Elapsed(now, denial'.until) = Window - e
    BY <1>1, <1>8, <1>11 DEF Elapsed
  <2>2. Refill(Elapsed(now, denial'.until)) = Refill(Window - e)
    BY <2>1
  <2> QED
    BY <1>0, <1>7, <1>8, <1>10, <2>2 DEF Tokens
<1>13. RetryAfterHonoured'
  BY <1>12 DEF RetryAfterHonoured, Tokens, Elapsed, Refill
<1> QED
  BY <1>10, <1>11, <1>13 DEF DenialKept

\* Without an answer of Redis a request is served for free or not at all.
LEMMA OnErrorServes ==
    ASSUME NEW now, OnError(now), policy \in FailurePolicy
    PROVE  UNCHANGED served \/ (Serve(now, TRUE) /\ policy = "FailOpen")
BY DEF OnError, FailurePolicy

\* Every step keeps the invariant.
LEMMA NextIInv == IInv /\ [Next]_vars => IInv'
<1> SUFFICES ASSUME IInv, [Next]_vars PROVE IInv'
  OBVIOUS
<1>0. NoDenial.denied = FALSE /\ policy \in FailurePolicy
  BY DEF NoDenial, IInv, Shapes
<1>1. CASE UNCHANGED vars
  BY <1>1 DEF vars, IInv, Shapes, BucketKept, Earned, Since, Left, EarnedBetween, ClosedPays, DenialKept,
              RetryAfterHonoured, Tokens
<1>2. CASE Tick
  BY <1>2, TickStep
<1>3. ASSUME NEW now \in 0 .. MaxTime, Allow(now) PROVE IInv'
  <2>1. /\ RunScript(now) /\ UNCHANGED <<policy, clock>> /\ Serve(now, FALSE)
        /\ Tokens(bucket, now) > 0 /\ denial' = NoDenial
    BY <1>3 DEF Allow
  <2>2. DenialKept'
    BY <1>0, <2>1 DEF DenialKept
  <2> QED
    BY <2>1, <2>2, CallStep
<1>4. ASSUME NEW now \in 0 .. MaxTime, Deny(now) PROVE IInv'
  <2>1. RunScript(now) /\ UNCHANGED <<policy, clock>> /\ UNCHANGED served
    BY <1>4 DEF Deny
  <2>2. denial' \in Denial /\ DenialKept'
    BY <1>4, DenyTold
  <2> QED
    BY <2>1, <2>2, CallStep
<1>5. ASSUME NEW now \in 0 .. MaxTime, RedisDown(now) PROVE IInv'
  <2>1. /\ now = clock /\ UNCHANGED <<policy, clock, bucket, seen, rewound, denial>>
        /\ OnError(now)
    BY <1>5 DEF RedisDown
  <2>2. /\ clock \in 0 .. MaxTime /\ seen \in 0 .. clock /\ rewound \in Nat
        /\ served \in Seq(Request) /\ MaxTime \in Nat
    BY RateLimitAssumption DEF IInv, Shapes
  <2>3. UNCHANGED served \/ (Serve(now, TRUE) /\ policy = "FailOpen")
    BY <1>0, <2>1, OnErrorServes
  <2>4. (Earned /\ EarnedBetween)' /\ served' \in Seq(Request)
    <3>1. CASE UNCHANGED served
      BY <2>1, <2>2, <3>1 DEF IInv, Earned, Since, Left, EarnedBetween
    <3>2. CASE Serve(now, TRUE)
      <4>1. served' = Append(served, [at |-> now, rewound |-> rewound', free |-> TRUE])
        BY <3>2 DEF Serve
      <4>2. now \in 0 .. clock /\ seen' \in Nat /\ rewound' \in Nat /\ clock' = clock
        BY <2>1, <2>2
      <4>3. \A k \in DOMAIN served : ~served[k].free =>
               LET t == seen' - served[k].at + rewound' - served[k].rewound
               IN  t >= 0 /\ Cardinality(OnToken(served, k)) + Left' <= Requests + Refill(t)
        BY <2>1 DEF IInv, Earned, Since, Left
      <4> QED
        BY <4>1, <4>2, <4>3, ServedFree
    <3> QED
      BY <2>3, <3>1, <3>2
  <2>5. Shapes'
    BY <2>1, <2>4 DEF IInv, Shapes
  <2>6. BucketKept'
    <3>1. CASE bucket.present
      BY <2>1, <3>1 DEF IInv, BucketKept
    <3>2. CASE ~bucket.present /\ clock >= seen + 2 * Window
      BY <2>1, <3>2 DEF BucketKept
    <3>3. CASE ~bucket.present /\ \A k \in DOMAIN served : served[k].free
      <4>1. CASE UNCHANGED served
        BY <2>1, <3>3, <4>1 DEF BucketKept
      <4>2. CASE Serve(now, TRUE)
        <5>1. now \in Nat /\ rewound' \in Nat
          BY <2>1, <2>2
        <5>2. \A k \in DOMAIN served' : served'[k].free
          BY <2>2, <3>3, <4>2, <5>1, FreeStays
        <5> QED
          BY <2>1, <3>3, <5>2 DEF BucketKept
      <4> QED
        BY <2>3, <4>1, <4>2
    <3> QED
      BY <3>1, <3>2, <3>3 DEF IInv, BucketKept
  <2>7. ClosedPays'
    <3>1. now \in Nat /\ rewound' \in Nat
      BY <2>1, <2>2
    <3> QED
      BY <2>1, <2>3, <3>1, ClosedStays
  <2>8. DenialKept'
    BY <2>1 DEF IInv, DenialKept, RetryAfterHonoured, Tokens
  <2> QED
    BY <2>4, <2>5, <2>6, <2>7, <2>8 DEF IInv
<1>6. ASSUME NEW now \in 0 .. MaxTime, ReplyLost(now) PROVE IInv'
  <2>1. RunScript(now) /\ UNCHANGED <<policy, clock>> /\ OnError(now) /\ denial' = NoDenial
    BY <1>6 DEF ReplyLost
  <2>2. UNCHANGED served \/ (Serve(now, TRUE) /\ policy = "FailOpen")
    BY <1>0, <2>1, OnErrorServes
  <2>3. DenialKept'
    BY <1>0, <2>1 DEF DenialKept
  <2> QED
    BY <2>1, <2>2, <2>3, CallStep
<1> QED
  BY <1>1, <1>2, <1>3, <1>4, <1>5, <1>6 DEF Next

-----------------------------------------------------------------------------
(* Theorems *)

\* The inductive invariant holds in every reachable state.
THEOREM Invariance == Spec => []IInv
BY InitIInv, NextIInv, PTL DEF Spec

\* Over any stretch of requests, a key gets at most a full bucket and what it
\* earned in the time of that stretch, whatever the order in which the servers'
\* times reach the script and however often replies are lost.
THEOREM BurstBoundHolds == Spec => []BurstBound
<1>1. ASSUME IInv PROVE BurstBound
  <2>0. Window \in Nat \ {0} /\ MaxTime \in Nat /\ Requests \in Nat \ {0}
    BY RateLimitAssumption
  <2>1. /\ policy \in FailurePolicy /\ clock \in 0 .. MaxTime /\ seen \in 0 .. clock /\ rewound \in Nat
        /\ bucket \in {Absent} \cup Bucket /\ served \in Seq(Request)
        /\ denial \in {NoDenial} \cup Denial
    BY <1>1 DEF IInv, Shapes
  <2>2. bucket = Absent \/ /\ bucket.tokens \in 0 .. Requests
                           /\ bucket.last = seen
                           /\ bucket.expires \in (clock + 1) .. (clock + 2 * Window)
    <3>1. CASE bucket \in Bucket
      <4>1. bucket.present = TRUE
        BY <3>1 DEF Bucket
      <4> QED
        BY <1>1, <2>1, <4>1, BucketFields DEF IInv, BucketKept
    <3> QED
      BY <2>1, <3>1
  <2>3. \A i \in DOMAIN served : served[i].at \in 0 .. clock
    <3>1. ASSUME NEW i \in DOMAIN served PROVE served[i].at \in 0 .. clock
      <4>1. served[i] \in Request /\ served[i].at <= clock
        BY <1>1, <2>1 DEF IInv, Earned
      <4> QED
        BY <2>0, <2>1, <4>1 DEF Request
    <3> QED
      BY <3>1
  <2>4. denial = NoDenial \/ (bucket.present => denial.until > seen)
    <3>1. CASE denial \in Denial
      <4>1. denial.denied = TRUE
        BY <3>1 DEF Denial
      <4> QED
        BY <1>1, <4>1 DEF IInv, DenialKept
    <3> QED
      BY <2>1, <3>1
  <2>5. TypeOK
    BY <2>1, <2>2, <2>3, <2>4 DEF TypeOK
  <2> DEFINE counted == {k \in DOMAIN served : policy = "FailClosed" \/ ~served[k].free}
  <2>6. ASSUME NEW i \in counted, NEW j \in counted, i <= j
        PROVE  Cardinality(counted \cap i .. j) <=
                  Requests + ((served[j].at - served[i].at
                               + served[j].rewound - served[i].rewound) * Requests) \div Window
    <3>1. counted = {k \in DOMAIN served : ~served[k].free}
      BY <1>1 DEF IInv, ClosedPays
    <3>2. i \in DOMAIN served /\ j \in DOMAIN served /\ ~served[i].free /\ ~served[j].free
      BY <3>1, <2>6
    <3>3. DOMAIN served \subseteq Nat
      BY <2>1
    <3>4. counted \cap i .. j = Between(served, i, j)
      BY <3>1, <3>2, <3>3 DEF Between, OnToken
    <3> HIDE DEF counted
    <3> QED
      BY <1>1, <2>6, <3>2, <3>4 DEF IInv, EarnedBetween, Refill
  <2> QED
    BY <2>5, <2>6 DEF BurstBound
<1> QED
  BY <1>1, Invariance, PTL

\* A denied client that waits for Retry-After seconds, alone on its key, is let in:
\* the bucket then has a token, or has expired.
THEOREM RetryAfterHolds == Spec => []RetryAfterHonoured
<1>1. IInv => RetryAfterHonoured
  BY DEF IInv, DenialKept, RetryAfterHonoured
<1> QED
  BY <1>1, Invariance, PTL
=============================================================================
