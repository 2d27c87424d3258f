------------------------------ MODULE RateLimit ------------------------------
(***************************************************************************)
(* The rate limiter: internal/platform/ratelimit.  A token bucket per key  *)
(* lives in a Redis hash and is changed by one atomic Lua script.  The     *)
(* time in the script is the caller's: a server reads its clock, and the   *)
(* script may run after the script of a server that read a later time.     *)
(* When Redis does not answer within 100 ms the route's policy decides.    *)
(* One key is modelled: keys share nothing.                                *)
(***************************************************************************)
EXTENDS Integers, Sequences, FiniteSets

CONSTANTS
    Requests,   \* Config.Requests, the capacity of a bucket
    Window,     \* Config.Window, in seconds
    MaxLag,     \* how old the caller's time can be when the script runs
    MaxTime,    \* bound on the clock
    MaxRewound, \* bound on the steps back of that time, summed
    MaxFree     \* bound on requests served without an answer of Redis

ASSUME RateLimitAssumption ==
    /\ Requests \in Nat \ {0}
    /\ Window \in Nat \ {0}
    /\ MaxLag \in 0..Window
    /\ MaxTime \in Nat /\ MaxLag <= MaxTime
    /\ MaxRewound \in Nat /\ MaxFree \in Nat

VARIABLES
    policy,     \* Config.FailurePolicy of the route
    clock,      \* Redis's clock, in seconds
    bucket,     \* the hash under the key, or Absent
    seen,       \* the time in the last script call
    rewound,    \* the sum of the steps back in the times of script calls
    served,     \* the requests that reached the handler, oldest first
    denial      \* the last script call's answer, if it denied

vars == <<policy, clock, bucket, seen, rewound, served, denial>>

FailurePolicy == {"FailOpen", "FailClosed"}

Absent == [present |-> FALSE]
NoDenial == [denied |-> FALSE]

Init ==
    /\ policy \in FailurePolicy
    /\ clock = MaxLag /\ seen = MaxLag
    /\ bucket = Absent
    /\ rewound = 0 /\ served = <<>> /\ denial = NoDenial

\* EXPIRE
Expired(b, t) == b.present /\ t >= b.expires

\* A second passes; Redis never returns a key past its time to live.
Tick ==
    /\ clock < MaxTime
    /\ clock' = clock + 1
    /\ bucket' = IF Expired(bucket, clock') THEN Absent ELSE bucket
    /\ UNCHANGED <<policy, seen, rewound, served, denial>>

-----------------------------------------------------------------------------
(* tokenBucketScript *)

Elapsed(last, now) == IF now > last THEN now - last ELSE 0

\* Mutant: what the bucket earns is rounded up.
RefillUp(elapsed) == (elapsed * Requests + Window - 1) \div Window

Refill(elapsed) == (elapsed * Requests) \div Window

\* The tokens a call at time now finds.
Tokens(b, now) ==
    IF ~b.present THEN Requests
    ELSE LET tokens == b.tokens + Refill(Elapsed(b.last, now))
         IN  IF tokens > Requests THEN Requests ELSE tokens

\* HMSET and EXPIRE, the same on both branches.
Stored(b, now) ==
    LET tokens == Tokens(b, now)
    IN  [present |-> TRUE, tokens |-> IF tokens > 0 THEN tokens - 1 ELSE 0,
         last |-> now, expires |-> clock + 2 * Window]

\* Mutant: the time that has passed, not the time that is left.
ResetElapsed(b, now) == Elapsed(b.last, now)

\* Retry-After.
Reset(b, now) == Window - Elapsed(b.last, now)

RunScript(now) ==
    /\ now \in (clock - MaxLag)..clock
    /\ bucket' = Stored(bucket, now)
    /\ seen' = now
    /\ rewound' = rewound + Elapsed(now, seen)
    /\ rewound' <= MaxRewound

-----------------------------------------------------------------------------
(* Middleware *)

\* A request reaches the handler, with a token or for free.
Serve(now, free) ==
    served' = Append(served, [at |-> now, rewound |-> rewound', free |-> free])

Allow(now) ==
    /\ RunScript(now)
    /\ Tokens(bucket, now) > 0
    /\ Serve(now, FALSE)
    /\ denial' = NoDenial
    /\ UNCHANGED <<policy, clock>>

Deny(now) ==
    /\ RunScript(now)
    /\ Tokens(bucket, now) = 0
    /\ denial' = [denied |-> TRUE, until |-> now + Reset(bucket, now)]
    /\ UNCHANGED <<policy, clock, served>>

OnError(now) ==
    IF policy = "FailClosed" THEN UNCHANGED served ELSE Serve(now, TRUE)

Free == {i \in DOMAIN served : served[i].free}

\* The script does not run.
RedisDown(now) ==
    /\ now = clock /\ Cardinality(Free) < MaxFree
    /\ UNCHANGED rewound
    /\ OnError(now)
    /\ UNCHANGED <<policy, clock, bucket, seen, denial>>

\* The script ran; its answer comes too late.
ReplyLost(now) ==
    /\ Cardinality(Free) < MaxFree
    /\ RunScript(now)
    /\ OnError(now)
    /\ denial' = NoDenial
    /\ UNCHANGED <<policy, clock>>

Next ==
    \/ Tick
    \/ \E now \in 0..MaxTime : Allow(now) \/ Deny(now) \/ RedisDown(now) \/ ReplyLost(now)

Spec == Init /\ [][Next]_vars

-----------------------------------------------------------------------------
(* Properties *)

\* The state has its type; a bucket never holds more than its capacity, whatever
\* the order in which servers' times reach the script.
TypeOK ==
    /\ policy \in FailurePolicy
    /\ clock \in 0..MaxTime /\ seen \in 0..clock /\ rewound \in Nat
    /\ bucket = Absent \/ /\ bucket.tokens \in 0..Requests
                          /\ bucket.last = seen
                          /\ bucket.expires \in (clock + 1)..(clock + 2 * Window)
    /\ \A i \in DOMAIN served : served[i].at \in 0..clock
    /\ denial = NoDenial \/ (bucket.present => denial.until > seen)

\* The bucket is well formed, and bursts are bounded: between any two requests that
\* were let through on a token, the requests let through are at most a full bucket
\* and what it earned in the time between them.  That is a token bucket's bound, not
\* Config.Requests per Window: a full bucket spent at once and the tokens earned
\* after it can make almost 2 * Requests in one Window.  A step back of the time
\* given to the script counts twice, since it is refilled again, and a bucket that
\* expired gives nothing extra.  On a route that fails closed the same holds of
\* every request, also through an outage of Redis or a lost reply.
BurstBound ==
    /\ TypeOK
    /\ LET counted == {k \in DOMAIN served : policy = "FailClosed" \/ ~served[k].free}
       IN  \A i, j \in counted :
            LET time == served[j].at - served[i].at + served[j].rewound - served[i].rewound
            IN  i <= j => Cardinality(counted \cap i..j)
                          <= Requests + (time * Requests) \div Window

\* A client that was told to come back after Retry-After seconds and does so, with
\* no other request on its key between, is let in, if a bucket has two tokens or
\* more: with one, the time since the last request is counted twice.
RetryAfterHonoured ==
    Requests > 1 /\ denial.denied => Tokens(bucket, denial.until) > 0
=============================================================================
