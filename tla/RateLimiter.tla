---------------------------- MODULE RateLimiter ----------------------------
(***************************************************************************)
(* The rate limiter of router/rate_limit.py: a token bucket for each key,  *)
(* in a table of bounded size.  check() holds the limiter's lock from the  *)
(* first look at the table to its answer, so a call of it is one step.     *)
(*                                                                         *)
(* A bucket counts in units: a request costs Cost of them, and one flows   *)
(* in with each tick of the clock.  Of all keys one, the agent's, has its  *)
(* history kept: what it was admitted, and when it was told to come back.  *)
(***************************************************************************)
EXTENDS Lists

CONSTANTS
    Agent,           \* the key whose history is kept
    Keys,            \* every key: the agent's and the others'
    Cost,            \* 60 / RATE_LIMIT_RPM, in ticks
    Burst,           \* RATE_LIMIT_BURST
    MaxKeys,         \* RATE_LIMIT_MAX_TRACKED_KEYS
    Nothing,         \* no promise made
    MaxTime          \* bound: ticks of the clock

ASSUME LimiterAssumption ==
    /\ Agent \in Keys
    /\ {Cost, Burst, MaxKeys} \subseteq Nat \ {0}
    /\ Nothing \notin Int

VARIABLES
    buckets,   \* the table, the key used last at the end
    now,
    \* History:
    passed,    \* the times of the agent's admissions since its bucket was last forgotten
    promise    \* when the agent's last refusal said to come back, or Nothing

limiter == <<buckets, now, passed, promise>>

Bucket == [key : Keys, units : 0 .. Burst * Cost, at : Nat]

KeysOf(table) == {b.key : b \in ToSet(table)}
BucketOf(key) == CHOOSE b \in ToSet(buckets) : b.key = key
-----------------------------------------------------------------------------
(* The bucket of a key when it knocks: refilled, or a full one.            *)
Full(key) == [key |-> key, units |-> Burst * Cost, at |-> now]

RefilledUncapped(key) ==
    IF key \notin KeysOf(buckets) THEN Full(key)
    ELSE LET b == BucketOf(key) IN [b EXCEPT !.units = @ + (now - b.at), !.at = now]
RefilledLate(key) ==
    IF key \notin KeysOf(buckets) THEN Full(key)
    ELSE LET b == BucketOf(key)
             whole == Cost * ((now - b.at) \div Cost)
         IN  [b EXCEPT !.units = IF @ + whole < Burst * Cost THEN @ + whole ELSE Burst * Cost,
                       !.at = now]
Refilled(key) ==
    IF key \notin KeysOf(buckets) THEN Full(key)
    ELSE LET b == BucketOf(key)
             grown == b.units + (now - b.at)
         IN  [b EXCEPT !.units = IF grown < Burst * Cost THEN grown ELSE Burst * Cost,
                       !.at = now]

(* A new key takes the place of the one used least recently.               *)
Others(key) ==
    IF key \in KeysOf(buckets) THEN Without(buckets, {BucketOf(key)})
    ELSE IF Len(buckets) >= MaxKeys THEN Tail(buckets)
    ELSE buckets

(* One call of check().  A refusal says how long to wait: until what is    *)
(* missing for a request has flowed in.  A key that has lost its bucket    *)
(* starts anew on purpose.                                                 *)
Check(key, pass) ==
    LET b == Refilled(key)
        forgotten == Agent \notin KeysOf(Others(key)) \cup {key}
    IN  /\ pass = (b.units >= Cost)
        /\ buckets' = Append(Others(key), IF pass THEN [b EXCEPT !.units = @ - Cost] ELSE b)
        /\ passed' = CASE forgotten -> <<>>
                       [] key = Agent /\ pass -> Append(passed, now)
                       [] OTHER -> passed
        /\ promise' = CASE forgotten -> Nothing
                        [] key = Agent /\ pass -> Nothing
                        [] key = Agent /\ ~pass -> now + (Cost - b.units)
                        [] OTHER -> promise
        /\ now' = now

ClockTicks ==
    /\ now < MaxTime
    /\ now' = now + 1
    /\ UNCHANGED <<buckets, passed, promise>>
-----------------------------------------------------------------------------
(* The limiter alone, whoever knocks.                                      *)
LimiterInit ==
    /\ buckets = <<>>
    /\ now = 0
    /\ passed = <<>>
    /\ promise = Nothing

LimiterNext ==
    \/ \E key \in Keys, pass \in BOOLEAN : Check(key, pass)
    \/ ClockTicks

LimiterSpec == LimiterInit /\ [][LimiterNext]_limiter
-----------------------------------------------------------------------------
(* A key that is not forgotten is never admitted more often, over any      *)
(* stretch of time, than its burst and what flowed in meanwhile allow,     *)
(* whoever else knocks (RateLimiter.check).                                *)
BurstBounded ==
    \A i \in DOMAIN passed :
        Cost * (Len(passed) - i + 1) <= Burst * Cost + now - passed[i]

(* Knocking again never pushes the door further away: the time a refusal   *)
(* names stands, however often the key is refused before it, and at that   *)
(* time it is let in (the wait of RateLimiter.check, sent as Retry-After). *)
PromiseKept ==
    [][Nothing \notin {promise, promise'} => promise' <= promise]_limiter
=============================================================================
