----------------------------- MODULE LeakyBucket -----------------------------
(***************************************************************************)
(* The request limit of one user (RateLimiter, LeakyBucket): requests on   *)
(* any node read the user's bucket from Redis, let it leak, take their     *)
(* amount and write it back, without a lock.  Time is in milliseconds; the *)
(* rate RateNum/RateDen per millisecond is exact here and a double in the  *)
(* code.  The nodes' clocks agree.                                         *)
(***************************************************************************)
EXTENDS Integers

CONSTANTS
  Clients,   \* requests that may be under way at once
  Amounts,   \* what a request asks for
  BucketSize, RateNum, RateDen,
  Second,    \* milliseconds in a second
  MaxTime,   \* bound on the clock
  NoBucket   \* Redis holds none

Buckets == [space : 0..BucketSize, last : Nat]

ASSUME LimitAssumption ==
  /\ {BucketSize, RateNum, RateDen, Second} \subseteq Nat \ {0}
  /\ Amounts \subseteq Nat /\ NoBucket \notin Buckets

VARIABLES
  now,     \* the clock
  stored,  \* Redis: [space, last] or NoBucket
  expires, \* when Redis drops it
  req,     \* req[c]: [at, amount, bucket]
  ideal,   \* history: RateDen times the space of a bucket that loses nothing;
           \* kept while no two requests have overlapped
  alone,   \* history: no two requests have overlapped
  lastGrant, \* history: when a request was last granted
  refused  \* the RateLimitExceededException of this step: [amount, retryAfter],
           \* with the time since the last grant as history

limitVars == <<now, stored, expires, req, ideal, alone, lastGrant, refused>>

Least(a, b) == IF a < b THEN a ELSE b
None == [amount |-> 0, retryAfter |-> 0, since |-> 0]
Fresh == [space |-> BucketSize, last |-> now]
Resting == [at |-> "idle", amount |-> 0, bucket |-> NoBucket]

LimitInit ==
  /\ now = 0 /\ stored = NoBucket /\ expires = 0
  /\ req = [c \in Clients |-> Resting]
  /\ ideal = BucketSize * RateDen /\ alone = TRUE
  /\ lastGrant = 0 /\ refused = None

Tick ==
  /\ now < MaxTime
  /\ now' = now + 1
  /\ ideal' = IF alone THEN Least(BucketSize * RateDen, ideal + RateNum) ELSE ideal
  /\ refused' = None
  /\ UNCHANGED <<stored, expires, req, alone, lastGrant>>

\* getBucket: what Redis holds, a full bucket if it holds none or has
\* dropped it.
GetBucket(c, amount) ==
  /\ req[c].at = "idle"
  /\ req' = [req EXCEPT ![c] = [at |-> "read", amount |-> amount,
       bucket |-> IF stored = NoBucket \/ now >= expires THEN Fresh ELSE stored]]
  /\ alone' = (alone /\ \A d \in Clients : req[d].at = "idle")
  /\ ideal' = IF alone' THEN ideal ELSE 0
  /\ refused' = None
  /\ UNCHANGED <<now, stored, expires, lastGrant>>

\* Mutant: the leaked amount is rounded up.
getUpdatedSpaceRemainingUp(b) ==
  Least(BucketSize, b.space + ((now - b.last) * RateNum + RateDen - 1) \div RateDen)

\* The space after what has leaked since, rounded down.
getUpdatedSpaceRemaining(b) ==
  Least(BucketSize, b.space + ((now - b.last) * RateNum) \div RateDen)

\* Mutant: a refused request writes its bucket back too.
KeptAlways(granted) == TRUE

\* validate writes the bucket back only when the request was granted.
Kept(granted) == granted

\* The time a refused client is told, in whole milliseconds: the quotient of
\* the amount and the rate without its fraction.
RetryAfter(amount) == (amount * RateDen) \div RateNum

\* The Retry-After header: whole seconds, the rest is dropped.
RetryHeader(retryAfter) == retryAfter \div Second

\* add, on the copy that was read.
AddAmount(c) ==
  /\ req[c].at = "read"
  /\ LET space == getUpdatedSpaceRemaining(req[c].bucket)
         amount == req[c].amount
         granted == space >= amount
         left == [space |-> IF granted THEN space - amount ELSE space, last |-> now]
     IN  /\ req' = [req EXCEPT ![c] = IF Kept(granted)
                                      THEN [@ EXCEPT !.at = "write", !.bucket = left]
                                      ELSE Resting]
         /\ ideal' = IF granted /\ alone THEN ideal - amount * RateDen ELSE ideal
         /\ lastGrant' = IF granted THEN now ELSE lastGrant
         /\ refused' = IF granted THEN None
                       ELSE [amount |-> amount, retryAfter |-> RetryAfter(amount),
                             since |-> now - lastGrant]
  /\ UNCHANGED <<now, stored, expires, alone>>

\* setBucket, with the time of a complete refill in whole seconds as its life.
SetBucket(c) ==
  /\ req[c].at = "write"
  /\ stored' = req[c].bucket
  /\ expires' = LET refill == (BucketSize * RateDen + RateNum - 1) \div RateNum
                IN  now + Second * ((refill + Second - 1) \div Second)
  /\ req' = [req EXCEPT ![c] = Resting]
  /\ refused' = None
  /\ UNCHANGED <<now, ideal, alone, lastGrant>>

LimitNext ==
  \/ Tick
  \/ \E c \in Clients :
       (\E amount \in Amounts : GetBucket(c, amount)) \/ AddAmount(c) \/ SetBucket(c)

LimitSpec == LimitInit /\ [][LimitNext]_limitVars

-----------------------------------------------------------------------------
\* Requests that do not overlap are granted no more than the bucket and what
\* has leaked from it allow, in spite of the expiry and the rounding; and
\* whatever overlaps, the bucket in Redis is never overdrawn or overfull.
GrantsWithinRate ==
  /\ alone => ideal >= 0
  /\ stored # NoBucket => stored.space \in 0..BucketSize

\* A request that fits the bucket is refused for at most the time of
\* RateLimitExceededException after the last grant: refusals and the rounding of
\* small leaks do not put it off.  Both truncations cost the client: it may be
\* refused in the very millisecond it was told, and is served one millisecond
\* later; by the header, within a second more than it was told.
RetryIsHonoured ==
  refused.amount \in 1..BucketSize =>
    /\ refused.since <= refused.retryAfter
    /\ refused.since < Second * (RetryHeader(refused.retryAfter) + 1)
=============================================================================
