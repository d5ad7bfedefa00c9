------------------------------- MODULE RateLimiter ------------------------------
(***************************************************************************)
(* The in-memory rate limiter (internal/platform/ratelimit/ratelimit.go).  *)
(*                                                                         *)
(* The buckets are golang.org/x/time/rate limiters: they are refilled when *)
(* they are asked, from the time that has passed.  A client without one    *)
(* gets a full one, and the buckets of idle clients are thrown away once   *)
(* there are more than MaxEntries.  allow() runs under the mutex.          *)
(***************************************************************************)
EXTENDS Naturals, FiniteSets

CONSTANTS
  Clients,     \* rate limit keys
  MaxEvents,   \* max of New
  Window,      \* window of New, in clock ticks
  MaxEntries,  \* 10,000 in the code
  NoAnswer,
  MaxClock     \* bound: the clock stops here

\* window / time.Duration(max): the interval of a token, rounded down.
TokenInterval == Window \div MaxEvents

ASSUME LimiterAssumption ==
  /\ MaxEvents \in Nat \ {0} /\ Window \in Nat \ {0}
  /\ TokenInterval > 0      \* windows are far longer than max nanoseconds
  /\ MaxEntries \in Nat /\ MaxClock \in Nat

VARIABLES
  clock,       \* time.Now()
  entries,     \* key -> tokens left (in ticks) when last refilled, last request
  verdict      \* the last answer given at this instant

limiterVars == <<clock, entries, verdict>>

Capacity == MaxEvents * TokenInterval
Entry == [tokens : 0 .. Capacity, refilled : 0 .. MaxClock, lastSeen : 0 .. MaxClock]

\* A slip: one interval without a request makes a bucket stale.
StaleSoon(k) == entries[k].lastSeen + TokenInterval <= clock

\* lastSeen.Before(now - ttl), ttl = 4 windows
Stale(k) == entries[k].lastSeen + 4 * Window < clock

\* The keys that stay when a request comes.
Kept ==
  IF Cardinality(DOMAIN entries) > MaxEntries
  THEN {k \in DOMAIN entries : ~Stale(k)} ELSE DOMAIN entries

\* What a bucket holds now.
Left(e) ==
  IF e.tokens + (clock - e.refilled) < Capacity
  THEN e.tokens + (clock - e.refilled) ELSE Capacity

\* The bucket a request of k meets: its own or a new one, full.
BucketOf(k) ==
  IF k \in Kept THEN entries[k]
  ELSE [tokens |-> Capacity, refilled |-> clock, lastSeen |-> clock]

\* The entry that a request leaves: a refused one takes nothing.
AfterRequest(e, allowed) ==
  IF allowed THEN [tokens |-> Left(e) - TokenInterval, refilled |-> clock, lastSeen |-> clock]
  ELSE [e EXCEPT !.lastSeen = clock]

allow(k) ==
  LET e == BucketOf(k)
      allowed == Left(e) >= TokenInterval
  IN  /\ entries' = [j \in Kept \cup {k} |-> IF j = k THEN AfterRequest(e, allowed) ELSE entries[j]]
      /\ verdict' = [client |-> k, allowed |-> allowed]
      /\ UNCHANGED clock

Tick ==
  /\ clock < MaxClock
  /\ clock' = clock + 1
  /\ verdict' = NoAnswer
  /\ UNCHANGED entries

LimiterInit ==
  /\ clock = 0
  /\ entries = [k \in {} |-> 0]
  /\ verdict = NoAnswer

LimiterNext == Tick \/ \E k \in Clients : allow(k)

LimiterSpec == LimiterInit /\ [][LimiterNext]_limiterVars

-------------------------------------------------------------------------------
\* Clock, buckets and answers have their types.
LimiterTypeOK ==
  /\ clock \in 0 .. MaxClock
  /\ DOMAIN entries \subseteq Clients
  /\ \A k \in DOMAIN entries :
       /\ entries[k] \in Entry
       /\ entries[k].refilled <= entries[k].lastSeen
       /\ entries[k].lastSeen <= clock

\* A client without a bucket is one whose bucket is full.
Level == [k \in Clients |-> IF k \in DOMAIN entries THEN Left(entries[k]) ELSE Capacity]

Buckets == INSTANCE TokenBuckets
             WITH Burst <- MaxEvents, Interval <- TokenInterval, level <- Level

\* No client is allowed a request more, or refused one more, than if no bucket
\* were ever thrown away: eviction gives back nothing that waiting had not
\* (ratelimit.go, allow).
ImplementsBuckets == Buckets!BucketsSpec
================================================================================
