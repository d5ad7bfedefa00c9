------------------------------ MODULE TokenBuckets ------------------------------
(***************************************************************************)
(* What a rate limiter promises (ratelimit.go: "allowing `max` events per  *)
(* `window` with burst = max"): every client has a bucket of Burst tokens, *)
(* refilled by one token every Interval; a request takes a token or is     *)
(* refused.  Levels are in ticks: a token is Interval of them.             *)
(***************************************************************************)
EXTENDS Naturals

CONSTANTS
  Clients,   \* rate limit keys: an address, "attendance:<user>", ...
  Burst,
  Interval,
  NoAnswer

VARIABLES
  level,     \* content of each bucket
  verdict    \* the last answer given at this instant

bucketsVars == <<level, verdict>>

Full == Burst * Interval
Capped(n) == IF n < Full THEN n ELSE Full
Answer(k, allowed) == [client |-> k, allowed |-> allowed]

BucketsInit ==
  /\ level = [k \in Clients |-> Full]
  /\ verdict = NoAnswer

Refill ==
  /\ level' = [k \in Clients |-> Capped(level[k] + 1)]
  /\ verdict' = NoAnswer

Grant(k) ==
  /\ level[k] >= Interval
  /\ level' = [level EXCEPT ![k] = @ - Interval]
  /\ verdict' = Answer(k, TRUE)

Deny(k) ==
  /\ level[k] < Interval
  /\ verdict' = Answer(k, FALSE)
  /\ UNCHANGED level

BucketsNext == Refill \/ \E k \in Clients : Grant(k) \/ Deny(k)

BucketsSpec == BucketsInit /\ [][BucketsNext]_bucketsVars
================================================================================
