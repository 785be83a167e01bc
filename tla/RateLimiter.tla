---------------------------- MODULE RateLimiter ----------------------------
(***************************************************************************)
(* The token bucket of one client (internal/api/ratelimit.go): concurrent  *)
(* requests, and the goroutine that prunes idle buckets.  The bucket is    *)
(* looked up in a concurrent map and used under a lock of its own, so that *)
(* a request may hold a bucket that is not in the map any more.            *)
(***************************************************************************)
EXTENDS Integers, FiniteSets, FiniteSetsExt, Sequences

CONSTANTS
  Requests,    \* goroutines that serve a request
  Burst, Rate, \* rate in tokens per tick
  Idle,        \* 30 minutes
  MaxClock,    \* bound of the clock
  NoBucket
ASSUME LimiterAssumption ==
  /\ Burst \in Nat \ {0} /\ Rate \in Nat /\ Idle \in Nat /\ MaxClock \in Nat
  /\ NoBucket \notin Nat /\ IsFiniteSet(Requests)

VARIABLES
  buckets,   \* every ipState ever made, in order
  entry,     \* index of the one in the map, or NoBucket
  holds,     \* per request: the one LoadOrStore gave it
  pruning,   \* prune has found the bucket old and not deleted it yet
  clock,
  granted,   \* auxiliary: requests let through before each tick
  stale      \* auxiliary: requests that hold a deleted bucket when a tick begins

limiterVars == <<buckets, entry, holds, pruning, clock, granted, stale>>

LimiterInit ==
  /\ buckets = <<>>
  /\ entry = NoBucket
  /\ holds = [r \in Requests |-> NoBucket]
  /\ pruning = FALSE
  /\ clock = 0
  /\ granted = [t \in 0..(MaxClock + 1) |-> 0]
  /\ stale = [t \in 0..MaxClock |-> 0]

(* LoadOrStore.                                                            *)
Load(r) ==
  /\ holds[r] = NoBucket
  /\ IF entry # NoBucket THEN UNCHANGED <<buckets, entry>>
     ELSE /\ buckets' = Append(buckets, [tokens |-> Burst, lastFill |-> clock])
          /\ entry' = Len(buckets')
  /\ holds' = [holds EXCEPT ![r] = entry']
  /\ UNCHANGED <<pruning, clock, granted, stale>>

(* Mutant: the cap at the burst is forgotten.                              *)
Filled_Uncapped(b) == b.tokens + (clock - b.lastFill) * Rate

Filled(b) == Min({Burst, b.tokens + (clock - b.lastFill) * Rate})

(* allow, under the lock of the bucket.                                    *)
Take(r) ==
  /\ holds[r] # NoBucket
  /\ LET b == Filled(buckets[holds[r]])
     IN  /\ buckets' = [buckets EXCEPT ![holds[r]] =
                          [tokens |-> IF b < 1 THEN b ELSE b - 1, lastFill |-> clock]]
         /\ granted' = [t \in DOMAIN granted |->
              IF b >= 1 /\ t > clock THEN granted[t] + 1 ELSE granted[t]]
  /\ holds' = [holds EXCEPT ![r] = NoBucket]
  /\ UNCHANGED <<entry, pruning, clock, stale>>

(* prune looks at the age under the lock, and deletes after it.            *)
PruneLooks ==
  /\ ~pruning /\ entry # NoBucket
  /\ buckets[entry].lastFill + Idle < clock
  /\ pruning' = TRUE
  /\ UNCHANGED <<buckets, entry, holds, clock, granted, stale>>

PruneDeletes ==
  /\ pruning
  /\ pruning' = FALSE /\ entry' = NoBucket
  /\ UNCHANGED <<buckets, holds, clock, granted, stale>>

(* Requests that hold a bucket which is not in the map any more.           *)
Stale == {r \in Requests : holds[r] \notin {NoBucket, entry}}

Later ==
  /\ clock < MaxClock
  /\ clock' = clock + 1
  /\ stale' = [stale EXCEPT ![clock'] = Cardinality(Stale)]
  /\ UNCHANGED <<buckets, entry, holds, pruning, granted>>

LimiterNext ==
  \/ \E r \in Requests : Load(r) \/ Take(r)
  \/ PruneLooks \/ PruneDeletes \/ Later

(* What a client gets in a window shorter than the idle time is bounded.   *)
(* The bucket may be drained once more after prune has judged it, but at   *)
(* most one is deleted in such a window, so that the client gets at most   *)
(* two bursts, what two buckets refill, and one request for each that has  *)
(* been holding a bucket deleted before the window (allow and prune).      *)
TwoBurstsAtMost ==
  \A s, t \in 0..clock : s <= t /\ t - s < Idle =>
    granted[t + 1] - granted[s] <= 2 * (Burst + Rate * (t - s)) + stale[s]
=============================================================================
