----------------------------- MODULE LeaseStore -----------------------------
(***************************************************************************)
(* The session-coordination lease of one session: a Redis key as the       *)
(* primary, a Postgres row as the fallback, and the Failover wrapper that  *)
(* routes each operation to the fallback while the primary does not answer.*)
(* A holder value is a gateway replica; an expired lease is NoHolder.      *)
(***************************************************************************)
EXTENDS Naturals, FiniteSets

CONSTANTS Replicas,   \* the gateway replicas, which are the holder values
          NoHolder    \* no live lease

ASSUME LeaseAssumption == NoHolder \notin Replicas

VARIABLES redis,      \* the holder stored under the session's Redis key
          pg,         \* the holder of the live session_leases row
          redisUp     \* whether the primary answers

leaseVars == <<redis, pg, redisUp>>

Holders == Replicas \cup {NoHolder}

\* Failover.Get: the answer of the store that is reached, and of no other. A
\* "no lease" answer of Redis is forwarded without a look at the fallback.
LeaseHolder == IF redisUp THEN redis ELSE pg

\* The condition of acquireScript and of the fallback's locked transaction.
MayAcquire(r) == LeaseHolder \in {NoHolder, r}

\* Failover.Acquire that returns a lease; ErrHeld is ~MayAcquire(r).
AcquireLease(r) ==
  /\ MayAcquire(r)
  /\ IF redisUp THEN redis' = r /\ UNCHANGED pg ELSE pg' = r /\ UNCHANGED redis
  /\ UNCHANGED redisUp

\* Failover.Release: drops the lease in the store that is reached, and only
\* when that store names the caller.
Dropped(holder, r) == IF holder = r THEN NoHolder ELSE holder
ReleaseLease(r) ==
  /\ IF redisUp THEN redis' = Dropped(redis, r) /\ UNCHANGED pg
                ELSE pg' = Dropped(pg, r) /\ UNCHANGED redis
  /\ UNCHANGED redisUp
\* A Release that neither store answers is logged, and the lease stays.
TryReleaseLease(r) == ReleaseLease(r) \/ UNCHANGED leaseVars

\* A stored lease reaches its TTL. The Redis key goes; the Postgres row is
\* treated as absent by every operation.
RedisExpire == redis # NoHolder /\ redis' = NoHolder /\ UNCHANGED <<pg, redisUp>>
PgExpire    == pg # NoHolder /\ pg' = NoHolder /\ UNCHANGED <<redis, redisUp>>

\* Redis stops or resumes answering. Its keys survive the outage.
RedisOutage == redisUp' = ~redisUp /\ UNCHANGED <<redis, pg>>
=============================================================================
