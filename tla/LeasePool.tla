----------------------------- MODULE LeasePool -----------------------------
(* What Snowflake worker numbers promise: a number is used by at most one    *)
(* process at a time, and a process uses at most one number.  How the state  *)
(* directory keeps the promise is WorkerLease.                               *)
CONSTANTS WorkerId, Client

VARIABLE user         \* user[i]: the clients that use number i

PoolInit == user = [i \in WorkerId |-> {}]

Claim(i, c) == /\ user[i] = {}
               /\ \A j \in WorkerId : c \notin user[j]
               /\ user' = [user EXCEPT ![i] = {c}]

\* the client stops using the number: it releases it or dies
Cease(i, c) == /\ user[i] = {c}
               /\ user' = [user EXCEPT ![i] = {}]

PoolNext == \E i \in WorkerId, c \in Client : Claim(i, c) \/ Cease(i, c)

PoolSpec == PoolInit /\ [][PoolNext]_user
=============================================================================
