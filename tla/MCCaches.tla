------------------------------ MODULE MCCaches ------------------------------
(***************************************************************************)
(* Checks the server's shared helpers, one per behaviour: the load cache,  *)
(* the handles of TimeoutCache and the bcrypt pool. They share no state,   *)
(* so `part` picks the one that runs and the others stay as they began.    *)
(***************************************************************************)
EXTENDS LoadCache, HandleCache, BcryptPool

VARIABLE part

cachesVars == <<vars, cacheVars, poolVars, part>>

CachesInit ==
  /\ part \in {"load cache", "handles", "bcrypt"}
  /\ Init /\ CacheInit /\ PoolInit

CachesNext ==
  /\ UNCHANGED part
  /\ \/ part = "load cache" /\ Next /\ UNCHANGED <<cacheVars, poolVars>>
     \/ part = "handles" /\ CacheNext /\ UNCHANGED <<vars, poolVars>>
     \/ part = "bcrypt" /\ PoolNext /\ UNCHANGED <<vars, cacheVars>>

\* The fairness of each part, as it states it: what it is about is disabled
\* as the others begin.
CachesSpec ==
  /\ CachesInit /\ [][CachesNext]_cachesVars
  /\ \A c \in Call : WF_vars(Step(c))
  /\ PoolFairness
=============================================================================
