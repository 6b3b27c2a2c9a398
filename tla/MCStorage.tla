----------------------------- MODULE MCStorage -----------------------------
(***************************************************************************)
(* The database and the store's locks for TLC, side by side: of each       *)
(* behaviour one of them takes the steps.  Three names share two keys; two *)
(* workers share an entry of the store and one of the relocated cache.     *)
(***************************************************************************)
EXTENDS PackageDb, StoreLock

VARIABLE active

storageVars == <<active, dbVars, lockVars>>

StorageInit == active \in {"db", "locks"} /\ DbInit /\ StoreLockInit

StorageNext ==
    \/ active = "db" /\ DbNext /\ UNCHANGED <<active, lockVars>>
    \/ active = "locks" /\ StoreLockNext /\ UNCHANGED <<active, dbVars>>

\* A call that has begun is run to its end; flock hands the lock to a waiter.
StorageSpec ==
    /\ StorageInit /\ [][StorageNext]_storageVars
    /\ \A w \in Workers : /\ WF_lockVars(active = "locks" /\ Work(w) /\ at[w] # "wait")
                          /\ SF_lockVars(active = "locks" /\ Lock(w))
=============================================================================
