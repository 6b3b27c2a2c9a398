----------------------------- MODULE StoreLock -----------------------------
(***************************************************************************)
(* The store's entries and their locks (storage/store.rs), as processes    *)
(* use them at once: ensure_entry and save_relocated_entry fill a          *)
(* temporary directory and rename it, remove_entry deletes a directory and *)
(* then the lock file it holds, and doctor's repair removes whatever       *)
(* list_entries shows, temporary directories included.  The downloads of   *)
(* casks that are no archives are staged the same way, but without a lock. *)
(*                                                                         *)
(* A lock is an inode, not a name: File::create opens the file that has    *)
(* the name at that moment, and flock is held on the inode.  An inode      *)
(* nobody has open and that has no name is free to be used again.          *)
(***************************************************************************)
EXTENDS Naturals, FiniteSets

CONSTANTS
    Workers,     \* tasks and processes that call the store
    StoreKeys,   \* names under store/
    CacheKeys,   \* names under store-relocated/
    NoWorker,
    StoreIdle,   \* stands for "no call"
    StoreFaults  \* "lock", "fill", "remove", "crash": what may fail

Inodes  == 1 .. (Cardinality(Workers) + Cardinality(StoreKeys \cup CacheKeys))
EntryNames == StoreKeys \cup CacheKeys
Ops == {"ensure", "save", "raw", "remove", "sweep"}

ASSUME StoreLockAssumption ==
    /\ NoWorker \notin Workers
    /\ StoreKeys \cap CacheKeys = {}
    /\ StoreFaults \subseteq {"lock", "fill", "remove", "crash"}
    /\ StoreIdle \notin [op : Ops, key : EntryNames, done : BOOLEAN]

VARIABLES
    entry,     \* the directory of an entry: "none", "whole" or "part"
    lockFile,  \* inode of the file at the lock's path, 0 when there is none
    flock,     \* the worker that holds the lock on an inode
    fd,        \* the inode a worker has open, or 0
    job,       \* the operation and key a worker is at
    at,        \* its next step
    tmp,       \* its temporary directory: "none", "filling", "full", "torn", "gone"
    litter,    \* has a crash left a temporary directory?
    swept,     \* has a temporary directory been removed under its owner?
    ended      \* how a worker's last call ended

lockVars == <<entry, lockFile, flock, fd, job, at, tmp, litter, swept, ended>>

LockSteps == {"idle", "check", "open", "wait", "recheck", "fill", "rename",
              "removing", "unname", "sweep"}

\* A lock is held by a worker that has its inode open.
StoreLockTypeOK ==
    /\ entry \in [EntryNames -> {"none", "whole", "part"}]
    /\ lockFile \in [EntryNames -> {0} \cup Inodes]
    /\ flock \in [Inodes -> Workers \cup {NoWorker}]
    /\ fd \in [Workers -> {0} \cup Inodes]
    /\ job \in [Workers -> [op : Ops, key : EntryNames] \cup {StoreIdle}]
    /\ at \in [Workers -> LockSteps]
    /\ tmp \in [Workers -> {"none", "filling", "full", "torn", "gone"}]
    /\ litter \in BOOLEAN
    /\ swept \in BOOLEAN
    /\ \A i \in Inodes : flock[i] # NoWorker => fd[flock[i]] = i
    /\ ended \in [Workers -> {"none", "have", "gone", "failed"}]

StoreLockInit ==
    /\ entry = [k \in EntryNames |-> "none"]
    /\ lockFile = [k \in EntryNames |-> 0]
    /\ flock = [i \in Inodes |-> NoWorker]
    /\ fd = [w \in Workers |-> 0]
    /\ job = [w \in Workers |-> StoreIdle]
    /\ at = [w \in Workers |-> "idle"]
    /\ tmp = [w \in Workers |-> "none"]
    /\ litter = FALSE
    /\ swept = FALSE
    /\ ended = [w \in Workers |-> "none"]

Step(w, step) == at' = [at EXCEPT ![w] = step]
Key(w) == job[w].key
Exists(w) == entry[Key(w)] # "none"

\* A plausible bug: the handle is leaked.
ReturnKeepsLock(w, how) ==
    /\ Step(w, "idle")
    /\ ended' = [ended EXCEPT ![w] = how]
    /\ job' = [job EXCEPT ![w] = StoreIdle]
    /\ fd' = [fd EXCEPT ![w] = 0]
    /\ UNCHANGED flock

\* Returning drops the lock file's handle, which gives up the lock.
ReturnWith(w, how) ==
    /\ Step(w, "idle")
    /\ ended' = [ended EXCEPT ![w] = how]
    /\ job' = [job EXCEPT ![w] = StoreIdle]
    /\ fd' = [fd EXCEPT ![w] = 0]
    /\ flock' = [i \in Inodes |-> IF flock[i] = w THEN NoWorker ELSE flock[i]]

Call(w) ==
    /\ at[w] = "idle"
    /\ \E op \in Ops, k \in EntryNames :
          /\ op \in {"ensure", "raw", "remove"} => k \in StoreKeys
          /\ op = "save" => k \in CacheKeys
          /\ op = "sweep" => k \in StoreKeys
          /\ job' = [job EXCEPT ![w] = [op |-> op, key |-> k]]
          /\ Step(w, IF op = "sweep" THEN "sweep" ELSE "check")
    /\ ended' = [ended EXCEPT ![w] = "none"]
    /\ UNCHANGED <<entry, lockFile, flock, fd, tmp, litter, swept>>

\* The fast path: a directory that exists is an entry.  A raw download is staged at
\* once.
Check(w) ==
    /\ at[w] = "check"
    /\ \/ /\ Exists(w) /\ job[w].op # "remove"
          /\ ReturnWith(w, "have")
          /\ UNCHANGED tmp
       \/ /\ ~Exists(w) /\ job[w].op = "remove"
          /\ ReturnWith(w, "gone")
          /\ UNCHANGED tmp
       \/ /\ Exists(w) <=> job[w].op = "remove"
          /\ job[w].op # "raw"
          /\ Step(w, "open")
          /\ UNCHANGED <<flock, fd, job, tmp, ended>>
       \/ /\ ~Exists(w) /\ job[w].op = "raw"
          /\ tmp' = [tmp EXCEPT ![w] = "filling"]
          /\ Step(w, "fill")
          /\ UNCHANGED <<flock, fd, job, ended>>
    /\ UNCHANGED <<entry, lockFile, litter, swept>>

FreeInodes ==
    {i \in Inodes : (\A k \in EntryNames : lockFile[k] # i)
                    /\ (\A w \in Workers : fd[w] # i)}

\* File::create opens the file at the lock's path, or makes one.
OpenLock(w) ==
    /\ at[w] = "open"
    /\ \/ /\ lockFile[Key(w)] # 0
          /\ fd' = [fd EXCEPT ![w] = lockFile[Key(w)]]
          /\ UNCHANGED lockFile
       \/ /\ lockFile[Key(w)] = 0
          /\ \E i \in FreeInodes :
                /\ \A j \in FreeInodes : i <= j
                /\ fd' = [fd EXCEPT ![w] = i]
                /\ lockFile' = [lockFile EXCEPT ![Key(w)] = i]
    /\ Step(w, "wait")
    /\ UNCHANGED <<entry, flock, job, tmp, litter, swept, ended>>

\* A plausible bug: the lock is not exclusive.
LockIgnoresHolder(w) ==
    /\ at[w] = "wait"
    /\ flock' = [flock EXCEPT ![fd[w]] = w]
    /\ Step(w, "recheck")
    /\ UNCHANGED <<entry, lockFile, fd, job, tmp, litter, swept, ended>>

\* lock_exclusive waits for the inode it has open, named or not.
Lock(w) ==
    /\ at[w] = "wait"
    /\ flock[fd[w]] = NoWorker
    /\ flock' = [flock EXCEPT ![fd[w]] = w]
    /\ Step(w, "recheck")
    /\ UNCHANGED <<entry, lockFile, fd, job, tmp, litter, swept, ended>>

LockFails(w) ==
    /\ at[w] \in {"open", "wait"}
    /\ "lock" \in StoreFaults
    /\ ReturnWith(w, "failed")
    /\ UNCHANGED <<entry, lockFile, tmp, litter, swept>>

\* The second look, under the lock.  remove_entry starts to delete here.
Recheck(w) ==
    /\ at[w] = "recheck"
    /\ \/ /\ job[w].op # "remove" /\ Exists(w)
          /\ ReturnWith(w, "have")
          /\ UNCHANGED <<entry, tmp>>
       \/ /\ job[w].op # "remove" /\ ~Exists(w)
          /\ tmp' = [tmp EXCEPT ![w] = "filling"]
          /\ Step(w, "fill")
          /\ UNCHANGED <<entry, flock, fd, job, ended>>
       \/ /\ job[w].op = "remove" /\ Exists(w)
          /\ entry' = [entry EXCEPT ![Key(w)] = "part"]
          /\ Step(w, "removing")
          /\ UNCHANGED <<tmp, flock, fd, job, ended>>
       \/ /\ job[w].op = "remove" /\ ~Exists(w)
          /\ Step(w, "unname")
          /\ UNCHANGED <<entry, tmp, flock, fd, job, ended>>
    /\ UNCHANGED <<lockFile, litter, swept>>

Filled(w, op) ==
    /\ at[w] = "fill"
    /\ job[w].op = op
    /\ tmp[w] # "gone"
    /\ tmp' = [tmp EXCEPT ![w] = IF @ = "filling" THEN "full" ELSE @]
    /\ Step(w, "rename")
    /\ UNCHANGED <<entry, lockFile, flock, fd, job, litter, swept, ended>>

\* An archive is unpacked into the temporary directory, entry by entry.
Extract(w) == Filled(w, "ensure")

\* A keg is copied: by cp with reflinks, and file by file when that fails.
CopyKegIn(w) == Filled(w, "save")

\* The one artifact of a raw download is copied.
StageRaw(w) == Filled(w, "raw")

\* An error drops the TempDir, which removes the directory.
FillFails(w) ==
    /\ at[w] = "fill"
    /\ "fill" \in StoreFaults \/ tmp[w] \in {"gone", "torn"}
    /\ tmp' = [tmp EXCEPT ![w] = "none"]
    /\ ReturnWith(w, "failed")
    /\ UNCHANGED <<entry, lockFile, litter, swept>>

\* A plausible bug: an error of the rename is taken for "already there".
RenameAssumesHave(w) ==
    /\ at[w] = "rename"
    /\ entry' = [entry EXCEPT ![Key(w)] = IF Exists(w) \/ tmp[w] # "full" THEN @ ELSE "whole"]
    /\ ReturnWith(w, "have")
    /\ tmp' = [tmp EXCEPT ![w] = "none"]
    /\ UNCHANGED <<lockFile, litter, swept>>

\* A rename replaces nothing but an empty directory, which a removal leaves
\* just before its end.  save_relocated_entry and persist_temp_store_entry take an
\* entry they find there.
Rename(w) ==
    /\ at[w] = "rename"
    /\ \/ /\ tmp[w] \in {"full", "torn"}
          /\ entry[Key(w)] \in {"none", "part"}
          /\ entry' = [entry EXCEPT ![Key(w)] =
                         IF tmp[w] = "full" THEN "whole" ELSE "part"]
          /\ ReturnWith(w, "have")
       \/ /\ tmp[w] = "gone" \/ Exists(w)
          /\ ReturnWith(w, IF job[w].op \in {"save", "raw"} /\ Exists(w)
                           THEN "have" ELSE "failed")
          /\ UNCHANGED entry
    /\ tmp' = [tmp EXCEPT ![w] = "none"]
    /\ UNCHANGED <<lockFile, litter, swept>>

\* remove_dir_all ends.  Another one may have been faster, or an ensure may
\* have put a new directory in the place of the emptied one.
EndRemove(w) ==
    /\ at[w] = "removing"
    /\ entry[Key(w)] = "part"
    /\ entry' = [entry EXCEPT ![Key(w)] = "none"]
    /\ Step(w, "unname")
    /\ UNCHANGED <<lockFile, flock, fd, job, tmp, litter, swept, ended>>

RemoveFails(w) ==
    /\ at[w] = "removing"
    /\ "remove" \in StoreFaults \/ entry[Key(w)] # "part"
    /\ ReturnWith(w, "failed")
    /\ UNCHANGED <<entry, lockFile, tmp, litter, swept>>

\* Clean up the lock file: the path is unlinked, whatever file has it now.
Unname(w) ==
    /\ at[w] = "unname"
    /\ lockFile' = [lockFile EXCEPT ![Key(w)] = 0]
    /\ ReturnWith(w, "gone")
    /\ UNCHANGED <<entry, tmp, litter, swept>>

\* Repair removes a directory list_entries reported: a temporary one of a dead
\* process, or of one that is still filling it.
Sweep(w) ==
    /\ at[w] = "sweep"
    /\ \/ /\ litter' = FALSE
          /\ UNCHANGED <<tmp, swept>>
       \/ \E v \in Workers, left \in {"torn", "gone"} :
             /\ tmp[v] \in {"filling", "full", "torn"}
             /\ job[v].op \in {"ensure", "raw"}
             /\ tmp' = [tmp EXCEPT ![v] = left]
             /\ swept' = TRUE
             /\ UNCHANGED litter
    /\ ReturnWith(w, "gone")
    /\ UNCHANGED <<entry, lockFile>>

\* The kernel closes the handles; the temporary directory stays.
CrashCall(w) ==
    /\ at[w] # "idle"
    /\ "crash" \in StoreFaults
    /\ litter' = (litter \/ tmp[w] \in {"filling", "full", "torn"})
    /\ tmp' = [tmp EXCEPT ![w] = "none"]
    /\ ReturnWith(w, "failed")
    /\ UNCHANGED <<entry, lockFile, swept>>

Work(w) ==
    \/ Check(w) \/ OpenLock(w) \/ Lock(w) \/ LockFails(w) \/ Recheck(w)
    \/ Extract(w) \/ CopyKegIn(w) \/ StageRaw(w) \/ FillFails(w) \/ Rename(w)
    \/ EndRemove(w) \/ RemoveFails(w) \/ Unname(w) \/ Sweep(w)

StoreLockNext == \E w \in Workers : Call(w) \/ Work(w) \/ CrashCall(w)

StoreLockSpec == StoreLockInit /\ [][StoreLockNext]_lockVars

-----------------------------------------------------------------------------
(* Properties.                                                             *)

InCritical(w) ==
    /\ at[w] \in {"recheck", "fill", "rename", "removing", "unname"}
    /\ job[w].op # "raw"

\* acquire_entry_lock and remove_entry: of two workers inside the lock of one
\* key, one holds a lock file that has lost its name, which only remove_entry's
\* clean-up can do to it.
LockExcludes ==
    \A v, w \in Workers :
       (v # w /\ InCritical(v) /\ InCritical(w) /\ Key(v) = Key(w))
       => fd[v] # lockFile[Key(v)] \/ fd[w] # lockFile[Key(w)]

\* ensure_entry and save_relocated_entry: a directory appears under an entry's
\* name with all its files, whatever fails, races or crashes; only repair that
\* removes a temporary directory in use can make it appear torn.
AppearsWhole ==
    \A k \in EntryNames :
       entry[k] = "none" /\ entry'[k] # "none" => entry'[k] = "whole" \/ swept

\* Every call of the store ends, also for waiters on a deleted lock file.
StoreCallsEnd == \A w \in Workers : at[w] # "idle" ~> at[w] = "idle"

\* What callers see of a worker: its call, and whether a removal has taken effect.
CallOf(w) == IF at[w] = "idle" THEN StoreIdle
             ELSE [op |-> job[w].op, key |-> job[w].key, done |-> at[w] = "unname"]

AllCalls == [w \in Workers |-> CallOf(w)]
HeldKeys == {k \in EntryNames : entry[k] # "none"}

\* The abstract store this one implements.
Atomic == INSTANCE AtomicStore WITH
    Callers <- Workers,
    Entries <- EntryNames,
    Idle    <- StoreIdle,
    held    <- HeldKeys,
    call    <- AllCalls,
    answer  <- ended

\* Every call of ensure_entry, save_relocated_entry, remove_entry and of the raw
\* entries of casks takes effect at one instant, under crashes, failures and lock files
\* that are deleted while others wait for them; what appears appears whole.
StoreIsAtomic == Atomic!StoreSpec /\ [][AppearsWhole]_lockVars
=============================================================================
