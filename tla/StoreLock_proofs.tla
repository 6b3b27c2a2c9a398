-------------------------- MODULE StoreLock_proofs --------------------------
(***************************************************************************)
(* Proofs about StoreLock, for any workers, entries and faults: its types, *)
(* what its locks exclude, and that it implements AtomicStore.             *)
(***************************************************************************)
EXTENDS StoreLock, TLAPS

Job == [op : Ops, key : EntryNames]
Answers == {"none", "have", "gone", "failed"}

\* Where a worker can be with its call.
CallFits(w) ==
    /\ at[w] # "idle" => job[w] \in Job
    /\ at[w] = "sweep" => job[w].op = "sweep"
    /\ at[w] \in {"check", "open", "wait", "recheck"} => job[w].op # "sweep"
    /\ at[w] \in {"open", "wait", "recheck"} => job[w].op # "raw"
    /\ at[w] \in {"fill", "rename"} => job[w].op \in {"ensure", "save", "raw"}
    /\ at[w] \in {"removing", "unname"} => job[w].op = "remove"

\* A worker holds the lock it has open while it is inside, and no other.
LockFits(w) ==
    /\ at[w] = "wait" => fd[w] \in Inodes
    /\ InCritical(w) => fd[w] \in Inodes /\ flock[fd[w]] = w
    /\ \A i \in Inodes : flock[i] = w => InCritical(w) /\ fd[w] = i

\* Only a sweep damages a temporary directory.
TmpFits(w) == tmp[w] \in {"torn", "gone"} => swept

\* The inductive invariant.
LockInv ==
    /\ StoreLockTypeOK
    /\ \A w \in Workers : CallFits(w) /\ LockFits(w) /\ TmpFits(w)

LEMMA Initially == StoreLockInit => LockInv
  <1> SUFFICES ASSUME StoreLockInit PROVE LockInv
    OBVIOUS
  <1>1. StoreLockTypeOK
    BY DEF StoreLockInit, StoreLockTypeOK, LockSteps
  <1>2. \A w \in Workers : CallFits(w) /\ TmpFits(w)
    BY DEF StoreLockInit, CallFits, TmpFits
  <1>3. \A w \in Workers : at[w] = "idle" /\ \A i \in Inodes : flock[i] # w
    BY StoreLockAssumption DEF StoreLockInit
  <1>4. \A w \in Workers : LockFits(w)
    BY <1>3 DEF LockFits, InCritical
  <1> QED BY <1>1, <1>2, <1>4 DEF LockInv

-----------------------------------------------------------------------------
(* What the steps have in common.                                          *)

\* The fields of the types that do not depend on each other.
Shapes ==
    /\ entry \in [EntryNames -> {"none", "whole", "part"}]
    /\ lockFile \in [EntryNames -> {0} \cup Inodes]
    /\ flock \in [Inodes -> Workers \cup {NoWorker}]
    /\ fd \in [Workers -> {0} \cup Inodes]
    /\ job \in [Workers -> Job \cup {StoreIdle}]
    /\ at \in [Workers -> LockSteps]
    /\ tmp \in [Workers -> {"none", "filling", "full", "torn", "gone"}]
    /\ litter \in BOOLEAN
    /\ swept \in BOOLEAN
    /\ ended \in [Workers -> Answers]

LEMMA ShapesOK == LockInv => Shapes
  BY DEF LockInv, StoreLockTypeOK, Shapes, Job, Answers

\* A holder has its lock file open because it is inside.
LEMMA TypesFromFits ==
    ASSUME Shapes', \A w \in Workers : LockFits(w)'
    PROVE  StoreLockTypeOK'
  <1>1. \A i \in Inodes : flock'[i] # NoWorker => fd'[flock'[i]] = i
    <2> SUFFICES ASSUME NEW i \in Inodes, flock'[i] # NoWorker PROVE fd'[flock'[i]] = i
      OBVIOUS
    <2>1. flock'[i] \in Workers
      BY DEF Shapes
    <2> QED BY <2>1 DEF LockFits
  <1> QED BY <1>1 DEF Shapes, StoreLockTypeOK, Job, Answers

\* A step of one worker leaves the others where they are.
LEMMA Others ==
    ASSUME LockInv, NEW w \in Workers, NEW v \in Workers, v # w,
           at'[v] = at[v], job'[v] = job[v], fd'[v] = fd[v],
           tmp'[v] = tmp[v] \/ swept', swept => swept',
           \A i \in Inodes : flock'[i] = v <=> flock[i] = v
    PROVE  CallFits(v)' /\ LockFits(v)' /\ TmpFits(v)'
  BY DEF LockInv, CallFits, LockFits, TmpFits, InCritical

\* A call that returns gives up what it held.
LEMMA Returned ==
    ASSUME LockInv, NEW w \in Workers, NEW how \in Answers, ReturnWith(w, how),
           tmp' \in [Workers -> {"none", "filling", "full", "torn", "gone"}],
           \A v \in Workers : TmpFits(v)', swept => swept',
           entry' \in [EntryNames -> {"none", "whole", "part"}],
           lockFile' \in [EntryNames -> {0} \cup Inodes],
           litter' \in BOOLEAN, swept' \in BOOLEAN
    PROVE  LockInv'
  <1>0. Shapes
    BY ShapesOK
  <1>1. Shapes'
    BY <1>0, StoreLockAssumption DEF Shapes, ReturnWith, Step, LockSteps
  <1>2. at'[w] = "idle" /\ \A i \in Inodes : flock'[i] # w
    BY <1>0, StoreLockAssumption DEF Shapes, ReturnWith, Step
  <1>3. CallFits(w)' /\ LockFits(w)'
    BY <1>2 DEF CallFits, LockFits, InCritical
  <1>4. ASSUME NEW v \in Workers, v # w PROVE CallFits(v)' /\ LockFits(v)'
    <2>1. at'[v] = at[v] /\ job'[v] = job[v] /\ fd'[v] = fd[v]
      BY <1>0, <1>4 DEF Shapes, ReturnWith, Step
    <2>2. \A i \in Inodes : flock'[i] = v <=> flock[i] = v
      BY <1>0, <1>4, StoreLockAssumption DEF Shapes, ReturnWith
    <2> QED BY <2>1, <2>2 DEF LockInv, CallFits, LockFits, InCritical
  <1>5. \A v \in Workers : CallFits(v)' /\ LockFits(v)' /\ TmpFits(v)'
    BY <1>3, <1>4
  <1>6. StoreLockTypeOK'
    BY <1>1, <1>5, TypesFromFits
  <1> QED BY <1>5, <1>6 DEF LockInv

\* A step that changes neither the locks nor the types.
LEMMA Advanced ==
    ASSUME LockInv, NEW w \in Workers, Shapes', UNCHANGED <<job, fd, flock, swept>>,
           \A v \in Workers : v # w => at'[v] = at[v] /\ tmp'[v] = tmp[v],
           InCritical(w)' <=> InCritical(w), at'[w] # "wait" \/ at[w] = "wait",
           CallFits(w)', TmpFits(w)'
    PROVE  LockInv'
  <1>1. LockFits(w)'
    BY DEF LockInv, LockFits, InCritical
  <1>2. \A v \in Workers : CallFits(v)' /\ LockFits(v)' /\ TmpFits(v)'
    BY <1>1, Others
  <1> QED BY <1>2, TypesFromFits DEF LockInv

-----------------------------------------------------------------------------
(* One lemma for the steps of each kind.                                   *)

LEMMA CallStep == ASSUME LockInv, NEW w \in Workers, Call(w) PROVE LockInv'
  <1>0. Shapes
    BY ShapesOK
  <1>1. PICK op \in Ops, k \in EntryNames :
             /\ op = "sweep" <=> at'[w] = "sweep"
             /\ op # "sweep" <=> at'[w] = "check"
             /\ job' = [job EXCEPT ![w] = [op |-> op, key |-> k]]
    BY <1>0 DEF Call, Step, Shapes
  <1>2. job'[w] \in Job /\ job'[w].op = op
    BY <1>0, <1>1 DEF Job, Shapes
  <1>3. Shapes'
    BY <1>0, <1>1 DEF Call, Step, Shapes, Job, LockSteps, Answers
  <1>4. CallFits(w)'
    BY <1>1, <1>2 DEF CallFits
  <1>5. \A i \in Inodes : flock'[i] # w
    BY <1>0 DEF Call, LockInv, LockFits, InCritical
  <1>6. LockFits(w)' /\ TmpFits(w)'
    BY <1>1, <1>5 DEF LockFits, InCritical, TmpFits, Call, LockInv
  <1>7. ASSUME NEW v \in Workers, v # w PROVE CallFits(v)' /\ LockFits(v)' /\ TmpFits(v)'
    <2>1. at'[v] = at[v] /\ job'[v] = job[v] /\ UNCHANGED <<fd, flock, tmp, swept>>
      BY <1>0, <1>7 DEF Call, Step, Shapes
    <2> QED BY <2>1, <1>7, Others
  <1> QED BY <1>3, <1>4, <1>6, <1>7, TypesFromFits DEF LockInv

LEMMA CheckStep == ASSUME LockInv, NEW w \in Workers, Check(w) PROVE LockInv'
  <1>0. Shapes
    BY ShapesOK
  <1>1. CASE ReturnWith(w, "have") /\ UNCHANGED tmp
    BY <1>0, <1>1, Returned DEF Check, Shapes, Answers, TmpFits, LockInv
  <1>2. CASE ReturnWith(w, "gone") /\ UNCHANGED tmp
    BY <1>0, <1>2, Returned DEF Check, Shapes, Answers, TmpFits, LockInv
  <1>3. CASE /\ job[w].op # "raw" /\ Step(w, "open")
             /\ UNCHANGED <<flock, fd, job, tmp, ended>>
    <2>1. at'[w] = "open" /\ at[w] = "check" /\ \A v \in Workers : v # w => at'[v] = at[v]
      BY <1>0, <1>3 DEF Check, Step, Shapes
    <2>2. Shapes'
      BY <1>0, <1>3 DEF Check, Step, Shapes, LockSteps
    <2>3. CallFits(w)' /\ TmpFits(w)'
      BY <1>3, <2>1 DEF LockInv, CallFits, TmpFits, Check
    <2> QED BY <1>3, <2>1, <2>2, <2>3, Advanced DEF Check, InCritical
  <1>4. CASE /\ job[w].op = "raw" /\ tmp' = [tmp EXCEPT ![w] = "filling"] /\ Step(w, "fill")
             /\ UNCHANGED <<flock, fd, job, ended>>
    <2>1. /\ at'[w] = "fill" /\ at[w] = "check" /\ tmp'[w] = "filling"
          /\ \A v \in Workers : v # w => at'[v] = at[v] /\ tmp'[v] = tmp[v]
      BY <1>0, <1>4 DEF Check, Step, Shapes
    <2>2. Shapes'
      BY <1>0, <1>4 DEF Check, Step, Shapes, LockSteps
    <2>3. CallFits(w)' /\ TmpFits(w)'
      BY <1>4, <2>1 DEF LockInv, CallFits, TmpFits
    <2> QED BY <1>4, <2>1, <2>2, <2>3, Advanced DEF Check, InCritical
  <1> QED BY <1>1, <1>2, <1>3, <1>4 DEF Check

LEMMA OpenStep == ASSUME LockInv, NEW w \in Workers, OpenLock(w) PROVE LockInv'
  <1>0. Shapes /\ at[w] = "open" /\ job[w] \in Job
    BY ShapesOK DEF OpenLock, LockInv, CallFits
  <1>1. Key(w) \in EntryNames
    BY <1>0 DEF Key, Job
  <1>2. PICK i \in Inodes : /\ fd' = [fd EXCEPT ![w] = i]
                            /\ lockFile' \in [EntryNames -> {0} \cup Inodes]
    <2>1. CASE lockFile[Key(w)] # 0 /\ fd' = [fd EXCEPT ![w] = lockFile[Key(w)]]
               /\ UNCHANGED lockFile
      BY <1>0, <1>1, <2>1 DEF Shapes
    <2>2. CASE \E i \in FreeInodes : /\ fd' = [fd EXCEPT ![w] = i]
                                     /\ lockFile' = [lockFile EXCEPT ![Key(w)] = i]
      BY <1>0, <1>1, <2>2 DEF Shapes, FreeInodes
    <2> QED BY <2>1, <2>2 DEF OpenLock
  <1>3. /\ at'[w] = "wait" /\ fd'[w] = i /\ UNCHANGED <<job, flock, tmp, swept>>
        /\ \A v \in Workers : v # w => at'[v] = at[v] /\ fd'[v] = fd[v]
    BY <1>0, <1>2 DEF OpenLock, Step, Shapes
  <1>4. Shapes'
    BY <1>0, <1>2 DEF OpenLock, Step, Shapes, LockSteps
  <1>5. CallFits(w)' /\ LockFits(w)' /\ TmpFits(w)'
    BY <1>0, <1>3 DEF LockInv, CallFits, LockFits, TmpFits, InCritical
  <1>6. \A v \in Workers : v # w => CallFits(v)' /\ LockFits(v)' /\ TmpFits(v)'
    BY <1>3, Others
  <1> QED BY <1>4, <1>5, <1>6, TypesFromFits DEF LockInv

LEMMA LockStep == ASSUME LockInv, NEW w \in Workers, Lock(w) PROVE LockInv'
  <1>0. Shapes /\ at[w] = "wait" /\ fd[w] \in Inodes /\ flock[fd[w]] = NoWorker
    BY ShapesOK DEF Lock, LockInv, LockFits
  <1>1. /\ at'[w] = "recheck" /\ flock'[fd[w]] = w /\ UNCHANGED <<job, fd, tmp, swept>>
        /\ \A v \in Workers : v # w => at'[v] = at[v]
        /\ \A i \in Inodes : i # fd[w] => flock'[i] = flock[i]
    BY <1>0 DEF Lock, Step, Shapes
  <1>2. Shapes'
    BY <1>0 DEF Lock, Step, Shapes, LockSteps
  <1>3. CallFits(w)' /\ LockFits(w)' /\ TmpFits(w)'
    BY <1>0, <1>1 DEF LockInv, CallFits, LockFits, TmpFits, InCritical
  <1>4. ASSUME NEW v \in Workers, v # w PROVE CallFits(v)' /\ LockFits(v)' /\ TmpFits(v)'
    <2>1. \A i \in Inodes : flock'[i] = v <=> flock[i] = v
      BY <1>0, <1>1, <1>4, StoreLockAssumption
    <2> QED BY <1>1, <1>4, <2>1, Others
  <1> QED BY <1>2, <1>3, <1>4, TypesFromFits DEF LockInv

\* Calls that end with a failure, or are killed.
LEMMA FailedSteps ==
    ASSUME LockInv, NEW w \in Workers, LockFails(w) \/ FillFails(w) \/ RemoveFails(w) \/ CrashCall(w)
    PROVE  LockInv'
  <1>0. Shapes
    BY ShapesOK
  <1>1. /\ ReturnWith(w, "failed") /\ UNCHANGED <<entry, lockFile, swept>>
        /\ tmp' = tmp \/ tmp' = [tmp EXCEPT ![w] = "none"]
        /\ litter' \in BOOLEAN
    BY <1>0, Zenon DEF LockFails, FillFails, RemoveFails, CrashCall, Shapes
  <1>2. /\ tmp' \in [Workers -> {"none", "filling", "full", "torn", "gone"}]
        /\ \A v \in Workers : TmpFits(v)'
    BY <1>0, <1>1 DEF Shapes, LockInv, TmpFits
  <1> QED BY <1>0, <1>1, <1>2, Returned DEF Shapes, Answers

LEMMA RecheckStep == ASSUME LockInv, NEW w \in Workers, Recheck(w) PROVE LockInv'
  <1>0. Shapes /\ at[w] = "recheck" /\ job[w] \in Job /\ Key(w) \in EntryNames
    BY ShapesOK DEF Recheck, LockInv, CallFits, Key, Job
  <1>1. CASE ReturnWith(w, "have") /\ UNCHANGED <<entry, tmp>>
    BY <1>0, <1>1, Returned DEF Recheck, Shapes, Answers, TmpFits, LockInv
  <1>2. CASE /\ job[w].op # "remove" /\ tmp' = [tmp EXCEPT ![w] = "filling"] /\ Step(w, "fill")
             /\ UNCHANGED <<entry, flock, fd, job, ended>>
    <2>1. /\ at'[w] = "fill" /\ tmp'[w] = "filling"
          /\ \A v \in Workers : v # w => at'[v] = at[v] /\ tmp'[v] = tmp[v]
      BY <1>0, <1>2 DEF Step, Shapes
    <2>2. Shapes'
      BY <1>0, <1>2 DEF Recheck, Step, Shapes, LockSteps
    <2>3. CallFits(w)' /\ TmpFits(w)'
      BY <1>0, <1>2, <2>1 DEF LockInv, CallFits, TmpFits, Job, Ops
    <2>4. InCritical(w)' <=> InCritical(w)
      BY <1>0, <1>2, <2>1 DEF InCritical
    <2> QED BY <1>0, <1>2, <2>1, <2>2, <2>3, <2>4, Advanced DEF Recheck
  <1>3. CASE /\ job[w].op = "remove"
             /\ entry' = entry \/ entry' = [entry EXCEPT ![Key(w)] = "part"]
             /\ Step(w, "removing") \/ Step(w, "unname")
             /\ UNCHANGED <<tmp, flock, fd, job, ended>>
    <2>1. /\ at'[w] \in {"removing", "unname"}
          /\ \A v \in Workers : v # w => at'[v] = at[v]
      BY <1>0, <1>3 DEF Step, Shapes
    <2>2. Shapes'
      BY <1>0, <1>3 DEF Recheck, Step, Shapes, LockSteps
    <2>3. CallFits(w)' /\ TmpFits(w)'
      BY <1>0, <1>3, <2>1 DEF LockInv, CallFits, TmpFits, Recheck
    <2>4. InCritical(w)' <=> InCritical(w)
      BY <1>0, <1>3, <2>1 DEF InCritical
    <2> QED BY <1>0, <1>3, <2>1, <2>2, <2>3, <2>4, Advanced DEF Recheck
  <1> QED BY <1>1, <1>2, <1>3 DEF Recheck

LEMMA FillStep ==
    ASSUME LockInv, NEW w \in Workers, Extract(w) \/ CopyKegIn(w) \/ StageRaw(w)
    PROVE  LockInv'
  <1>0. Shapes /\ \E op \in Ops : Filled(w, op)
    BY ShapesOK DEF Extract, CopyKegIn, StageRaw, Ops
  <1>1. /\ at[w] = "fill" /\ at'[w] = "rename" /\ UNCHANGED <<entry, flock, fd, job, swept>>
        /\ tmp'[w] = tmp[w] \/ tmp'[w] = "full"
        /\ \A v \in Workers : v # w => at'[v] = at[v] /\ tmp'[v] = tmp[v]
    BY <1>0 DEF Filled, Step, Shapes
  <1>2. Shapes'
    BY <1>0 DEF Filled, Step, Shapes, LockSteps
  <1>3. CallFits(w)' /\ TmpFits(w)'
    BY <1>1 DEF LockInv, CallFits, TmpFits
  <1>4. InCritical(w)' <=> InCritical(w)
    BY <1>1 DEF InCritical
  <1> QED BY <1>1, <1>2, <1>3, <1>4, Advanced

LEMMA RenameStep == ASSUME LockInv, NEW w \in Workers, Rename(w) PROVE LockInv'
  <1>0. Shapes /\ Key(w) \in EntryNames
    BY ShapesOK DEF Rename, LockInv, CallFits, Key, Job
  <1>1. PICK how \in Answers : ReturnWith(w, how)
    BY DEF Rename, Answers
  <1>2. /\ tmp' = [tmp EXCEPT ![w] = "none"] /\ UNCHANGED <<lockFile, litter, swept>>
        /\ entry' \in [EntryNames -> {"none", "whole", "part"}]
    BY <1>0 DEF Rename, Shapes
  <1>3. /\ tmp' \in [Workers -> {"none", "filling", "full", "torn", "gone"}]
        /\ \A v \in Workers : TmpFits(v)'
    BY <1>0, <1>2 DEF Shapes, LockInv, TmpFits
  <1> QED BY <1>0, <1>1, <1>2, <1>3, Returned DEF Shapes

LEMMA EndRemoveStep == ASSUME LockInv, NEW w \in Workers, EndRemove(w) PROVE LockInv'
  <1>0. Shapes /\ at[w] = "removing" /\ Key(w) \in EntryNames
    BY ShapesOK DEF EndRemove, LockInv, CallFits, Key, Job
  <1>1. /\ at'[w] = "unname" /\ UNCHANGED <<flock, fd, job, tmp, swept>>
        /\ \A v \in Workers : v # w => at'[v] = at[v]
    BY <1>0 DEF EndRemove, Step, Shapes
  <1>2. Shapes'
    BY <1>0 DEF EndRemove, Step, Shapes, LockSteps
  <1>3. CallFits(w)' /\ TmpFits(w)'
    BY <1>0, <1>1 DEF LockInv, CallFits, TmpFits
  <1>4. InCritical(w)' <=> InCritical(w)
    BY <1>0, <1>1 DEF InCritical
  <1> QED BY <1>1, <1>2, <1>3, <1>4, Advanced

LEMMA UnnameStep == ASSUME LockInv, NEW w \in Workers, Unname(w) PROVE LockInv'
  <1>0. Shapes
    BY ShapesOK
  <1>1. lockFile' \in [EntryNames -> {0} \cup Inodes]
    BY <1>0 DEF Unname, Shapes
  <1> QED BY <1>0, <1>1, Returned DEF Unname, Shapes, Answers, TmpFits, LockInv

LEMMA SweepStep == ASSUME LockInv, NEW w \in Workers, Sweep(w) PROVE LockInv'
  <1>0. Shapes /\ ReturnWith(w, "gone") /\ UNCHANGED <<entry, lockFile>>
    BY ShapesOK DEF Sweep
  <1>1. /\ tmp' \in [Workers -> {"none", "filling", "full", "torn", "gone"}]
        /\ litter' \in BOOLEAN /\ swept' \in BOOLEAN /\ (swept => swept')
        /\ tmp' = tmp \/ swept'
    BY <1>0 DEF Sweep, Shapes
  <1>2. \A v \in Workers : TmpFits(v)'
    BY <1>1 DEF TmpFits, LockInv
  <1> QED BY <1>0, <1>1, <1>2, Returned DEF Shapes, Answers

\* Every step keeps the invariant.
LEMMA Inductive == LockInv /\ [StoreLockNext]_lockVars => LockInv'
  <1>1. ASSUME LockInv, UNCHANGED lockVars PROVE LockInv'
    BY <1>1 DEF lockVars, LockInv, StoreLockTypeOK, CallFits, LockFits, TmpFits, InCritical
  <1>2. ASSUME LockInv, NEW w \in Workers, Call(w) \/ Work(w) \/ CrashCall(w) PROVE LockInv'
    BY <1>2, CallStep, CheckStep, OpenStep, LockStep, FailedSteps, RecheckStep, FillStep,
       RenameStep, EndRemoveStep, UnnameStep, SweepStep DEF Work
  <1> QED BY <1>1, <1>2 DEF StoreLockNext

-----------------------------------------------------------------------------
(* The invariants.                                                         *)

LEMMA Invariance == StoreLockSpec => []LockInv
  BY Initially, Inductive, PTL DEF StoreLockSpec

\* The types of the store, with the holders of its locks, for any workers and faults.
THEOREM LockTypeCorrect == StoreLockSpec => []StoreLockTypeOK
  <1>1. LockInv => StoreLockTypeOK
    BY DEF LockInv
  <1> QED BY <1>1, Invariance, PTL

\* Of two workers inside the lock of one entry, one holds a file that has lost its name.
THEOREM ExclusionCorrect == StoreLockSpec => []LockExcludes
  <1>1. LockInv => LockExcludes
    <2> SUFFICES ASSUME LockInv, NEW v \in Workers, NEW w \in Workers, v # w,
                        InCritical(v), InCritical(w), Key(v) = Key(w)
                 PROVE  fd[v] # lockFile[Key(v)] \/ fd[w] # lockFile[Key(w)]
      BY DEF LockExcludes
    <2>1. flock[fd[v]] = v /\ flock[fd[w]] = w
      BY DEF LockInv, LockFits
    <2> QED BY <2>1
  <1> QED BY <1>1, Invariance, PTL

-----------------------------------------------------------------------------
(* The refinement.  A call takes effect when its entry is renamed or was   *)
(* there, or, for a removal, when the directory is gone.                   *)

\* The record of a call.
LEMMA RecordDone ==
    ASSUME NEW r, NEW a, NEW b, NEW x, r = [op |-> a, key |-> b, done |-> x = "unname"]
    PROVE  r.done <=> x = "unname"
  OBVIOUS

LEMMA RecordTaken ==
    ASSUME NEW A, NEW B, NEW r \in [op : A, key : B, done : BOOLEAN],
           NEW s \in [op : A, key : B, done : BOOLEAN], s.op = r.op, s.key = r.key, s.done = TRUE
    PROVE  s = [r EXCEPT !.done = TRUE]
  OBVIOUS

\* A worker at a step has a call, which is what its job says.
LEMMA CallIsJob ==
    ASSUME LockInv, NEW w \in Workers, at[w] # "idle"
    PROVE  /\ AllCalls[w] # StoreIdle /\ AllCalls[w].op = job[w].op
           /\ AllCalls[w].key = Key(w) /\ Key(w) \in EntryNames
           /\ AllCalls[w].done <=> at[w] = "unname"
  <1>1. job[w] \in Job
    BY DEF LockInv, CallFits
  <1>2. AllCalls[w] = [op |-> job[w].op, key |-> job[w].key, done |-> at[w] = "unname"]
    BY DEF AllCalls, CallOf
  <1>3. AllCalls[w] \in [op : Ops, key : EntryNames, done : BOOLEAN]
    BY <1>1, <1>2 DEF Job
  <1>4. AllCalls[w] # StoreIdle
    BY <1>3, StoreLockAssumption
  <1>5. AllCalls[w].op = job[w].op /\ AllCalls[w].key = job[w].key /\ job[w].key \in EntryNames
    BY <1>1, <1>2 DEF Job
  <1>6. AllCalls[w].done <=> at[w] = "unname"
    BY <1>2, RecordDone
  <1> QED BY <1>4, <1>5, <1>6 DEF Key

\* Returning ends the call and answers it, and touches no other.
LEMMA ReturnIsReturn ==
    ASSUME LockInv, NEW w \in Workers, NEW how \in Answers, ReturnWith(w, how)
    PROVE  /\ AllCalls' = [AllCalls EXCEPT ![w] = StoreIdle]
           /\ ended' = [ended EXCEPT ![w] = how]
  <1>1. Shapes
    BY ShapesOK
  <1>2. \A v \in Workers : CallOf(v)' = IF v = w THEN StoreIdle ELSE CallOf(v)
    BY <1>1 DEF ReturnWith, Step, Shapes, CallOf
  <1> QED BY <1>2 DEF AllCalls, ReturnWith

\* Steps inside a call that it does not show.
LEMMA HiddenStep ==
    ASSUME LockInv, NEW w \in Workers, NEW s \in LockSteps, Step(w, s), s # "idle",
           at[w] # "idle", (s = "unname") <=> (at[w] = "unname"), UNCHANGED job
    PROVE  UNCHANGED AllCalls
  <1>1. Shapes
    BY ShapesOK
  <1>2. \A v \in Workers : CallOf(v)' = CallOf(v)
    BY <1>1 DEF Step, Shapes, CallOf
  <1> QED BY <1>2 DEF AllCalls

\* A removal whose directory is gone still has to clean up.
LEMMA TakenStep ==
    ASSUME LockInv, NEW w \in Workers, Step(w, "unname"), at[w] \notin {"idle", "unname"},
           UNCHANGED job
    PROVE  AllCalls' = [AllCalls EXCEPT ![w].done = TRUE]
  <1>1. Shapes
    BY ShapesOK
  <1>2. CallOf(w)' = [op |-> job[w].op, key |-> job[w].key, done |-> TRUE]
    BY <1>1 DEF Step, Shapes, CallOf
  <1>3. CallOf(w) = [op |-> job[w].op, key |-> job[w].key, done |-> FALSE]
    BY DEF CallOf
  <1>4. CallOf(w)' = [CallOf(w) EXCEPT !.done = TRUE]
    <2>1. job[w] \in Job
      BY DEF LockInv, CallFits
    <2>2. /\ CallOf(w) \in [op : Ops, key : EntryNames, done : BOOLEAN]
          /\ CallOf(w)' \in [op : Ops, key : EntryNames, done : BOOLEAN]
          /\ CallOf(w)'.op = CallOf(w).op /\ CallOf(w)'.key = CallOf(w).key
          /\ CallOf(w)'.done = TRUE
      BY <1>2, <1>3, <2>1 DEF Job
    <2> QED BY ONLY <2>2, RecordTaken
  <1>5. \A v \in Workers : v # w => CallOf(v)' = CallOf(v)
    BY <1>1 DEF Step, Shapes, CallOf
  <1> QED BY <1>4, <1>5 DEF AllCalls

\* A step of the abstract store, or none.
Refined == Atomic!StoreNext \/ UNCHANGED <<HeldKeys, AllCalls, ended>>

\* The answers a return can give.
LEMMA RefinedReturn ==
    ASSUME LockInv, NEW w \in Workers, at[w] # "idle", NEW how \in Answers, ReturnWith(w, how),
           \/ how = "failed" /\ UNCHANGED HeldKeys
           \/ /\ how = "have" /\ job[w].op \in {"ensure", "save", "raw"}
              /\ HeldKeys' = HeldKeys \cup {Key(w)}
           \/ /\ how = "gone" /\ UNCHANGED HeldKeys
              /\ \/ job[w].op = "sweep" \/ at[w] = "unname"
                 \/ job[w].op = "remove" /\ Key(w) \notin HeldKeys
    PROVE  Atomic!StoreNext
  <1>1. /\ AllCalls[w] # StoreIdle /\ AllCalls[w].op = job[w].op /\ AllCalls[w].key = Key(w)
        /\ AllCalls[w].done <=> at[w] = "unname"
    BY CallIsJob
  <1>2. Atomic!Return(w, how)
    BY ReturnIsReturn DEF Atomic!Return
  <1>3. CASE how = "failed" /\ UNCHANGED HeldKeys
    BY <1>1, <1>2, <1>3 DEF Atomic!Fail, Atomic!StoreNext
  <1>4. CASE /\ how = "have" /\ job[w].op \in {"ensure", "save", "raw"}
             /\ HeldKeys' = HeldKeys \cup {Key(w)}
    BY <1>1, <1>2, <1>4 DEF Atomic!Have, Atomic!StoreNext
  <1>5. CASE how = "gone" /\ UNCHANGED HeldKeys /\ job[w].op = "sweep"
    BY <1>1, <1>2, <1>5 DEF Atomic!Swept, Atomic!StoreNext
  <1>6. CASE how = "gone" /\ UNCHANGED HeldKeys /\ at[w] = "unname"
    <2>1. Atomic!Gone(w)
      BY <1>1, <1>2, <1>6 DEF Atomic!Gone
    <2> QED BY <2>1 DEF Atomic!StoreNext
  <1>7. CASE /\ how = "gone" /\ UNCHANGED HeldKeys
             /\ job[w].op = "remove" /\ Key(w) \notin HeldKeys
    BY <1>1, <1>2, <1>7 DEF Atomic!Absent, Atomic!StoreNext
  <1> QED BY <1>3, <1>4, <1>5, <1>6, <1>7

\* A removal takes effect once its directory is gone.
LEMMA RefinedTake ==
    ASSUME LockInv, NEW w \in Workers, Step(w, "unname"), at[w] \notin {"idle", "unname"},
           job[w].op = "remove", HeldKeys' = HeldKeys \ {Key(w)}, UNCHANGED <<job, ended>>
    PROVE  Atomic!StoreNext
  <1>1. /\ AllCalls[w] # StoreIdle /\ AllCalls[w].op = job[w].op /\ AllCalls[w].key = Key(w)
        /\ AllCalls[w].done <=> at[w] = "unname"
    BY CallIsJob
  <1>2. AllCalls' = [AllCalls EXCEPT ![w].done = TRUE]
    BY TakenStep
  <1>3. Atomic!Take(w)
    BY <1>1, <1>2 DEF Atomic!Take
  <1> QED BY <1>3 DEF Atomic!StoreNext

LEMMA RefinedCall == ASSUME LockInv, NEW w \in Workers, Call(w) PROVE Atomic!StoreNext
  <1>0. Shapes
    BY ShapesOK
  <1>1. PICK op \in Ops, k \in EntryNames :
             /\ job' = [job EXCEPT ![w] = [op |-> op, key |-> k]]
             /\ at' = [at EXCEPT ![w] = IF op = "sweep" THEN "sweep" ELSE "check"]
    BY DEF Call, Step
  <1>2. /\ at'[w] \in {"sweep", "check"} /\ job'[w] = [op |-> op, key |-> k]
        /\ \A v \in Workers : v # w => at'[v] = at[v] /\ job'[v] = job[v]
    BY <1>0, <1>1 DEF Shapes
  <1>3. CallOf(w)' = [op |-> op, key |-> k, done |-> FALSE]
    <2>1. CallOf(w)' = [op |-> op, key |-> k, done |-> at'[w] = "unname"]
      BY <1>2 DEF CallOf
    <2>2. (at'[w] = "unname") = FALSE
      BY <1>2
    <2> QED BY <2>1, <2>2
  <1>4. \A v \in Workers : v # w => CallOf(v)' = CallOf(v)
    BY <1>2 DEF CallOf
  <1>5. AllCalls' = [AllCalls EXCEPT ![w] = [op |-> op, key |-> k, done |-> FALSE]]
    BY <1>3, <1>4 DEF AllCalls
  <1>6. AllCalls[w] = StoreIdle
    BY DEF Call, AllCalls, CallOf
  <1>7. UNCHANGED HeldKeys /\ ended' = [ended EXCEPT ![w] = "none"]
    BY DEF Call, HeldKeys
  <1>8. Atomic!Invoke(w)
    BY <1>5, <1>6, <1>7 DEF Atomic!Invoke, Ops
  <1> QED BY <1>8 DEF Atomic!StoreNext

\* Steps inside a call: hidden, its effect, or its end.
LEMMA RefinedWork ==
    ASSUME LockInv, NEW w \in Workers, Work(w) \/ CrashCall(w)
    PROVE  Refined
  <1>0. Shapes /\ at[w] # "idle"
    BY ShapesOK DEF Work, CrashCall, Check, OpenLock, Lock, LockFails, Recheck, Extract, CopyKegIn,
                    StageRaw, Filled, FillFails, Rename, EndRemove, RemoveFails, Unname, Sweep
  <1>1. job[w] \in Job /\ Key(w) \in EntryNames
    BY <1>0, CallIsJob DEF LockInv, CallFits
  <1>2. Exists(w) <=> Key(w) \in HeldKeys
    BY <1>1 DEF Exists, HeldKeys
  <1>3. UNCHANGED entry => UNCHANGED HeldKeys
    BY DEF HeldKeys
  <1>4. CASE Check(w)
    <2>0. job[w].op # "sweep" /\ at[w] = "check" /\ UNCHANGED HeldKeys
      BY <1>0, <1>3, <1>4 DEF Check, LockInv, CallFits
    <2>1. CASE Exists(w) /\ job[w].op # "remove" /\ ReturnWith(w, "have")
      <3>1. HeldKeys' = HeldKeys \cup {Key(w)}
        BY <2>0, <2>1, <1>2
      <3>2. job[w].op \in {"ensure", "save", "raw"}
        BY <2>0, <2>1, <1>1 DEF Job, Ops
      <3> QED BY <1>0, <2>1, <3>1, <3>2, RefinedReturn DEF Refined, Answers
    <2>2. CASE ~Exists(w) /\ job[w].op = "remove" /\ ReturnWith(w, "gone")
      BY <1>0, <1>2, <2>0, <2>2, RefinedReturn DEF Refined, Answers
    <2>3. CASE (Step(w, "open") \/ Step(w, "fill")) /\ UNCHANGED <<job, ended>>
      BY <2>0, <2>3, HiddenStep DEF Refined, LockSteps
    <2> QED BY <1>4, <2>1, <2>2, <2>3 DEF Check
  <1>5. CASE OpenLock(w) \/ Lock(w)
    <2>1. /\ at[w] \in {"open", "wait"}
          /\ Step(w, "wait") \/ Step(w, "recheck")
          /\ UNCHANGED <<entry, job, ended>>
      BY <1>5, Zenon DEF OpenLock, Lock
    <2> QED BY <1>3, <2>1, HiddenStep DEF Refined, LockSteps
  <1>6. CASE LockFails(w) \/ FillFails(w) \/ RemoveFails(w) \/ CrashCall(w)
    <2>1. ReturnWith(w, "failed") /\ UNCHANGED entry
      BY <1>6, Zenon DEF LockFails, FillFails, RemoveFails, CrashCall
    <2> QED BY <1>0, <1>3, <2>1, RefinedReturn DEF Refined, Answers
  <1>7. CASE Recheck(w)
    <2>0. job[w].op # "sweep" /\ at[w] = "recheck"
      BY <1>7 DEF Recheck, LockInv, CallFits
    <2>1. CASE job[w].op # "remove" /\ Exists(w) /\ ReturnWith(w, "have") /\ UNCHANGED entry
      <3>1. HeldKeys' = HeldKeys \cup {Key(w)}
        BY <1>2, <1>3, <2>1
      <3>2. job[w].op \in {"ensure", "save", "raw"}
        BY <2>0, <2>1, <1>1 DEF Job, Ops
      <3> QED BY <1>0, <2>1, <3>1, <3>2, RefinedReturn DEF Refined, Answers
    <2>2. CASE Step(w, "fill") /\ UNCHANGED <<entry, job, ended>>
      BY <1>3, <2>0, <2>2, HiddenStep DEF Refined, LockSteps
    <2>3. CASE /\ Exists(w) /\ entry' = [entry EXCEPT ![Key(w)] = "part"]
               /\ Step(w, "removing") /\ UNCHANGED <<job, ended>>
      <3>1. UNCHANGED HeldKeys
        BY <1>0, <1>1, <2>3 DEF HeldKeys, Exists, Shapes
      <3> QED BY <2>0, <2>3, <3>1, HiddenStep DEF Refined, LockSteps
    <2>4. CASE /\ job[w].op = "remove" /\ ~Exists(w) /\ Step(w, "unname")
               /\ UNCHANGED <<entry, job, ended>>
      <3>1. HeldKeys' = HeldKeys \ {Key(w)}
        BY <1>2, <1>3, <2>4
      <3> QED BY <2>0, <2>4, <3>1, RefinedTake DEF Refined
    <2> QED BY <1>7, <2>1, <2>2, <2>3, <2>4 DEF Recheck
  <1>8. CASE Extract(w) \/ CopyKegIn(w) \/ StageRaw(w)
    <2>1. at[w] = "fill" /\ Step(w, "rename") /\ UNCHANGED <<entry, job, ended>>
      BY <1>8, Zenon DEF Extract, CopyKegIn, StageRaw, Filled
    <2> QED BY <1>3, <2>1, HiddenStep DEF Refined, LockSteps
  <1>9. CASE Rename(w)
    <2>0. job[w].op \in {"ensure", "save", "raw"}
      BY <1>9 DEF Rename, LockInv, CallFits
    <2>1. CASE /\ entry' = [entry EXCEPT ![Key(w)] = IF tmp[w] = "full" THEN "whole" ELSE "part"]
               /\ ReturnWith(w, "have")
      <3>1. HeldKeys' = HeldKeys \cup {Key(w)}
        BY <1>0, <1>1, <2>1 DEF HeldKeys, Shapes
      <3> QED BY <1>0, <2>0, <2>1, <3>1, RefinedReturn DEF Refined, Answers
    <2>2. CASE Exists(w) /\ ReturnWith(w, "have") /\ UNCHANGED entry
      <3>1. HeldKeys' = HeldKeys \cup {Key(w)}
        BY <1>2, <1>3, <2>2
      <3> QED BY <1>0, <2>0, <2>2, <3>1, RefinedReturn DEF Refined, Answers
    <2>3. CASE ReturnWith(w, "failed") /\ UNCHANGED entry
      BY <1>0, <1>3, <2>3, RefinedReturn DEF Refined, Answers
    <2> QED BY <1>9, <2>1, <2>2, <2>3 DEF Rename
  <1>10. CASE EndRemove(w)
    <2>1. /\ at[w] = "removing" /\ job[w].op = "remove" /\ Step(w, "unname")
          /\ UNCHANGED <<job, ended>> /\ HeldKeys' = HeldKeys \ {Key(w)}
      BY <1>0, <1>1, <1>10 DEF EndRemove, LockInv, CallFits, HeldKeys, Shapes
    <2> QED BY <2>1, RefinedTake DEF Refined
  <1>11. CASE Unname(w)
    BY <1>0, <1>3, <1>11, RefinedReturn DEF Unname, Refined, Answers
  <1>12. CASE Sweep(w)
    <2>1. job[w].op = "sweep" /\ ReturnWith(w, "gone") /\ UNCHANGED entry
      BY <1>12 DEF Sweep, LockInv, CallFits
    <2> QED BY <1>0, <1>3, <2>1, RefinedReturn DEF Refined, Answers
  <1> QED BY <1>4, <1>5, <1>6, <1>7, <1>8, <1>9, <1>10, <1>11, <1>12 DEF Work

\* Whatever a step puts under a name is whole, unless repair has swept.
LEMMA Appears == ASSUME LockInv, [StoreLockNext]_lockVars PROVE [AppearsWhole]_lockVars
  <1> SUFFICES ASSUME NEW w \in Workers, Call(w) \/ Work(w) \/ CrashCall(w), NEW k \in EntryNames,
                      entry[k] = "none", entry'[k] # "none"
               PROVE  entry'[k] = "whole" \/ swept
    BY DEF StoreLockNext, AppearsWhole
  <1>0. Shapes
    BY ShapesOK
  <1>1. CASE Rename(w)
    <2>1. tmp[w] = "torn" => swept
      BY DEF LockInv, TmpFits
    <2> QED BY <1>0, <1>1, <2>1 DEF Rename, Shapes
  <1>2. CASE Recheck(w)
    BY <1>0, <1>2 DEF Recheck, Exists, Shapes
  <1>3. CASE EndRemove(w)
    BY <1>0, <1>3 DEF EndRemove, Shapes
  <1>4. CASE ~(Rename(w) \/ Recheck(w) \/ EndRemove(w))
    BY <1>4 DEF Work, Call, CrashCall, Check, OpenLock, Lock, LockFails, Extract, CopyKegIn,
                StageRaw, Filled, FillFails, RemoveFails, Unname, Sweep
  <1> QED BY <1>1, <1>2, <1>3, <1>4

\* ensure_entry, save_relocated_entry, remove_entry and the raw entries of casks act at
\* one instant, for any workers that call, fail, crash and sweep; what appears is whole.
THEOREM StoreRefines == StoreLockSpec => StoreIsAtomic
  <1>1. StoreLockInit => Atomic!StoreInit
    BY DEF StoreLockInit, Atomic!StoreInit, HeldKeys, AllCalls, CallOf
  <1>2. LockInv /\ [StoreLockNext]_lockVars => [Atomic!StoreNext]_(Atomic!storeVars)
    <2>1. ASSUME UNCHANGED lockVars PROVE UNCHANGED <<HeldKeys, AllCalls, ended>>
      BY <2>1 DEF lockVars, HeldKeys, AllCalls, CallOf
    <2> QED BY <2>1, RefinedCall, RefinedWork DEF StoreLockNext, Refined, Atomic!storeVars
  <1>3. LockInv /\ [StoreLockNext]_lockVars => [AppearsWhole]_lockVars
    BY Appears
  <1> QED BY <1>1, <1>2, <1>3, Invariance, PTL
          DEF StoreLockSpec, StoreIsAtomic, Atomic!StoreSpec
=============================================================================
