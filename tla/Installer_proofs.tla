-------------------------- MODULE Installer_proofs --------------------------
(***************************************************************************)
(* Proofs about the package database and the processes of module Installer *)
(* that use it, for every number of processes, names, versions and keys.   *)
(*                                                                         *)
(* The database by itself: its types, and that every transaction changes   *)
(* the count of a store key exactly as it changes the set of rows that use *)
(* the key (LedgerCorrect).                                                *)
(*                                                                         *)
(* Any processes: type correctness, and mutual exclusion by                *)
(* locks/install.lock.  Both rest on one fact that is not a type: at the   *)
(* steps that use it, a process's target names a package and a keg         *)
(* (TargetOK).  The actions are grouped as in the module; each group has a *)
(* lemma for the types, one for the lock and one for the targets.          *)
(*                                                                         *)
(* Commands that do not overlap: what the counts of the store              *)
(* (RefsCorrect, RemovalCorrect), the rows and kegs (KegsCorrect) and      *)
(* doctor --repair (RepairCorrect) promise, through any failures and       *)
(* crashes the theorem allows, and that the commands together implement    *)
(* PackageManager (CommandsRefine).  (With overlapping commands gc removes *)
(* entries that are in use: run gc_races_install.)  None is inductive by   *)
(* itself.  gc acts on keys it read earlier, repair on a report and on     *)
(* rows it read earlier, an install on a plan: so each invariant says what *)
(* is still true of what the one process that moves has read or planned,   *)
(* for its own steps do not spoil it and no other process has moved        *)
(* meanwhile (AtMostOne).  They build on each other: SerialInv for the     *)
(* counts, KegsInv and RepairInv with more about the process that moves.   *)
(***************************************************************************)
EXTENDS Installer, FiniteSetTheorems, TLAPS

-----------------------------------------------------------------------------
(* The package database.                                                   *)

Tables == [Names -> Rows \cup {NoRow}]

-----------------------------------------------------------------------------
(* Types.                                                                  *)

\* The row of a name has a version and a key, or is NoRow.
LEMMA RowTypes ==
    ASSUME NEW inst \in Tables, NEW n \in Names
    PROVE  /\ inst[n] \in Rows \cup {NoRow}
           /\ inst[n].version \in Versions \cup {NoVersion}
           /\ inst[n].key \in Keys \cup {NoKey}
  BY DEF Tables, Rows, NoRow

\* The rows that use a key form a finite set, so its cardinality is a number.
LEMMA UsersFinite ==
    ASSUME NEW inst, NEW k
    PROVE  /\ IsFiniteSet(UsersIn(inst, k))
           /\ Cardinality(UsersIn(inst, k)) \in Nat
  <1>1. UsersIn(inst, k) \in SUBSET Names
    BY DEF UsersIn
  <1>2. IsFiniteSet(UsersIn(inst, k))
    BY <1>1, DbAssumption, FS_Subset DEF DbAssumption
  <1> QED BY <1>2, FS_CardinalityType

LEMMA RecordInstallType ==
    ASSUME DbTypeOK, NEW n \in Names, NEW v \in Versions, NEW k \in Keys,
           RecordInstall(n, v, k)
    PROVE  DbTypeOK'
  <1>1. [version |-> v, key |-> k] \in Rows
    BY DEF Rows
  <1>2. installed' \in [Names -> Rows \cup {NoRow}]
    BY <1>1 DEF RecordInstall, DbTypeOK
  <1>3. refKeys' \in SUBSET Keys /\ refcount' \in [Keys -> Int]
    BY DEF RecordInstall, DbTypeOK
  <1>4. kegFiles' \in [Names -> Versions \cup {NoVersion}]
    BY DEF RecordInstall, DbTypeOK
  <1> QED BY <1>2, <1>3, <1>4 DEF DbTypeOK

LEMMA RecordUninstallType ==
    ASSUME DbTypeOK, NEW n \in Names, RecordUninstall(n)
    PROVE  DbTypeOK'
  BY DEF RecordUninstall, DbTypeOK

LEMMA DeleteInstalledRecordType ==
    ASSUME DbTypeOK, NEW n \in Names, DeleteInstalledRecord(n)
    PROVE  DbTypeOK'
  BY DEF DeleteInstalledRecord, DbTypeOK

LEMMA RecordLinkedFileType ==
    ASSUME DbTypeOK, NEW n \in Names, NEW v \in Versions, RecordLinkedFile(n, v)
    PROVE  DbTypeOK'
  BY DEF RecordLinkedFile, DbTypeOK

LEMMA ClearKegFileRecordsType ==
    ASSUME DbTypeOK, NEW n \in Names, ClearKegFileRecords(n)
    PROVE  DbTypeOK'
  BY DEF ClearKegFileRecords, DbTypeOK

LEMMA DeleteStoreRefType ==
    ASSUME DbTypeOK, NEW k \in Keys, DeleteStoreRef(k)
    PROVE  DbTypeOK'
  BY DEF DeleteStoreRef, DbTypeOK

LEMMA ReplaceStoreRefsType ==
    ASSUME DbTypeOK, NEW inst \in Tables, ReplaceStoreRefs(inst)
    PROVE  DbTypeOK'
  <1>1. refcount' \in [Keys -> Int]
    BY UsersFinite DEF ReplaceStoreRefs
  <1> QED BY <1>1 DEF ReplaceStoreRefs, DbTypeOK

LEMMA PruneType ==
    ASSUME DbTypeOK, PruneStaleKegFileRecords
    PROVE  DbTypeOK'
  BY DEF PruneStaleKegFileRecords, DbTypeOK

LEMMA DbInitType == DbInit => DbTypeOK
  BY DEF DbInit, DbTypeOK

LEMMA DbStutterType == DbTypeOK /\ UNCHANGED dbVars => DbTypeOK'
  BY DEF DbTypeOK, dbVars

-----------------------------------------------------------------------------
(* Counts.                                                                 *)

\* Writing the row of one name adds the name to the users of the new key and
\* takes it from the users of the old one.
LEMMA SetRowCounts ==
    ASSUME NEW inst, NEW after, NEW n \in Names, NEW x \in Keys,
           \A m \in Names \ {n} : after[m] = inst[m]
    PROVE  Cardinality(UsersIn(after, x)) =
               IF inst[n].key = x
               THEN IF after[n].key = x THEN Cardinality(UsersIn(inst, x))
                                        ELSE Cardinality(UsersIn(inst, x)) - 1
               ELSE IF after[n].key = x THEN Cardinality(UsersIn(inst, x)) + 1
                                        ELSE Cardinality(UsersIn(inst, x))
  <1>f. IsFiniteSet(UsersIn(inst, x))
    BY UsersFinite
  <1>1. CASE inst[n].key = x /\ after[n].key = x
    <2>1. UsersIn(after, x) = UsersIn(inst, x)
      BY <1>1 DEF UsersIn
    <2> QED BY <2>1, <1>1
  <1>2. CASE inst[n].key = x /\ after[n].key # x
    <2>1. UsersIn(after, x) = UsersIn(inst, x) \ {n} /\ n \in UsersIn(inst, x)
      BY <1>2 DEF UsersIn
    <2>2. Cardinality(UsersIn(after, x)) = Cardinality(UsersIn(inst, x)) - 1
      BY <2>1, <1>f, FS_RemoveElement
    <2> QED BY <2>2, <1>2
  <1>3. CASE inst[n].key # x /\ after[n].key = x
    <2>1. UsersIn(after, x) = UsersIn(inst, x) \cup {n} /\ n \notin UsersIn(inst, x)
      BY <1>3 DEF UsersIn
    <2>2. Cardinality(UsersIn(after, x)) = Cardinality(UsersIn(inst, x)) + 1
      BY <2>1, <1>f, FS_AddElement
    <2> QED BY <2>2, <1>3
  <1>4. CASE inst[n].key # x /\ after[n].key # x
    <2>1. UsersIn(after, x) = UsersIn(inst, x)
      BY <1>4 DEF UsersIn
    <2> QED BY <2>1, <1>4
  <1> QED BY <1>1, <1>2, <1>3, <1>4

\* The same for the table of the database and its next value.
LEMMA InstalledRowCounts ==
    ASSUME NEW n \in Names, NEW x \in Keys,
           \A m \in Names \ {n} : installed'[m] = installed[m]
    PROVE  Cardinality(Users(x)') =
               IF installed[n].key = x
               THEN IF installed'[n].key = x THEN Cardinality(Users(x))
                                             ELSE Cardinality(Users(x)) - 1
               ELSE IF installed'[n].key = x THEN Cardinality(Users(x)) + 1
                                             ELSE Cardinality(Users(x))
  <1>1. Users(x)' = UsersIn(installed', x) /\ Users(x) = UsersIn(installed, x)
    BY DEF Users, UsersIn
  <1>2. Cardinality(UsersIn(installed', x)) =
               IF installed[n].key = x
               THEN IF installed'[n].key = x THEN Cardinality(UsersIn(installed, x))
                    ELSE Cardinality(UsersIn(installed, x)) - 1
               ELSE IF installed'[n].key = x
                    THEN Cardinality(UsersIn(installed, x)) + 1
                    ELSE Cardinality(UsersIn(installed, x))
    BY SetRowCounts
  <1> QED BY <1>1, <1>2

\* The references no installed row explains: counted, but not used.
Surplus(x) == refcount[x] - Cardinality(Users(x))

\* record_install leaves the surplus of every key as it is, provided that the
\* UPDATE that releases the previous key finds a row.
LEMMA RecordInstallBalance ==
    ASSUME DbTypeOK, UsedKeysHaveRows, NEW n \in Names, NEW v \in Versions,
           NEW k \in Keys, RecordInstall(n, v, k), NEW x \in Keys
    PROVE  Surplus(x)' = Surplus(x)
  <1> DEFINE prev == installed[n].key
  <1>1. installed'[n].key = k /\ \A m \in Names \ {n} : installed'[m] = installed[m]
    BY DEF RecordInstall, DbTypeOK
  <1>2. Cardinality(Users(x)') =
            IF prev = x THEN IF k = x THEN Cardinality(Users(x))
                                      ELSE Cardinality(Users(x)) - 1
                        ELSE IF k = x THEN Cardinality(Users(x)) + 1
                                      ELSE Cardinality(Users(x))
    BY <1>1, InstalledRowCounts
  <1>3. prev = x => x \in refKeys
    BY DEF UsedKeysHaveRows, Users, UsersIn
  <1>4. refcount'[x] = IF prev = x THEN IF k = x THEN refcount[x]
                                                 ELSE refcount[x] - 1
                                   ELSE IF k = x THEN refcount[x] + 1
                                                 ELSE refcount[x]
    BY <1>3 DEF RecordInstall, DbTypeOK
  <1>5. Cardinality(Users(x)) \in Nat /\ refcount[x] \in Int
    BY UsersFinite DEF Users, DbTypeOK
  <1> QED BY <1>2, <1>4, <1>5 DEF Surplus

\* record_uninstall leaves the surplus of every key as it is.
LEMMA RecordUninstallBalance ==
    ASSUME DbTypeOK, UsedKeysHaveRows, NEW n \in Names, RecordUninstall(n),
           NEW x \in Keys
    PROVE  Surplus(x)' = Surplus(x)
  <1>0. NoRow.key # x
    BY DbAssumption DEF NoRow, DbAssumption
  <1>1. installed'[n] = NoRow /\ \A m \in Names \ {n} : installed'[m] = installed[m]
    BY DEF RecordUninstall, DbTypeOK
  <1>2. Cardinality(Users(x)') =
            IF installed[n].key = x THEN Cardinality(Users(x)) - 1
                                    ELSE Cardinality(Users(x))
    BY <1>0, <1>1, InstalledRowCounts
  <1>3. installed[n].key = x => x \in refKeys
    BY DEF UsedKeysHaveRows, Users, UsersIn
  <1>4. refcount'[x] = IF installed[n].key = x THEN refcount[x] - 1
                                               ELSE refcount[x]
    BY <1>3 DEF RecordUninstall, DbTypeOK
  <1>5. Cardinality(Users(x)) \in Nat /\ refcount[x] \in Int
    BY UsersFinite DEF Users, DbTypeOK
  <1> QED BY <1>2, <1>4, <1>5 DEF Surplus

\* delete_installed_record can only add to the surplus of a key.
LEMMA DeleteInstalledRecordSurplus ==
    ASSUME DbTypeOK, NEW n \in Names, DeleteInstalledRecord(n), NEW x \in Keys
    PROVE  Surplus(x)' >= Surplus(x)
  <1>0. NoRow.key # x
    BY DbAssumption DEF NoRow, DbAssumption
  <1>1. /\ installed'[n] = NoRow /\ refcount' = refcount
        /\ \A m \in Names \ {n} : installed'[m] = installed[m]
    BY DEF DeleteInstalledRecord, DbTypeOK
  <1>2. Cardinality(Users(x)') =
            IF installed[n].key = x THEN Cardinality(Users(x)) - 1
                                    ELSE Cardinality(Users(x))
    BY <1>0, <1>1, InstalledRowCounts
  <1>5. Cardinality(Users(x)) \in Nat /\ refcount[x] \in Int
    BY UsersFinite DEF Users, DbTypeOK
  <1> QED BY <1>1, <1>2, <1>5 DEF Surplus

\* A count in store_refs that replace_store_refs derived from the installed
\* rows has no surplus.
LEMMA ReplaceStoreRefsExact ==
    ASSUME ReplaceStoreRefs(installed), NEW x \in Keys
    PROVE  Surplus(x)' = 0
  <1>1. refcount'[x] = Cardinality(Users(x)) /\ installed' = installed
    BY DEF ReplaceStoreRefs, Users
  <1>2. Users(x)' = Users(x)
    BY <1>1 DEF Users, UsersIn
  <1>3. Cardinality(Users(x)) \in Nat
    BY UsersFinite DEF Users
  <1> QED BY <1>1, <1>2, <1>3 DEF Surplus

\* Deleting the reference of a key nobody uses: its surplus is 0, that of the
\* other keys stays.
LEMMA DeleteStoreRefSurplus ==
    ASSUME DbTypeOK, NEW k \in Keys, Users(k) = {}, DeleteStoreRef(k), NEW x \in Keys
    PROVE  Surplus(x)' = IF x = k THEN 0 ELSE Surplus(x)
  <1>1. /\ installed' = installed
        /\ refcount'[x] = IF x = k THEN 0 ELSE refcount[x]
    BY DEF DeleteStoreRef, DbTypeOK
  <1>2. Users(x)' = Users(x) /\ (x = k => Cardinality(Users(x)) = 0)
    BY <1>1, FS_EmptySet DEF Users, UsersIn
  <1> QED BY <1>1, <1>2 DEF Surplus

\* A key whose count covers its users and is not positive has no user.
LEMMA UnreferencedUnused ==
    ASSUME DbTypeOK, NEW k \in Keys, Surplus(k) >= 0, refcount[k] <= 0
    PROVE  Users(k) = {}
  <1>1. IsFiniteSet(Users(k)) /\ Cardinality(Users(k)) \in Nat
    BY UsersFinite DEF Users
  <1>2. Cardinality(Users(k)) = 0
    BY <1>1 DEF Surplus, DbTypeOK
  <1> QED BY <1>1, <1>2, FS_EmptySet

-----------------------------------------------------------------------------
(* Rows of store_refs.                                                     *)

LEMMA RecordInstallKeepsRows ==
    ASSUME DbTypeOK, UsedKeysHaveRows, NEW n \in Names, NEW v \in Versions,
           NEW k \in Keys, RecordInstall(n, v, k)
    PROVE  UsedKeysHaveRows'
  <1> SUFFICES ASSUME NEW x \in Keys, x \notin refKeys'
               PROVE  Users(x)' = {} /\ refcount'[x] = 0
    BY DEF UsedKeysHaveRows
  <1>1. x \notin refKeys /\ x # k
    <2>1. refKeys' = refKeys \cup {k} \/ (refKeys' = refKeys /\ installed[n].key = k)
      BY DEF RecordInstall
    <2>2. installed[n].key = k => k \in refKeys
      BY DEF UsedKeysHaveRows, Users, UsersIn
    <2> QED BY <2>1, <2>2
  <1>2. Users(x) = {} /\ refcount[x] = 0
    BY <1>1 DEF UsedKeysHaveRows
  <1>3. \A m \in Names : installed'[m] = installed[m] \/ installed'[m].key = k
    BY DEF RecordInstall, DbTypeOK
  <1>4. Users(x)' = {}
    BY <1>1, <1>2, <1>3 DEF Users, UsersIn
  <1>5. refcount'[x] = 0
    BY <1>1, <1>2 DEF RecordInstall
  <1> QED BY <1>4, <1>5

LEMMA RecordUninstallKeepsRows ==
    ASSUME DbTypeOK, UsedKeysHaveRows, NEW n \in Names, RecordUninstall(n)
    PROVE  UsedKeysHaveRows'
  <1> SUFFICES ASSUME NEW x \in Keys, x \notin refKeys'
               PROVE  Users(x)' = {} /\ refcount'[x] = 0
    BY DEF UsedKeysHaveRows
  <1>1. x \notin refKeys
    BY DEF RecordUninstall
  <1>2. Users(x) = {} /\ refcount[x] = 0
    BY <1>1 DEF UsedKeysHaveRows
  <1>3. \A m \in Names : installed'[m] = installed[m] \/ installed'[m].key # x
    BY DbAssumption DEF RecordUninstall, DbTypeOK, NoRow, DbAssumption
  <1>4. Users(x)' = {}
    BY <1>2, <1>3 DEF Users, UsersIn
  <1>5. refcount'[x] = 0
    BY <1>1, <1>2 DEF RecordUninstall
  <1> QED BY <1>4, <1>5

LEMMA DeleteInstalledRecordKeepsRows ==
    ASSUME DbTypeOK, UsedKeysHaveRows, NEW n \in Names, DeleteInstalledRecord(n)
    PROVE  UsedKeysHaveRows'
  <1> SUFFICES ASSUME NEW x \in Keys, x \notin refKeys'
               PROVE  Users(x)' = {} /\ refcount'[x] = 0
    BY DEF UsedKeysHaveRows
  <1>1. x \notin refKeys /\ refcount'[x] = refcount[x]
    BY DEF DeleteInstalledRecord
  <1>2. Users(x) = {} /\ refcount[x] = 0
    BY <1>1 DEF UsedKeysHaveRows
  <1>3. \A m \in Names : installed'[m] = installed[m] \/ installed'[m].key # x
    BY DbAssumption DEF DeleteInstalledRecord, DbTypeOK, NoRow, DbAssumption
  <1>4. Users(x)' = {}
    BY <1>2, <1>3 DEF Users, UsersIn
  <1> QED BY <1>1, <1>2, <1>4

LEMMA DeleteStoreRefKeepsRows ==
    ASSUME DbTypeOK, UsedKeysHaveRows, NEW k \in Keys, Users(k) = {}, DeleteStoreRef(k)
    PROVE  UsedKeysHaveRows'
  <1> SUFFICES ASSUME NEW x \in Keys, x \notin refKeys'
               PROVE  Users(x)' = {} /\ refcount'[x] = 0
    BY DEF UsedKeysHaveRows
  <1>1. Users(x)' = Users(x)
    BY DEF DeleteStoreRef, Users, UsersIn
  <1>2. CASE x = k
    BY <1>1, <1>2 DEF DeleteStoreRef, DbTypeOK
  <1>3. CASE x # k
    BY <1>1, <1>3 DEF DeleteStoreRef, DbTypeOK, UsedKeysHaveRows
  <1> QED BY <1>2, <1>3

LEMMA ReplaceStoreRefsHasRows ==
    ASSUME ReplaceStoreRefs(installed)
    PROVE  UsedKeysHaveRows'
  <1> SUFFICES ASSUME NEW x \in Keys, x \notin refKeys'
               PROVE  Users(x)' = {} /\ refcount'[x] = 0
    BY DEF UsedKeysHaveRows
  <1>1. UsersIn(installed, x) = {}
    BY DEF ReplaceStoreRefs
  <1>2. Users(x)' = {}
    BY <1>1 DEF ReplaceStoreRefs, Users, UsersIn
  <1> QED BY <1>1, <1>2, FS_EmptySet DEF ReplaceStoreRefs

\* The counts and the rows depend on these three tables only.
LEMMA CountsFrame ==
    ASSUME UNCHANGED <<installed, refKeys, refcount>>
    PROVE  /\ \A x \in Keys : Surplus(x)' = Surplus(x)
           /\ UsedKeysHaveRows => UsedKeysHaveRows'
  BY DEF Surplus, Users, UsersIn, UsedKeysHaveRows

-----------------------------------------------------------------------------
(* Theorems.                                                               *)

\* Every transaction leaves tables that have their types.
THEOREM DbTypeCorrect == DbSpec => []DbTypeOK
  <1>1. DbInit => DbTypeOK
    BY DbInitType
  <1>2. DbTypeOK /\ [DbNext]_dbVars => DbTypeOK'
    <2> SUFFICES ASSUME DbTypeOK, [DbNext]_dbVars
                 PROVE  DbTypeOK'
      OBVIOUS
    <2>1. ASSUME NEW n \in Names, NEW v \in Versions, NEW k \in Keys,
                 RecordInstall(n, v, k)
          PROVE  DbTypeOK'
      BY <2>1, RecordInstallType
    <2>2. ASSUME NEW n \in Names, RecordUninstall(n)
          PROVE  DbTypeOK'
      BY <2>2, RecordUninstallType
    <2>3. ASSUME NEW n \in Names, installed[n] # NoRow,
                 RecordLinkedFile(n, installed[n].version)
          PROVE  DbTypeOK'
      <3>1. installed[n].version \in Versions
        BY <2>3 DEF DbTypeOK, Rows
      <3> QED BY <2>3, <3>1, RecordLinkedFileType
    <2>4. ASSUME NEW n \in Names, ClearKegFileRecords(n)
          PROVE  DbTypeOK'
      BY <2>4, ClearKegFileRecordsType
    <2>5. ASSUME NEW k \in UnreferencedStoreKeys, DeleteStoreRef(k)
          PROVE  DbTypeOK'
      BY <2>5, DeleteStoreRefType DEF UnreferencedStoreKeys, DbTypeOK
    <2>6. CASE ReplaceStoreRefs(installed)
      BY <2>6, ReplaceStoreRefsType DEF DbTypeOK, Tables
    <2>7. CASE PruneStaleKegFileRecords
      BY <2>7, PruneType
    <2>8. CASE UNCHANGED dbVars
      BY <2>8, DbStutterType
    <2> QED BY <2>1, <2>2, <2>3, <2>4, <2>5, <2>6, <2>7, <2>8 DEF DbNext
  <1> QED BY <1>1, <1>2, PTL DEF DbSpec

\* The inductive invariant of the database: the counts are exact, and the
\* transactions that update a count find its row.
Ledger == DbTypeOK /\ RefsExact /\ UsedKeysHaveRows

\* RefsExact in terms of the surplus.
LEMMA ExactIsNoSurplus ==
    ASSUME DbTypeOK
    PROVE  RefsExact <=> \A x \in Keys : Surplus(x) = 0
  <1>1. \A x \in Keys : refcount[x] \in Int /\ Cardinality(Users(x)) \in Nat
    BY UsersFinite DEF DbTypeOK, Users
  <1> QED BY <1>1 DEF RefsExact, Surplus

LEMMA LedgerInit == DbInit => Ledger
  <1> SUFFICES ASSUME DbInit
               PROVE  Ledger
    OBVIOUS
  <1>1. \A k \in Keys : Users(k) = {}
    BY DbAssumption DEF DbInit, Users, UsersIn, NoRow, DbAssumption
  <1>2. RefsExact /\ UsedKeysHaveRows
    BY <1>1, FS_EmptySet DEF DbInit, RefsExact, UsedKeysHaveRows
  <1> QED BY <1>2, DbInitType DEF Ledger

LEMMA LedgerStep == Ledger /\ DbTypeOK' /\ [DbNext]_dbVars => Ledger'
  <1> SUFFICES ASSUME Ledger, DbTypeOK', [DbNext]_dbVars
               PROVE  Ledger'
    OBVIOUS
  <1> USE DEF Ledger
  <1>0. \A x \in Keys : Surplus(x) = 0
    BY ExactIsNoSurplus
  <1>1. ASSUME NEW n \in Names, NEW v \in Versions, NEW k \in Keys,
               RecordInstall(n, v, k)
        PROVE  (\A x \in Keys : Surplus(x)' = 0) /\ UsedKeysHaveRows'
    BY <1>0, <1>1, RecordInstallBalance, RecordInstallKeepsRows
  <1>2. ASSUME NEW n \in Names, RecordUninstall(n)
        PROVE  (\A x \in Keys : Surplus(x)' = 0) /\ UsedKeysHaveRows'
    BY <1>0, <1>2, RecordUninstallBalance, RecordUninstallKeepsRows
  <1>3. ASSUME NEW k \in UnreferencedStoreKeys, DeleteStoreRef(k)
        PROVE  (\A x \in Keys : Surplus(x)' = 0) /\ UsedKeysHaveRows'
    <2>1. k \in Keys /\ refcount[k] <= 0
      BY DEF UnreferencedStoreKeys, DbTypeOK
    <2>2. Users(k) = {}
      BY <2>1, <1>0, UnreferencedUnused
    <2> QED BY <1>0, <1>3, <2>1, <2>2, DeleteStoreRefSurplus, DeleteStoreRefKeepsRows
  <1>4. ASSUME ReplaceStoreRefs(installed)
        PROVE  (\A x \in Keys : Surplus(x)' = 0) /\ UsedKeysHaveRows'
    BY <1>4, ReplaceStoreRefsExact, ReplaceStoreRefsHasRows
  <1>5. ASSUME UNCHANGED <<installed, refKeys, refcount>>
        PROVE  (\A x \in Keys : Surplus(x)' = 0) /\ UsedKeysHaveRows'
    BY <1>0, <1>5, CountsFrame
  <1>6. \/ \E n \in Names : RecordLinkedFile(n, installed[n].version)
        \/ \E n \in Names : ClearKegFileRecords(n)
        \/ PruneStaleKegFileRecords
        \/ UNCHANGED dbVars
        => UNCHANGED <<installed, refKeys, refcount>>
    BY DEF RecordLinkedFile, ClearKegFileRecords, PruneStaleKegFileRecords, dbVars
  <1>7. (\A x \in Keys : Surplus(x)' = 0) /\ UsedKeysHaveRows'
    BY <1>1, <1>2, <1>3, <1>4, <1>5, <1>6 DEF DbNext
  <1>8. \A x \in Keys : Cardinality(UsersIn(installed', x)) \in Nat
    BY UsersFinite
  <1>9. \A x \in Keys : /\ refcount'[x] \in Int
                        /\ Cardinality(Users(x)') \in Nat
    BY <1>8 DEF DbTypeOK, Users, UsersIn
  <1>10. RefsExact'
    BY <1>7, <1>9 DEF RefsExact, Surplus
  <1> QED BY <1>7, <1>10

\* In every reachable state the count of a store key is exactly the number of
\* installed rows that use it, and a used key has its row in store_refs.
THEOREM LedgerCorrect == DbSpec => [](RefsExact /\ UsedKeysHaveRows)
  <1>1. DbInit => Ledger
    BY LedgerInit
  <1>2. Ledger /\ DbTypeOK' /\ [DbNext]_dbVars => Ledger'
    BY LedgerStep
  <1>3. Ledger => RefsExact /\ UsedKeysHaveRows
    BY DEF Ledger
  <1> QED BY <1>1, <1>2, <1>3, DbTypeCorrect, PTL DEF DbSpec

\* The updates of the transactions never miss the row they mean to change.
THEOREM RowsCorrect == DbSpec => []UsedKeysHaveRows
  BY LedgerCorrect, PTL

-----------------------------------------------------------------------------
(* The processes.                                                          *)

FullTargets == [name : Names, keg : Kegs, key : Keys]

ItemSteps      == LockedSteps \ {"prepare"}
UninstallSteps == {"u_unlink", "u_record", "u_remove", "u_removed"}
RowWaitSteps   == {"wait_link", "wait_unlink"}

\* What a process at step s has found out about its target t.
TargetFits(s, t) ==
    /\ s \in ItemSteps => t \in FullTargets
    /\ s \in UninstallSteps => t.name \in Names /\ t.keg \in Kegs
    /\ s \in RowWaitSteps => t.name \in Names

TargetOK == \A p \in Procs : TargetFits(pc[p], target[p])

Inv == TypeOK /\ LockHeld /\ TargetOK

LocalTypeOK ==
    /\ pc \in [Procs -> Steps]
    /\ plan \in [Procs -> SUBSET Items]
    /\ task \in [Procs -> [Items -> TaskStates]]
    /\ doLink \in [Procs -> BOOLEAN]
    /\ target \in [Procs -> Targets]
    /\ todo \in [Procs -> SUBSET Keys]
    /\ seen \in [Procs -> [Names -> Rows \cup {NoRow}]]
    /\ report \in [Procs -> Reports]

DiskTypeOK ==
    /\ store \in [Keys -> {"absent", "partial", "whole"}]
    /\ relocated \in [CacheKeys -> Contents \cup {NoContent}]
    /\ cellar \in [Kegs -> Contents \cup {NoContent}]
    /\ linked \in [Tokens -> Versions \cup {NoVersion}]

OtherTypeOK ==
    /\ installLock \in Procs \cup {NoProc}
    /\ started \in Nat
    /\ repaired \in 0..2

LEMMA TypeParts ==
    /\ TypeOK => DbTypeOK /\ DiskTypeOK /\ LocalTypeOK /\ OtherTypeOK
    /\ DbTypeOK' /\ DiskTypeOK' /\ LocalTypeOK' /\ OtherTypeOK' => TypeOK'
  BY DEF TypeOK, DiskTypeOK, LocalTypeOK, OtherTypeOK

-----------------------------------------------------------------------------
(* Constants and the helpers of the actions.                               *)

LEMMA ItemTypes ==
    ASSUME NEW i \in Items
    PROVE  /\ i.name \in Names /\ i.version \in Versions /\ i.key \in Keys
           /\ KegOf(i) \in Kegs
           /\ CacheKey(i) \in CacheKeys
           /\ [name |-> i.name, keg |-> KegOf(i), key |-> i.key] \in FullTargets
  <1>1. i \in [name : Names, version : Versions, key : Keys]
    BY InstallerAssumption DEF InstallerAssumption
  <1>2. KegOf(i) \in Kegs
    BY <1>1, InstallerAssumption DEF InstallerAssumption, KegOf, Kegs
  <1> QED BY <1>1, <1>2 DEF CacheKeys, FullTargets

LEMMA TargetTypes ==
    /\ FullTargets \subseteq Targets
    /\ NoTarget \in Targets
    /\ \A k \in Keys : [NoTarget EXCEPT !.key = k] \in Targets
    /\ \A n \in Names : [NoTarget EXCEPT !.name = n] \in Targets
    /\ \A g \in Kegs : [NoTarget EXCEPT !.keg = g] \in Targets
  BY DEF FullTargets, Targets, NoTarget

LEMMA RowTypeFacts ==
    ASSUME DbTypeOK, NEW n \in Names, installed[n] # NoRow
    PROVE  /\ KegOfRow(n) \in Kegs
           /\ installed[n].version \in Versions
           /\ installed[n].key \in Keys
  <1>1. installed[n] \in Rows
    BY DEF DbTypeOK
  <1> QED BY <1>1, InstallerAssumption DEF InstallerAssumption, Rows, Kegs, KegOfRow

\* A content stays a content when part of the directory is removed.
LEMMA StartRemoveType ==
    ASSUME DiskTypeOK, NEW g, StartRemoveKeg(g)
    PROVE  cellar' \in [Kegs -> Contents \cup {NoContent}]
  <1>1. \A c \in Contents : Partial(c.key) \in Contents
    BY DEF Contents, Partial
  <1>2. NoContent.key = NoKey
    BY DEF NoContent
  <1>3. Partial(NoContent.key) = NoContent
    BY <1>2 DEF NoContent, Partial
  <1> QED BY <1>1, <1>3 DEF DiskTypeOK, StartRemoveKeg

LEMMA EndRemoveType ==
    ASSUME DiskTypeOK, NEW g, EndRemoveKeg(g)
    PROVE  cellar' \in [Kegs -> Contents \cup {NoContent}]
  BY DEF DiskTypeOK, EndRemoveKeg

LEMMA UnlinkType ==
    ASSUME DiskTypeOK, NEW g, UnlinkKeg(g)
    PROVE  linked' \in [Tokens -> Versions \cup {NoVersion}]
  BY DEF DiskTypeOK, UnlinkKeg

LEMMA FinishType ==
    ASSUME LocalTypeOK, NEW p \in Procs, Finish(p)
    PROVE  LocalTypeOK'
  <1>1. NoSeen \in [Names -> Rows \cup {NoRow}]
    BY DEF NoSeen
  <1>2. NoReport \in Reports
    BY DEF NoReport, Reports
  <1>3. pc' \in [Procs -> Steps]
    BY DEF Finish, Goto, LocalTypeOK, Steps
  <1>4. plan' \in [Procs -> SUBSET Items] /\ todo' \in [Procs -> SUBSET Keys]
    BY DEF Finish, LocalTypeOK
  <1>5. task' \in [Procs -> [Items -> TaskStates]]
    BY DEF Finish, LocalTypeOK, TaskStates
  <1>6. doLink' \in [Procs -> BOOLEAN]
    BY DEF Finish, LocalTypeOK
  <1>7. target' \in [Procs -> Targets]
    BY TargetTypes DEF Finish, LocalTypeOK
  <1>8. /\ seen' \in [Procs -> [Names -> Rows \cup {NoRow}]]
        /\ report' \in [Procs -> Reports]
    BY <1>1, <1>2 DEF Finish, LocalTypeOK
  <1> QED BY <1>3, <1>4, <1>5, <1>6, <1>7, <1>8 DEF LocalTypeOK

LEMMA ItemStepType ==
    ASSUME LocalTypeOK, NEW p \in Procs, NEW s \in Steps, ItemStep(p, s)
    PROVE  LocalTypeOK'
  BY DEF LocalTypeOK, ItemStep, Goto

LEMMA ItemDoneType ==
    ASSUME LocalTypeOK, NEW p \in Procs, ItemDone(p)
    PROVE  LocalTypeOK'
  <1>1. pc' \in [Procs -> Steps]
    BY DEF ItemDone, Goto, LocalTypeOK, Steps, LockedSteps
  <1>2. plan' \in [Procs -> SUBSET Items]
    BY DEF ItemDone, LocalTypeOK
  <1>3. task[p] \in [Items -> TaskStates]
    BY DEF LocalTypeOK
  <1>4. [i \in Items |-> IF i.name = target[p].name THEN "none" ELSE task[p][i]]
            \in [Items -> TaskStates]
    BY <1>3 DEF TaskStates
  <1>5. task' \in [Procs -> [Items -> TaskStates]]
    BY <1>4 DEF ItemDone, LocalTypeOK
  <1>6. target' \in [Procs -> Targets]
    BY TargetTypes DEF ItemDone, LocalTypeOK
  <1> QED BY <1>1, <1>2, <1>5, <1>6 DEF ItemDone, LocalTypeOK

LEMMA SetTaskType ==
    ASSUME LocalTypeOK, NEW p \in Procs, NEW i \in Items, NEW s \in TaskStates,
           SetTask(p, i, s)
    PROVE  LocalTypeOK'
  <1>1. task' \in [Procs -> [Items -> TaskStates]]
    BY DEF SetTask, LocalTypeOK
  <1> QED BY <1>1 DEF SetTask, LocalTypeOK

-----------------------------------------------------------------------------
(* Types: the steps of install.                                            *)

\* What the actions of a group may leave unchanged, part by part.
LEMMA TypeFrames ==
    /\ DbTypeOK /\ UNCHANGED dbVars => DbTypeOK'
    /\ DiskTypeOK /\ UNCHANGED diskVars => DiskTypeOK'
    /\ OtherTypeOK /\ UNCHANGED <<installLock, bookVars>> => OtherTypeOK'
  BY DbStutterType DEF DiskTypeOK, diskVars, OtherTypeOK, bookVars

LEMMA ReleaseType ==
    ASSUME OtherTypeOK, Release, UNCHANGED bookVars
    PROVE  OtherTypeOK'
  BY DEF OtherTypeOK, Release, bookVars

LEMMA BeginType ==
    ASSUME OtherTypeOK, NEW p, NEW c, Begin(p, c), UNCHANGED installLock
    PROVE  OtherTypeOK'
  BY DEF OtherTypeOK, Begin

\* Starting and acquiring.
LEMMA StartInstallType ==
    ASSUME TypeOK, NEW p \in Procs, StartInstall(p)
    PROVE  TypeOK'
  <1> USE TypeParts
  <1>1. DbTypeOK' /\ DiskTypeOK'
    BY TypeFrames DEF StartInstall
  <1>2. OtherTypeOK'
    BY BeginType DEF StartInstall
  <1>3. plan' \in [Procs -> SUBSET Items] /\ doLink' \in [Procs -> BOOLEAN]
    BY DEF StartInstall, LocalTypeOK
  <1>4. LocalTypeOK'
    BY <1>3 DEF StartInstall, Goto, LocalTypeOK, Steps, WaitingSteps
  <1> QED BY <1>1, <1>2, <1>4

LEMMA AcquireForInstallType ==
    ASSUME TypeOK, NEW p \in Procs, AcquireForInstall(p)
    PROVE  TypeOK'
  <1> USE TypeParts
  <1>1. DbTypeOK' /\ DiskTypeOK'
    BY TypeFrames DEF AcquireForInstall
  <1>2. OtherTypeOK'
    BY DEF AcquireForInstall, OtherTypeOK, bookVars
  <1>3. task' \in [Procs -> [Items -> TaskStates]]
    BY DEF AcquireForInstall, LocalTypeOK, TaskStates
  <1>4. LocalTypeOK'
    BY <1>3 DEF AcquireForInstall, Goto, LocalTypeOK, Steps, LockedSteps
  <1> QED BY <1>1, <1>2, <1>4

\* The prepare tasks write a keg or a store entry and their own state.
LEMMA PrepareType ==
    ASSUME TypeOK, NEW p \in Procs, Prepare(p)
    PROVE  TypeOK'
  <1> USE TypeParts
  <1>1. PICK i \in Items :
            \/ EnsureEntry(p, i)
            \/ MaterializeFromRelocated(p, i)
            \/ CopyRelocated(p, i)
            \/ Materialize(p, i)
            \/ CopyStoreEntry(p, i)
    BY DEF Prepare
  <1>2. PICK s \in TaskStates : SetTask(p, i, s)
    BY <1>1 DEF EnsureEntry, MaterializeFromRelocated, CopyRelocated,
                Materialize, CopyStoreEntry, TaskStates
  <1>3. LocalTypeOK'
    BY <1>2, SetTaskType
  <1>4. DbTypeOK' /\ OtherTypeOK'
    BY <1>2, TypeFrames DEF SetTask
  <1>5. UNCHANGED <<relocated, linked>>
    BY <1>2 DEF SetTask
  <1>6. /\ relocated[CacheKey(i)] \in Contents \cup {NoContent}
        /\ i.key \in Keys
    BY ItemTypes DEF DiskTypeOK
  <1>7. Partial(relocated[CacheKey(i)].key) \in Contents \cup {NoContent}
    <2>1. CASE relocated[CacheKey(i)] \in Contents
      BY <2>1 DEF Contents, Partial
    <2>2. CASE relocated[CacheKey(i)] = NoContent
      BY <2>2 DEF NoContent, Partial
    <2> QED BY <1>6, <2>1, <2>2
  <1>8. /\ Partial(i.key) \in Contents
        /\ [key |-> i.key, whole |-> TRUE] \in Contents
    BY <1>6 DEF Partial, Contents
  <1>9. store' \in [Keys -> {"absent", "partial", "whole"}]
    BY <1>1 DEF EnsureEntry, MaterializeFromRelocated, CopyRelocated,
                Materialize, CopyStoreEntry, DiskTypeOK
  <1>10. cellar' \in [Kegs -> Contents \cup {NoContent}]
    <2>1. CASE EnsureEntry(p, i)
      BY <2>1 DEF EnsureEntry, DiskTypeOK
    <2>2. CASE MaterializeFromRelocated(p, i)
      BY <2>2, <1>7 DEF MaterializeFromRelocated, DiskTypeOK
    <2>3. CASE CopyRelocated(p, i)
      BY <2>3, <1>6, <1>7 DEF CopyRelocated, EndRemoveKeg, DiskTypeOK
    <2>4. CASE Materialize(p, i)
      BY <2>4, <1>8 DEF Materialize, DiskTypeOK
    <2>5. CASE CopyStoreEntry(p, i)
      BY <2>5, <1>8 DEF CopyStoreEntry, DiskTypeOK
    <2> QED BY <1>1, <2>1, <2>2, <2>3, <2>4, <2>5
  <1>11. DiskTypeOK'
    BY <1>5, <1>9, <1>10 DEF DiskTypeOK
  <1> QED BY <1>3, <1>4, <1>11

\* How a step under the lock leaves the local state of its process: it ends
\* the command or the item, or goes to another step.
Moves(p) ==
    \/ Finish(p)
    \/ ItemDone(p)
    \/ \E s \in ItemSteps : ItemStep(p, s)

LEMMA MovesType ==
    ASSUME LocalTypeOK, NEW p \in Procs, Moves(p)
    PROVE  LocalTypeOK'
  BY FinishType, ItemDoneType, ItemStepType DEF Moves, ItemSteps, Steps

LEMMA LockedMoves ==
    ASSUME NEW p \in Procs, Locked(p)
    PROVE  Prepare(p) \/ NextItem(p) \/ Moves(p)
  <1> USE DEF Moves, ItemSteps, LockedSteps
  <1>1. FinishInstall(p) \/ PostInstall(p) \/ SaveRelocated(p) => Moves(p)
    BY DEF FinishInstall, PostInstall, SaveRelocated
  <1>2. RecordItem(p) \/ RecordLinks(p) => Moves(p)
    BY DEF RecordItem, RecordLinks
  <1>3. CleanupKeg(p) \/ EndCleanup(p) \/ LinkItem(p) => Moves(p)
    BY DEF CleanupKeg, EndCleanup, LinkItem
  <1>4. LinkInstalled(p) \/ PersistLinks(p) \/ UnlinkInstalled(p) \/ ClearRows(p)
        => Moves(p)
    BY DEF LinkInstalled, PersistLinks, UnlinkInstalled, ClearRows
  <1> QED BY <1>1, <1>2, <1>3, <1>4 DEF Locked

\* At a step on an item the target is complete.
LEMMA TargetAt ==
    ASSUME TargetOK, NEW p \in Procs, pc[p] \in ItemSteps
    PROVE  /\ target[p] \in FullTargets
           /\ target[p].name \in Names /\ target[p].keg \in Kegs
           /\ target[p].key \in Keys
           /\ target[p].keg[1] \in Tokens /\ target[p].keg[2] \in Versions
  BY DEF TargetOK, TargetFits, FullTargets, Kegs

LEMMA NextItemType ==
    ASSUME TypeOK, NEW p \in Procs, NextItem(p)
    PROVE  TypeOK'
  <1> USE TypeParts
  <1>1. target' \in [Procs -> Targets]
    BY ItemTypes, TargetTypes DEF NextItem, LocalTypeOK
  <1>2. LocalTypeOK'
    BY <1>1 DEF NextItem, Goto, LocalTypeOK, Steps, LockedSteps
  <1> QED BY <1>2, TypeFrames DEF NextItem

LEMMA RecordItemType ==
    ASSUME TypeOK, TargetOK, NEW p \in Procs, RecordItem(p)
    PROVE  DbTypeOK' /\ DiskTypeOK'
  <1>1. pc[p] \in ItemSteps
    BY DEF RecordItem, At, ItemSteps, LockedSteps
  <1>2. DbTypeOK'
    BY <1>1, TargetAt, TypeParts, TypeFrames, RecordInstallType DEF RecordItem
  <1> QED BY <1>2, TypeParts, TypeFrames DEF RecordItem

LEMMA LinkItemType ==
    ASSUME TypeOK, TargetOK, NEW p \in Procs, LinkItem(p) \/ LinkInstalled(p)
    PROVE  DbTypeOK' /\ DiskTypeOK'
  <1> USE TypeParts
  <1>1. pc[p] \in ItemSteps
    BY DEF LinkItem, LinkInstalled, At, ItemSteps, LockedSteps
  <1>2. [linked EXCEPT ![target[p].keg[1]] = target[p].keg[2]]
            \in [Tokens -> Versions \cup {NoVersion}]
    BY <1>1, TargetAt DEF DiskTypeOK
  <1>3. linked' \in [Tokens -> Versions \cup {NoVersion}]
    BY <1>2, UnlinkType DEF LinkItem, LinkInstalled, DiskTypeOK
  <1> QED BY <1>3, TypeFrames DEF LinkItem, LinkInstalled, DiskTypeOK

LEMMA RowsType ==
    ASSUME TypeOK, TargetOK, NEW p \in Procs,
           RecordLinks(p) \/ PersistLinks(p) \/ ClearRows(p)
    PROVE  DbTypeOK' /\ DiskTypeOK'
  <1> USE TypeParts
  <1>1. pc[p] \in ItemSteps
    BY DEF RecordLinks, PersistLinks, ClearRows, At, ItemSteps, LockedSteps
  <1>2. \/ RecordLinkedFile(target[p].name, target[p].keg[2])
        \/ ClearKegFileRecords(target[p].name)
        \/ UNCHANGED dbVars
    BY DEF RecordLinks, PersistLinks, ClearRows
  <1>3. DbTypeOK'
    BY <1>1, <1>2, TargetAt, RecordLinkedFileType, ClearKegFileRecordsType,
       TypeFrames
  <1>4. DiskTypeOK'
    <2>1. UnlinkKeg(target[p].keg) \/ linked' = linked
      BY DEF RecordLinks, PersistLinks, ClearRows, diskVars
    <2>2. UNCHANGED <<store, relocated, cellar>>
      BY DEF RecordLinks, PersistLinks, ClearRows, diskVars
    <2> QED BY <2>1, <2>2, UnlinkType DEF DiskTypeOK
  <1> QED BY <1>3, <1>4

LEMMA SaveRelocatedType ==
    ASSUME TypeOK, TargetOK, NEW p \in Procs, SaveRelocated(p)
    PROVE  DbTypeOK' /\ DiskTypeOK'
  <1> USE TypeParts
  <1>1. pc[p] \in ItemSteps
    BY DEF SaveRelocated, At, ItemSteps, LockedSteps
  <1>2. cellar[target[p].keg] \in Contents \cup {NoContent}
    BY <1>1, TargetAt DEF DiskTypeOK
  <1>3. relocated' \in [CacheKeys -> Contents \cup {NoContent}]
    BY <1>2 DEF SaveRelocated, DiskTypeOK
  <1> QED BY <1>3, TypeFrames DEF SaveRelocated, DiskTypeOK

LEMMA CleanupType ==
    ASSUME TypeOK, NEW p \in Procs, CleanupKeg(p) \/ EndCleanup(p)
    PROVE  DbTypeOK' /\ DiskTypeOK'
  <1> USE TypeParts
  <1>1. cellar' \in [Kegs -> Contents \cup {NoContent}]
    BY StartRemoveType, EndRemoveType DEF CleanupKeg, EndCleanup, DiskTypeOK
  <1> QED BY <1>1, TypeFrames DEF CleanupKeg, EndCleanup, DiskTypeOK

LEMMA LockedType ==
    ASSUME TypeOK, TargetOK, NEW p \in Procs, Locked(p)
    PROVE  TypeOK'
  <1> USE TypeParts
  <1>1. CASE Prepare(p) \/ NextItem(p)
    BY <1>1, PrepareType, NextItemType
  <1>2. CASE ~Prepare(p) /\ ~NextItem(p)
    <2>1. LocalTypeOK'
      BY <1>2, LockedMoves, MovesType
    <2>2. OtherTypeOK'
      <3>1. (UNCHANGED installLock \/ Release) /\ UNCHANGED bookVars
        BY <1>2 DEF Locked, FinishInstall, PostInstall, SaveRelocated, RecordItem,
                    CleanupKeg, EndCleanup, LinkItem, RecordLinks, LinkInstalled,
                    PersistLinks, UnlinkInstalled, ClearRows
      <3> QED BY <3>1, ReleaseType, TypeFrames
    <2>3. CASE FinishInstall(p) \/ PostInstall(p)
      BY <2>1, <2>2, <2>3, TypeFrames DEF FinishInstall, PostInstall
    <2>4. CASE UnlinkInstalled(p)
      <3>1. DiskTypeOK'
        BY <2>4, UnlinkType DEF UnlinkInstalled, DiskTypeOK
      <3> QED BY <2>1, <2>2, <2>4, <3>1, TypeFrames DEF UnlinkInstalled
    <2> QED BY <1>2, <2>1, <2>2, <2>3, <2>4, RecordItemType, LinkItemType, RowsType,
               SaveRelocatedType, CleanupType DEF Locked
  <1> QED BY <1>1, <1>2

-----------------------------------------------------------------------------
(* Types: link and unlink start and take the lock.                         *)

LEMMA StartLinkType ==
    ASSUME TypeOK, NEW p \in Procs, StartLink(p) \/ StartUnlink(p)
    PROVE  TypeOK'
  <1> USE TypeParts
  <1>1. target' \in [Procs -> Targets]
    BY TargetTypes DEF StartLink, StartUnlink, LocalTypeOK
  <1>2. LocalTypeOK'
    BY <1>1 DEF StartLink, StartUnlink, Goto, LocalTypeOK, Steps, WaitingSteps
  <1>3. OtherTypeOK'
    BY BeginType DEF StartLink, StartUnlink
  <1> QED BY <1>2, <1>3, TypeFrames DEF StartLink, StartUnlink

\* The row of the target's name completes the target.
LEMMA TargetRowType ==
    ASSUME TypeOK, NEW p \in Procs, NEW n \in Names, installed[n] # NoRow,
           TargetRow(p, n)
    PROVE  target'[p] \in FullTargets /\ target' \in [Procs -> Targets]
  <1>1. [name |-> n, keg |-> KegOfRow(n), key |-> installed[n].key] \in FullTargets
    BY TypeParts, RowTypeFacts DEF FullTargets
  <1> QED BY <1>1, TypeParts, TargetTypes DEF TargetRow, LocalTypeOK

LEMMA AcquireForLinkType ==
    ASSUME TypeOK, TargetOK, NEW p \in Procs, AcquireForLink(p)
    PROVE  TypeOK'
  <1> USE TypeParts
  <1>1. DbTypeOK' /\ DiskTypeOK'
    BY TypeFrames DEF AcquireForLink
  <1>2. OtherTypeOK'
    BY DEF AcquireForLink, OtherTypeOK, bookVars
  <1>3. CASE installed[target[p].name] = NoRow
    BY <1>1, <1>2, <1>3, FinishType DEF AcquireForLink
  <1>4. CASE installed[target[p].name] # NoRow
    <2>1. target[p].name \in Names
      BY DEF AcquireForLink, TargetOK, TargetFits, RowWaitSteps
    <2>2. target' \in [Procs -> Targets]
      BY <1>4, <2>1, TargetRowType DEF AcquireForLink
    <2>3. LocalTypeOK'
      BY <1>4, <2>2 DEF AcquireForLink, Goto, LocalTypeOK, Steps, LockedSteps
    <2> QED BY <1>1, <1>2, <2>3
  <1> QED BY <1>3, <1>4

-----------------------------------------------------------------------------
(* Types: uninstall and gc.                                                *)

LEMMA StartUninstallType ==
    ASSUME TypeOK, NEW p \in Procs, StartUninstall(p)
    PROVE  TypeOK'
  <1> USE TypeParts
  <1>1. PICK n \in Names, g \in Kegs :
            target' = [target EXCEPT ![p] = [name |-> n, keg |-> g, key |-> NoKey]]
    BY RowTypeFacts DEF StartUninstall, FallbackKegs
  <1>2. target' \in [Procs -> Targets]
    BY <1>1 DEF LocalTypeOK, Targets
  <1>3. LocalTypeOK'
    BY <1>2 DEF StartUninstall, Goto, LocalTypeOK, Steps, UnlockedSteps
  <1>4. OtherTypeOK'
    BY BeginType DEF StartUninstall
  <1> QED BY <1>3, <1>4, TypeFrames DEF StartUninstall

LEMMA UninstallType ==
    ASSUME TypeOK, TargetOK, NEW p \in Procs,
           \/ UninstallUnlink(p) \/ UninstallRecord(p)
           \/ UninstallRemoveKeg(p) \/ UninstallKegRemoved(p)
    PROVE  TypeOK'
  <1> USE TypeParts
  <1>0. target[p].name \in Names /\ target[p].keg \in Kegs
    BY DEF UninstallUnlink, UninstallRecord, UninstallRemoveKeg,
           UninstallKegRemoved, At, TargetOK, TargetFits, UninstallSteps
  <1>1. OtherTypeOK'
    BY TypeFrames DEF UninstallUnlink, UninstallRecord, UninstallRemoveKeg,
                      UninstallKegRemoved
  <1>2. CASE UninstallUnlink(p)
    <2>1. installed[target[p].name].key \in Keys \cup {NoKey}
      BY <1>0, RowTypes DEF DbTypeOK, Tables
    <2>2. [target EXCEPT ![p].key = installed[target[p].name].key]
              \in [Procs -> Targets]
      BY <2>1 DEF LocalTypeOK, Targets
    <2>3. LocalTypeOK'
      BY <1>2, <2>2, FinishType
      DEF UninstallUnlink, Goto, LocalTypeOK, Steps, UnlockedSteps
    <2>4. DiskTypeOK'
      BY <1>2, UnlinkType DEF UninstallUnlink, DiskTypeOK
    <2> QED BY <1>1, <1>2, <2>3, <2>4, TypeFrames DEF UninstallUnlink
  <1>3. CASE UninstallRecord(p)
    <2>1. DbTypeOK'
      BY <1>0, <1>3, RecordUninstallType, TypeFrames DEF UninstallRecord
    <2>2. LocalTypeOK'
      BY <1>3, FinishType, ItemStepType DEF UninstallRecord, Steps, UnlockedSteps
    <2> QED BY <1>1, <1>3, <2>1, <2>2, TypeFrames DEF UninstallRecord
  <1>4. CASE UninstallRemoveKeg(p)
    <2>1. DiskTypeOK'
      BY <1>4, StartRemoveType DEF UninstallRemoveKeg, DiskTypeOK
    <2>2. LocalTypeOK'
      BY <1>4, FinishType, ItemStepType DEF UninstallRemoveKeg, Steps, UnlockedSteps
    <2> QED BY <1>1, <1>4, <2>1, <2>2, TypeFrames DEF UninstallRemoveKeg
  <1>5. CASE UninstallKegRemoved(p)
    <2>1. DiskTypeOK'
      BY <1>5, EndRemoveType DEF UninstallKegRemoved, DiskTypeOK
    <2> QED BY <1>1, <1>5, <2>1, FinishType, TypeFrames DEF UninstallKegRemoved
  <1> QED BY <1>2, <1>3, <1>4, <1>5

LEMMA StartGcType ==
    ASSUME TypeOK, NEW p \in Procs, StartGc(p)
    PROVE  TypeOK'
  <1> USE TypeParts
  <1>1. todo' \in [Procs -> SUBSET Keys]
    BY DEF StartGc, LocalTypeOK, UnreferencedStoreKeys, DbTypeOK
  <1>2. LocalTypeOK'
    BY <1>1 DEF StartGc, Goto, LocalTypeOK, Steps, UnlockedSteps
  <1>3. OtherTypeOK'
    BY BeginType DEF StartGc
  <1> QED BY <1>2, <1>3, TypeFrames DEF StartGc

\* The three steps by which gc and repair remove a store entry.
LEMMA RemoveEntryType ==
    ASSUME TypeOK, NEW p \in Procs,
           \/ GcRemoveEntry(p) \/ GcEntryRemoved(p)
           \/ RepairRemoveEntry(p) \/ RepairEntryRemoved(p)
    PROVE  TypeOK'
  <1> USE TypeParts
  <1>1. /\ UNCHANGED <<dbVars, relocated, cellar, linked, installLock, bookVars>>
        /\ store' \in [Keys -> {"absent", "partial", "whole"}]
    BY DEF GcRemoveEntry, GcEntryRemoved, RepairRemoveEntry, RepairEntryRemoved,
           DiskTypeOK
  <1>2. DbTypeOK' /\ DiskTypeOK' /\ OtherTypeOK'
    BY <1>1, TypeFrames DEF DiskTypeOK
  <1>3. CASE GcEntryRemoved(p) \/ RepairEntryRemoved(p)
    <2>1. LocalTypeOK'
      BY <1>3, FinishType, ItemStepType
      DEF GcEntryRemoved, RepairEntryRemoved, Steps, UnlockedSteps
    <2> QED BY <1>2, <2>1
  <1>4. CASE GcRemoveEntry(p) \/ RepairRemoveEntry(p)
    <2>1. todo[p] \in SUBSET Keys
      BY DEF LocalTypeOK
    <2>2. PICK k \in Keys :
            /\ todo' = [todo EXCEPT ![p] = @ \ {k}]
            /\ \/ target' = target
               \/ target' = [target EXCEPT ![p] = [NoTarget EXCEPT !.key = k]]
      BY <1>4, <2>1 DEF GcRemoveEntry, RepairRemoveEntry
    <2>3. todo' \in [Procs -> SUBSET Keys]
      BY <2>1, <2>2 DEF LocalTypeOK
    <2>4. target' \in [Procs -> Targets]
      BY <2>2, TargetTypes DEF LocalTypeOK
    <2>5. pc' \in [Procs -> Steps]
      BY <1>4 DEF GcRemoveEntry, RepairRemoveEntry, Goto, LocalTypeOK, Steps,
                  UnlockedSteps
    <2>6. LocalTypeOK'
      BY <1>4, <2>3, <2>4, <2>5 DEF GcRemoveEntry, RepairRemoveEntry, LocalTypeOK
    <2> QED BY <1>2, <2>6
  <1> QED BY <1>3, <1>4

LEMMA GcType ==
    ASSUME TypeOK, NEW p \in Procs, GcDeleteRef(p) \/ FinishGc(p)
    PROVE  TypeOK'
  <1> USE TypeParts
  <1>1. LocalTypeOK'
    BY FinishType, ItemStepType DEF GcDeleteRef, FinishGc, Steps, UnlockedSteps
  <1>2. DbTypeOK'
    BY TypeFrames DEF GcDeleteRef, FinishGc, DeleteStoreRef, DbTypeOK
  <1> QED BY <1>1, <1>2, TypeFrames DEF GcDeleteRef, FinishGc

-----------------------------------------------------------------------------
(* Types: doctor and repair.                                               *)

LEMMA StartDoctorType ==
    ASSUME TypeOK, NEW p \in Procs, StartDoctor(p)
    PROVE  TypeOK'
  <1> USE TypeParts
  <1>1. LocalTypeOK'
    BY DEF StartDoctor, Goto, LocalTypeOK, DbTypeOK, Steps, UnlockedSteps
  <1>2. OtherTypeOK'
    BY BeginType DEF StartDoctor
  <1> QED BY <1>1, <1>2, TypeFrames DEF StartDoctor

LEMMA DoctorReadType ==
    ASSUME TypeOK, NEW p \in Procs, DoctorReadRefs(p) \/ DoctorReadDisk(p)
    PROVE  TypeOK'
  <1> USE TypeParts
  <1>0. report[p] \in Reports
    BY DEF LocalTypeOK
  <1>1. CASE DoctorReadRefs(p)
    <2>1. report' \in [Procs -> Reports]
      BY <1>0, <1>1 DEF DoctorReadRefs, LocalTypeOK, Reports
    <2>2. LocalTypeOK'
      BY <1>1, <2>1 DEF DoctorReadRefs, Goto, LocalTypeOK, DbTypeOK, Steps, UnlockedSteps
    <2> QED BY <1>1, <2>2, TypeFrames DEF DoctorReadRefs
  <1>2. CASE DoctorReadDisk(p)
    <2> DEFINE inst  == seen[p]
               found == [kegs    |-> OrphanKegs(inst),
                         missing |-> MissingKegs(inst),
                         links   |-> BrokenLinks(inst),
                         recount |-> \/ report[p].recount
                                     \/ \E k \in todo[p] : store[k] = "absent"
                                     \/ MissingKegs(inst) # {},
                         prune   |-> StaleKegFiles # {}]
               entries == OrphanEntries(inst, todo[p])
    <2>1. found \in Reports /\ entries \in SUBSET Keys
      BY <1>0 DEF OrphanKegs, MissingKegs, BrokenLinks, StaleKegFiles,
                  OrphanEntries, Reports
    <2>2. \/ Finish(p)
          \/ /\ report' = [report EXCEPT ![p] = found]
             /\ todo' = [todo EXCEPT ![p] = entries]
             /\ Goto(p, "repair")
             /\ UNCHANGED <<plan, task, doLink, target, seen>>
      BY <1>2 DEF DoctorReadDisk
    <2> HIDE DEF found, entries
    <2>3. LocalTypeOK'
      <3>1. CASE Finish(p)
        BY <3>1, FinishType
      <3>2. CASE ~Finish(p)
        <4>1. report' \in [Procs -> Reports]
          BY <2>1, <2>2, <3>2 DEF LocalTypeOK
        <4>2. todo' \in [Procs -> SUBSET Keys]
          BY <2>1, <2>2, <3>2 DEF LocalTypeOK
        <4>3. pc' \in [Procs -> Steps]
          BY <2>2, <3>2 DEF LocalTypeOK, Goto, Steps, UnlockedSteps
        <4> QED BY <2>2, <3>2, <4>1, <4>2, <4>3 DEF LocalTypeOK
      <3> QED BY <3>1, <3>2
    <2>4. OtherTypeOK'
      BY <1>2 DEF DoctorReadDisk, OtherTypeOK
    <2> QED BY <1>2, <2>3, <2>4, TypeFrames DEF DoctorReadDisk
  <1> QED BY <1>1, <1>2

\* repair removes orphaned kegs.
LEMMA RepairKegsType ==
    ASSUME TypeOK, NEW p \in Procs,
           RepairUnlinkKeg(p) \/ RepairRemoveKeg(p) \/ RepairKegRemoved(p)
    PROVE  TypeOK'
  <1> USE TypeParts
  <1>0. report[p] \in Reports
    BY DEF LocalTypeOK
  <1>1. CASE RepairUnlinkKeg(p)
    <2>1. PICK g \in report[p].kegs :
              /\ UnlinkKeg(g) \/ linked' = linked
              /\ target' = [target EXCEPT ![p] = [NoTarget EXCEPT !.keg = g]]
              /\ report' = [report EXCEPT ![p].kegs = @ \ {g}]
      BY <1>1 DEF RepairUnlinkKeg
    <2>2. g \in Kegs
      BY <1>0, <2>1 DEF Reports
    <2>3. DiskTypeOK'
      BY <1>1, <2>1, UnlinkType DEF RepairUnlinkKeg, DiskTypeOK
    <2>4. target' \in [Procs -> Targets]
      BY <2>1, <2>2, TargetTypes DEF LocalTypeOK
    <2>5. report' \in [Procs -> Reports]
      BY <1>0, <2>1 DEF LocalTypeOK, Reports
    <2>6. pc' \in [Procs -> Steps]
      BY <1>1 DEF RepairUnlinkKeg, Goto, LocalTypeOK, Steps, UnlockedSteps
    <2>7. LocalTypeOK'
      BY <1>1, <2>4, <2>5, <2>6 DEF RepairUnlinkKeg, LocalTypeOK
    <2> QED BY <1>1, <2>3, <2>7, TypeFrames DEF RepairUnlinkKeg
  <1>2. CASE RepairRemoveKeg(p)
    <2>1. DiskTypeOK'
      BY <1>2, StartRemoveType DEF RepairRemoveKeg, DiskTypeOK
    <2>2. LocalTypeOK'
      BY <1>2, ItemStepType DEF RepairRemoveKeg, Steps, UnlockedSteps
    <2> QED BY <1>2, <2>1, <2>2, TypeFrames DEF RepairRemoveKeg
  <1>3. CASE RepairKegRemoved(p)
    <2>1. DiskTypeOK'
      BY <1>3, EndRemoveType DEF RepairKegRemoved, DiskTypeOK
    <2>2. LocalTypeOK'
      BY <1>3, FinishType, ItemStepType DEF RepairKegRemoved, Steps, UnlockedSteps
    <2> QED BY <1>3, <2>1, <2>2, TypeFrames DEF RepairKegRemoved
  <1> QED BY <1>1, <1>2, <1>3

LEMMA RepairMissingType ==
    ASSUME TypeOK, NEW p \in Procs, RepairMissing(p)
    PROVE  TypeOK'
  <1> USE TypeParts
  <1>0. report[p] \in Reports
    BY DEF LocalTypeOK
  <1>1. CASE Finish(p) /\ UNCHANGED dbVars
    BY <1>1, FinishType, TypeFrames DEF RepairMissing
  <1>2. CASE ~(Finish(p) /\ UNCHANGED dbVars)
    <2>1. PICK n \in report[p].missing :
              /\ DeleteInstalledRecord(n)
              /\ report' = [report EXCEPT ![p].missing = @ \ {n}]
              /\ UNCHANGED <<pc, plan, task, doLink, target, todo, seen>>
      BY <1>2 DEF RepairMissing
    <2>2. n \in Names
      BY <1>0, <2>1 DEF Reports
    <2>3. DbTypeOK'
      BY <2>1, <2>2, DeleteInstalledRecordType
    <2>4. report' \in [Procs -> Reports]
      BY <1>0, <2>1 DEF LocalTypeOK, Reports
    <2>5. LocalTypeOK'
      BY <2>1, <2>4 DEF LocalTypeOK
    <2> QED BY <2>3, <2>5, TypeFrames DEF RepairMissing
  <1> QED BY <1>1, <1>2

\* repair recounts the store references.
LEMMA RepairRefsType ==
    ASSUME TypeOK, NEW p \in Procs, RepairListInstalled(p) \/ RepairStoreRefs(p)
    PROVE  TypeOK'
  <1> USE TypeParts
  <1>1. CASE RepairListInstalled(p)
    <2>1. CASE Finish(p)
      BY <1>1, <2>1, FinishType, TypeFrames DEF RepairListInstalled
    <2>2. CASE ~Finish(p)
      <3>1. pc' \in [Procs -> Steps]
        BY <1>1, <2>2 DEF RepairListInstalled, Goto, LocalTypeOK, Steps, UnlockedSteps
      <3>2. seen' \in [Procs -> [Names -> Rows \cup {NoRow}]]
        BY <1>1, <2>2 DEF RepairListInstalled, LocalTypeOK, DbTypeOK
      <3>3. LocalTypeOK'
        BY <1>1, <2>2, <3>1, <3>2 DEF RepairListInstalled, LocalTypeOK
      <3> QED BY <1>1, <3>3, TypeFrames DEF RepairListInstalled
    <2> QED BY <2>1, <2>2
  <1>2. CASE RepairStoreRefs(p)
    <2>1. seen[p] \in Tables
      BY DEF LocalTypeOK, Tables
    <2>2. DbTypeOK'
      BY <1>2, <2>1, ReplaceStoreRefsType, TypeFrames DEF RepairStoreRefs
    <2>3. LocalTypeOK'
      BY <1>2, FinishType, ItemStepType DEF RepairStoreRefs, Steps, UnlockedSteps
    <2> QED BY <1>2, <2>2, <2>3, TypeFrames DEF RepairStoreRefs
  <1> QED BY <1>1, <1>2

\* repair deletes broken links and prunes keg_files.
LEMMA RepairEndType ==
    ASSUME TypeOK, NEW p \in Procs, RepairLinks(p) \/ RepairPrune(p)
    PROVE  TypeOK'
  <1> USE TypeParts
  <1>1. CASE RepairLinks(p)
    <2>1. DiskTypeOK'
      BY <1>1 DEF RepairLinks, DiskTypeOK
    <2>2. LocalTypeOK'
      BY <1>1, ItemStepType DEF RepairLinks, Steps, UnlockedSteps
    <2> QED BY <1>1, <2>1, <2>2, TypeFrames DEF RepairLinks
  <1>2. CASE RepairPrune(p)
    <2>1. DbTypeOK'
      BY <1>2, PruneType, TypeFrames DEF RepairPrune
    <2>2. OtherTypeOK'
      BY <1>2 DEF RepairPrune, OtherTypeOK
    <2> QED BY <1>2, <2>1, <2>2, FinishType, TypeFrames DEF RepairPrune
  <1> QED BY <1>1, <1>2

-----------------------------------------------------------------------------
(* Types: the specification.                                               *)

LEMMA CrashType ==
    ASSUME TypeOK, NEW p \in Procs, Crash(p)
    PROVE  TypeOK'
  <1> USE TypeParts
  <1>1. OtherTypeOK'
    BY DEF Crash, Release, OtherTypeOK
  <1> QED BY <1>1, FinishType, TypeFrames DEF Crash

LEMMA InitType == Init => TypeOK
  <1> SUFFICES ASSUME Init
               PROVE  TypeOK
    OBVIOUS
  <1>1. DbTypeOK
    BY DbInitType DEF Init
  <1>2. NoSeen \in [Names -> Rows \cup {NoRow}] /\ NoReport \in Reports
    BY DEF NoSeen, NoReport, Reports
  <1>3. plan \in [Procs -> SUBSET Items] /\ todo \in [Procs -> SUBSET Keys]
    BY DEF Init
  <1>4. task \in [Procs -> [Items -> TaskStates]] /\ pc \in [Procs -> Steps]
    BY DEF Init, TaskStates, Steps
  <1>5. target \in [Procs -> Targets]
    BY TargetTypes DEF Init
  <1>6. /\ seen \in [Procs -> [Names -> Rows \cup {NoRow}]]
        /\ report \in [Procs -> Reports]
        /\ doLink \in [Procs -> BOOLEAN]
    BY <1>2 DEF Init
  <1>7. /\ store \in [Keys -> {"absent", "partial", "whole"}]
        /\ relocated \in [CacheKeys -> Contents \cup {NoContent}]
        /\ cellar \in [Kegs -> Contents \cup {NoContent}]
        /\ linked \in [Tokens -> Versions \cup {NoVersion}]
    BY DEF Init
  <1>8. installLock \in Procs \cup {NoProc} /\ started \in Nat /\ repaired \in 0..2
    BY DEF Init
  <1> QED BY <1>1, <1>3, <1>4, <1>5, <1>6, <1>7, <1>8 DEF TypeOK

LEMMA UnlockedType ==
    ASSUME TypeOK, TargetOK, NEW p \in Procs, Unlocked(p)
    PROVE  TypeOK'
  BY UninstallType, RemoveEntryType, GcType, DoctorReadType, RepairKegsType,
     RepairMissingType, RepairRefsType, RepairEndType DEF Unlocked

LEMMA StutterType == TypeOK /\ UNCHANGED vars => TypeOK'
  BY DbStutterType DEF TypeOK, vars, diskVars, localVars, bookVars

LEMMA NextType == TypeOK /\ TargetOK /\ [Next]_vars => TypeOK'
  <1> SUFFICES ASSUME TypeOK, TargetOK, [Next]_vars
               PROVE  TypeOK'
    OBVIOUS
  <1>1. ASSUME NEW p \in Procs, Start(p)
        PROVE  TypeOK'
    BY <1>1, StartInstallType, StartLinkType, StartUninstallType, StartGcType,
       StartDoctorType DEF Start
  <1>2. ASSUME NEW p \in Procs, Acquire(p)
        PROVE  TypeOK'
    BY <1>2, AcquireForInstallType, AcquireForLinkType DEF Acquire
  <1>3. CASE UNCHANGED vars
    BY <1>3, StutterType
  <1> QED BY <1>1, <1>2, <1>3, LockedType, UnlockedType, CrashType DEF Next

-----------------------------------------------------------------------------
(* The lock.  An action takes it, drops it, or keeps to one side of it.    *)

\* pc changes at most for p.
Stays(p, S) == \E s \in S : pc' = [pc EXCEPT ![p] = s]

LEMMA LockTaken ==
    ASSUME TypeOK, LockHeld, NEW p \in Procs, Stays(p, LockedSteps),
           installLock = NoProc, installLock' = p
    PROVE  LockHeld'
  <1>1. \A q \in Procs : pc[q] \notin LockedSteps
    BY InstallerAssumption DEF LockHeld, InstallerAssumption
  <1> QED BY <1>1 DEF LockHeld, Stays, TypeOK

LEMMA LockKept ==
    ASSUME TypeOK, LockHeld, NEW p \in Procs, UNCHANGED installLock,
           \/ pc[p] \in LockedSteps /\ Stays(p, LockedSteps)
           \/ pc[p] \notin LockedSteps /\ Stays(p, Steps \ LockedSteps)
    PROVE  LockHeld'
  BY DEF LockHeld, Stays, TypeOK

LEMMA LockDropped ==
    ASSUME TypeOK, LockHeld, NEW p \in Procs, pc[p] \in LockedSteps,
           Stays(p, Steps \ LockedSteps), Release
    PROVE  LockHeld'
  <1>1. \A q \in Procs : pc[q] \in LockedSteps <=> q = p
    BY DEF LockHeld
  <1> QED BY <1>1, InstallerAssumption
          DEF LockHeld, Stays, TypeOK, Release, InstallerAssumption

\* Where the moves of a process lead.
LEMMA MoveStays ==
    ASSUME NEW p \in Procs
    PROVE  /\ Finish(p) => Stays(p, Steps \ LockedSteps)
           /\ ItemDone(p) => Stays(p, LockedSteps)
           /\ \A S : \A s \in S : Goto(p, s) \/ ItemStep(p, s) => Stays(p, S)
  BY DEF Finish, ItemDone, ItemStep, Goto, Stays, Steps, LockedSteps,
         UnlockedSteps, WaitingSteps

\* A process that starts or runs without the lock stays without it.
LEMMA UnlockedStays ==
    ASSUME TypeOK, NEW p \in Procs, Start(p) \/ Unlocked(p)
    PROVE  /\ pc[p] \notin LockedSteps /\ Stays(p, Steps \ LockedSteps)
           /\ UNCHANGED installLock
  <1>1. ASSUME Start(p)
        PROVE  /\ pc[p] \notin LockedSteps /\ Stays(p, Steps \ LockedSteps)
               /\ UNCHANGED installLock
    BY <1>1 DEF Start, StartInstall, StartLink, StartUnlink, StartUninstall,
                StartGc, StartDoctor, Begin, Goto, Stays, Steps, LockedSteps,
                UnlockedSteps, WaitingSteps
  <1>2. ASSUME Unlocked(p)
        PROVE  UNCHANGED installLock /\ pc[p] \in UnlockedSteps
    BY <1>2 DEF Unlocked, UnlockedSteps, At, UninstallUnlink, UninstallRecord,
                UninstallRemoveKeg, UninstallKegRemoved, GcRemoveEntry,
                GcEntryRemoved, GcDeleteRef, FinishGc, DoctorReadRefs,
                DoctorReadDisk, RepairUnlinkKeg, RepairRemoveKeg,
                RepairKegRemoved, RepairMissing, RepairListInstalled,
                RepairStoreRefs, RepairRemoveEntry, RepairEntryRemoved,
                RepairLinks, RepairPrune
  <1>3. UnlockedSteps \subseteq Steps \ LockedSteps
    BY DEF UnlockedSteps, Steps, LockedSteps
  <1>4. ASSUME Unlocked(p)
        PROVE  \/ Finish(p) \/ pc' = pc
               \/ \E s \in UnlockedSteps : Goto(p, s) \/ ItemStep(p, s)
    <2> USE <1>4 DEF UnlockedSteps
    <2>1. CASE \/ UninstallUnlink(p) \/ UninstallRecord(p)
               \/ UninstallRemoveKeg(p) \/ UninstallKegRemoved(p)
      BY <2>1 DEF UninstallUnlink, UninstallRecord, UninstallRemoveKeg,
                  UninstallKegRemoved
    <2>2. CASE \/ GcRemoveEntry(p) \/ GcEntryRemoved(p) \/ GcDeleteRef(p)
               \/ FinishGc(p)
      BY <2>2 DEF GcRemoveEntry, GcEntryRemoved, GcDeleteRef, FinishGc
    <2>3. CASE \/ DoctorReadRefs(p) \/ DoctorReadDisk(p)
               \/ RepairUnlinkKeg(p) \/ RepairRemoveKeg(p) \/ RepairKegRemoved(p)
      BY <2>3 DEF DoctorReadRefs, DoctorReadDisk, RepairUnlinkKeg,
                  RepairRemoveKeg, RepairKegRemoved
    <2>4. CASE RepairMissing(p) \/ RepairListInstalled(p) \/ RepairStoreRefs(p)
      BY <2>4 DEF RepairMissing, RepairListInstalled, RepairStoreRefs
    <2>5. CASE \/ RepairRemoveEntry(p) \/ RepairEntryRemoved(p)
               \/ RepairLinks(p) \/ RepairPrune(p)
      BY <2>5 DEF RepairRemoveEntry, RepairEntryRemoved, RepairLinks, RepairPrune
    <2> QED BY <2>1, <2>2, <2>3, <2>4, <2>5 DEF Unlocked
  <1>5. ASSUME Unlocked(p)
        PROVE  Stays(p, Steps \ LockedSteps)
    <2>1. CASE pc' = pc
      <3>1. pc' = [pc EXCEPT ![p] = pc[p]]
        BY <2>1 DEF TypeOK
      <3> QED BY <3>1, <1>2, <1>3, <1>5 DEF Stays
    <2>2. CASE \E s \in UnlockedSteps : Goto(p, s) \/ ItemStep(p, s)
      BY <2>2, <1>3, MoveStays
    <2> QED BY <1>4, <1>5, <2>1, <2>2, MoveStays
  <1> QED BY <1>1, <1>2, <1>3, <1>5

\* A process at a step under the lock goes on under it, or drops it.
LEMMA LockedStays ==
    ASSUME TypeOK, NEW p \in Procs, Locked(p)
    PROVE  /\ pc[p] \in LockedSteps
           /\ \/ Stays(p, LockedSteps) /\ UNCHANGED installLock
              \/ Stays(p, Steps \ LockedSteps) /\ Release
  <1>1. CASE Prepare(p)
    <2>1. PICK i \in Items : /\ pc[p] = "prepare"
                             /\ \E s \in TaskStates : SetTask(p, i, s)
      BY <1>1 DEF Prepare, Preparing, EnsureEntry, MaterializeFromRelocated,
                  CopyRelocated, Materialize, CopyStoreEntry, TaskStates
    <2>2. pc' = [pc EXCEPT ![p] = "prepare"] /\ UNCHANGED installLock
      BY <2>1 DEF SetTask, TypeOK
    <2> QED BY <2>1, <2>2 DEF Stays, LockedSteps
  <1>2. CASE NextItem(p)
    BY <1>2 DEF NextItem, Prepared, Goto, Stays, LockedSteps
  <1>3. CASE FinishInstall(p)
    BY <1>3, MoveStays DEF FinishInstall, Prepared, LockedSteps
  <1>4. CASE PostInstall(p) \/ SaveRelocated(p) \/ RecordItem(p)
    BY <1>4, MoveStays DEF PostInstall, SaveRelocated, RecordItem, At, LockedSteps
  <1>5. CASE CleanupKeg(p) \/ EndCleanup(p) \/ LinkItem(p) \/ RecordLinks(p)
    BY <1>5, MoveStays DEF CleanupKeg, EndCleanup, LinkItem, RecordLinks, At,
                           LockedSteps
  <1>6. CASE LinkInstalled(p) \/ PersistLinks(p)
    BY <1>6, MoveStays DEF LinkInstalled, PersistLinks, At, LockedSteps
  <1>7. CASE UnlinkInstalled(p) \/ ClearRows(p)
    BY <1>7, MoveStays DEF UnlinkInstalled, ClearRows, At, LockedSteps
  <1> QED BY <1>1, <1>2, <1>3, <1>4, <1>5, <1>6, <1>7 DEF Locked

LEMMA AcquireStays ==
    ASSUME TypeOK, NEW p \in Procs, Acquire(p)
    PROVE  /\ pc[p] \notin LockedSteps
           /\ \/ /\ installLock = NoProc /\ installLock' = p
                 /\ Stays(p, LockedSteps)
              \/ Stays(p, Steps \ LockedSteps) /\ UNCHANGED installLock
  <1>1. CASE AcquireForInstall(p)
    BY <1>1, MoveStays DEF AcquireForInstall, LockedSteps
  <1>2. CASE AcquireForLink(p)
    BY <1>2, MoveStays DEF AcquireForLink, LockedSteps
  <1> QED BY <1>1, <1>2 DEF Acquire

LEMMA NextLock == TypeOK /\ LockHeld /\ [Next]_vars => LockHeld'
  <1> SUFFICES ASSUME TypeOK, LockHeld, [Next]_vars
               PROVE  LockHeld'
    OBVIOUS
  <1>1. ASSUME NEW p \in Procs, Start(p) \/ Unlocked(p)
        PROVE  LockHeld'
    BY <1>1, UnlockedStays, LockKept
  <1>2. ASSUME NEW p \in Procs, Acquire(p)
        PROVE  LockHeld'
    BY <1>2, AcquireStays, LockTaken, LockKept
  <1>3. ASSUME NEW p \in Procs, Locked(p)
        PROVE  LockHeld'
    BY <1>3, LockedStays, LockDropped, LockKept
  <1>4. ASSUME NEW p \in Procs, Crash(p)
        PROVE  LockHeld'
    <2>1. Stays(p, Steps \ LockedSteps)
      BY <1>4, MoveStays DEF Crash
    <2>2. CASE installLock = p
      BY <1>4, <2>1, <2>2, LockDropped DEF Crash, LockHeld
    <2>3. CASE installLock # p
      BY <1>4, <2>1, <2>3, LockKept DEF Crash, LockHeld
    <2> QED BY <2>2, <2>3
  <1>5. CASE UNCHANGED vars
    BY <1>5 DEF vars, LockHeld
  <1> QED BY <1>1, <1>2, <1>3, <1>4, <1>5 DEF Next

-----------------------------------------------------------------------------
(* The targets.                                                            *)

\* Only p moves, to a step its target fits.
LEMMA TargetMoved ==
    ASSUME TypeOK, TargetOK, NEW p \in Procs, NEW s, NEW t,
           pc' = [pc EXCEPT ![p] = s], target' = [target EXCEPT ![p] = t],
           TargetFits(s, t)
    PROVE  TargetOK'
  <1> SUFFICES ASSUME NEW q \in Procs
               PROVE  TargetFits(pc'[q], target'[q])
    BY DEF TargetOK, TargetFits
  <1> QED BY DEF TargetOK, TypeOK

\* A step that asks no more of the target than the one before.
LEMMA TargetKept ==
    ASSUME TypeOK, TargetOK, NEW p \in Procs, NEW s, Goto(p, s), UNCHANGED target,
           TargetFits(pc[p], target[p]) => TargetFits(s, target[p])
    PROVE  TargetOK'
  <1>1. target' = [target EXCEPT ![p] = target[p]]
    BY DEF TypeOK
  <1>2. TargetFits(s, target[p])
    BY DEF TargetOK
  <1> QED BY <1>1, <1>2, TargetMoved DEF Goto

LEMMA TargetLost ==
    ASSUME TypeOK, TargetOK, NEW p \in Procs, Finish(p) \/ ItemDone(p)
    PROVE  TargetOK'
  <1>1. TargetFits("idle", NoTarget) /\ TargetFits("prepare", NoTarget)
    BY DEF TargetFits, ItemSteps, LockedSteps, UninstallSteps, RowWaitSteps
  <1> QED BY <1>1, TargetMoved DEF Finish, ItemDone, Goto

\* At a step that is in none of the three sets any target will do.
LEMMA FreeSteps ==
    ASSUME NEW s, NEW t,
           s \in {"idle", "wait_install", "prepare"}
                 \cup (UnlockedSteps \ UninstallSteps)
    PROVE  TargetFits(s, t)
  BY DEF TargetFits, ItemSteps, LockedSteps, UninstallSteps, RowWaitSteps,
         UnlockedSteps

LEMMA StartTarget ==
    ASSUME TypeOK, TargetOK, NEW p \in Procs, Start(p)
    PROVE  TargetOK'
  <1>1. CASE StartInstall(p)
    BY <1>1, FreeSteps, TargetKept DEF StartInstall
  <1>2. CASE StartLink(p) \/ StartUnlink(p)
    <2>1. PICK n \in Names, s \in RowWaitSteps :
              /\ target' = [target EXCEPT ![p] = [NoTarget EXCEPT !.name = n]]
              /\ Goto(p, s)
      BY <1>2 DEF StartLink, StartUnlink, RowWaitSteps
    <2>2. [NoTarget EXCEPT !.name = n].name = n
      BY DEF NoTarget
    <2>3. TargetFits(s, [NoTarget EXCEPT !.name = n])
      BY <2>2 DEF TargetFits, ItemSteps, LockedSteps, UninstallSteps, RowWaitSteps
    <2> QED BY <2>1, <2>3, TargetMoved DEF Goto
  <1>3. CASE StartUninstall(p)
    <2>1. PICK n \in Names, g \in Kegs :
            target' = [target EXCEPT ![p] = [name |-> n, keg |-> g, key |-> NoKey]]
      BY <1>3, TypeParts, RowTypeFacts DEF StartUninstall, FallbackKegs
    <2>2. TargetFits("u_unlink", [name |-> n, keg |-> g, key |-> NoKey])
      BY DEF TargetFits, ItemSteps, LockedSteps, RowWaitSteps
    <2> QED BY <1>3, <2>1, <2>2, TargetMoved DEF StartUninstall, Goto
  <1>4. CASE StartGc(p) \/ StartDoctor(p)
    <2>1. PICK s \in {"gc_next", "d_refs"} : Goto(p, s) /\ UNCHANGED target
      BY <1>4 DEF StartGc, StartDoctor
    <2> QED BY <2>1, FreeSteps, TargetKept DEF UnlockedSteps, UninstallSteps
  <1> QED BY <1>1, <1>2, <1>3, <1>4 DEF Start

LEMMA AcquireTarget ==
    ASSUME TypeOK, TargetOK, NEW p \in Procs, Acquire(p)
    PROVE  TargetOK'
  <1>1. CASE AcquireForInstall(p)
    BY <1>1, FreeSteps, TargetKept DEF AcquireForInstall
  <1>2. CASE AcquireForLink(p)
    <2>1. CASE installed[target[p].name] = NoRow
      BY <1>2, <2>1, TargetLost DEF AcquireForLink
    <2>2. CASE installed[target[p].name] # NoRow
      <3>1. target[p].name \in Names
        BY <1>2 DEF AcquireForLink, TargetOK, TargetFits, RowWaitSteps
      <3>2. target'[p] \in FullTargets
        BY <1>2, <2>2, <3>1, TargetRowType DEF AcquireForLink
      <3>3. PICK s \in {"link_keg", "unlink_keg"} : Goto(p, s)
        BY <1>2, <2>2 DEF AcquireForLink
      <3>4. target' = [target EXCEPT ![p] = target'[p]]
        BY <1>2, <2>2 DEF AcquireForLink, TargetRow, TypeOK
      <3>5. TargetFits(s, target'[p])
        BY <3>2 DEF TargetFits, UninstallSteps, RowWaitSteps
      <3> QED BY <3>3, <3>4, <3>5, TargetMoved DEF Goto
    <2> QED BY <2>1, <2>2
  <1> QED BY <1>1, <1>2 DEF Acquire

\* Inside the loop over the items, and in link and unlink, the target stays.
LEMMA ItemStepTarget ==
    ASSUME TypeOK, TargetOK, NEW p \in Procs, NEW s \in ItemSteps,
           pc[p] \in ItemSteps, ItemStep(p, s)
    PROVE  TargetOK'
  <1>1. TargetFits(s, target[p])
    BY TargetAt DEF TargetFits, ItemSteps, LockedSteps, UninstallSteps, RowWaitSteps
  <1> QED BY <1>1, TargetKept DEF ItemStep

LEMMA LockedTarget ==
    ASSUME TypeOK, TargetOK, NEW p \in Procs, Locked(p)
    PROVE  TargetOK'
  <1>1. CASE Prepare(p)
    <2>1. UNCHANGED <<pc, target>>
      BY <1>1 DEF Prepare, SetTask, EnsureEntry, MaterializeFromRelocated,
                  CopyRelocated, Materialize, CopyStoreEntry
    <2> QED BY <2>1 DEF TargetOK
  <1>2. CASE NextItem(p)
    <2>1. PICK i \in Items : target' = [target EXCEPT ![p] =
                       [name |-> i.name, keg |-> KegOf(i), key |-> i.key]]
      BY <1>2 DEF NextItem, TypeOK
    <2>2. TargetFits("post_install",
                     [name |-> i.name, keg |-> KegOf(i), key |-> i.key])
      BY ItemTypes DEF TargetFits, UninstallSteps, RowWaitSteps
    <2> QED BY <1>2, <2>1, <2>2, TargetMoved DEF NextItem, Goto
  <1>3. CASE ~Prepare(p) /\ ~NextItem(p)
    <2>1. FinishInstall(p) \/ pc[p] \in ItemSteps
      BY <1>3 DEF Locked, At, ItemSteps, LockedSteps, PostInstall, SaveRelocated,
                  RecordItem, CleanupKeg, EndCleanup, LinkItem, RecordLinks,
                  LinkInstalled, PersistLinks, UnlinkInstalled, ClearRows
    <2>2. CASE FinishInstall(p)
      BY <2>2, TargetLost DEF FinishInstall
    <2>3. CASE pc[p] \in ItemSteps
      BY <1>3, <2>3, LockedMoves, TargetLost, ItemStepTarget DEF Moves
    <2> QED BY <2>1, <2>2, <2>3
  <1> QED BY <1>1, <1>2, <1>3

LEMMA UnlockedTarget ==
    ASSUME TypeOK, TargetOK, NEW p \in Procs, Unlocked(p)
    PROVE  TargetOK'
  <1>1. CASE UninstallUnlink(p)
    <2>1. CASE Finish(p)
      BY <2>1, TargetLost
    <2>2. CASE ~Finish(p)
      <3> DEFINE key == installed[target[p].name].key
      <3>1. target' = [target EXCEPT ![p] = [target[p] EXCEPT !.key = key]]
        BY <1>1, <2>2 DEF UninstallUnlink, TypeOK
      <3>2. target[p].name \in Names /\ target[p].keg \in Kegs
        BY <1>1 DEF UninstallUnlink, At, TargetOK, TargetFits, UninstallSteps
      <3>3. /\ [target[p] EXCEPT !.key = key].name = target[p].name
            /\ [target[p] EXCEPT !.key = key].keg = target[p].keg
        BY DEF TypeOK, Targets
      <3> HIDE DEF key
      <3>4. TargetFits("u_record", [target[p] EXCEPT !.key = key])
        BY <3>2, <3>3 DEF TargetFits, ItemSteps, LockedSteps, RowWaitSteps
      <3> QED BY <1>1, <2>2, <3>1, <3>4, TargetMoved DEF UninstallUnlink, Goto
    <2> QED BY <2>1, <2>2
  <1>2. CASE UninstallRecord(p) \/ UninstallRemoveKeg(p) \/ UninstallKegRemoved(p)
    <2>1. \/ Finish(p)
          \/ /\ pc[p] \in UninstallSteps
             /\ \E s \in {"u_remove", "u_removed"} : ItemStep(p, s)
      BY <1>2 DEF UninstallRecord, UninstallRemoveKeg, UninstallKegRemoved, At,
                  UninstallSteps
    <2>2. pc[p] \in UninstallSteps =>
              \A s \in {"u_remove", "u_removed"} : TargetFits(s, target[p])
      BY DEF TargetOK, TargetFits, UninstallSteps, ItemSteps, LockedSteps,
             RowWaitSteps
    <2> QED BY <2>1, <2>2, TargetLost, TargetKept DEF ItemStep
  <1>3. CASE ~UninstallUnlink(p) /\ ~UninstallRecord(p)
             /\ ~UninstallRemoveKeg(p) /\ ~UninstallKegRemoved(p)
    <2> DEFINE Free == UnlockedSteps \ UninstallSteps
    <2>1. \/ Finish(p)
          \/ /\ pc'[p] \in Free
             /\ \A q \in Procs \ {p} : pc'[q] = pc[q] /\ target'[q] = target[q]
      <3> USE DEF UnlockedSteps, UninstallSteps, At, ItemStep, Goto, TypeOK
      <3>1. CASE \/ GcRemoveEntry(p) \/ GcEntryRemoved(p) \/ GcDeleteRef(p)
                 \/ FinishGc(p)
        BY <3>1 DEF GcRemoveEntry, GcEntryRemoved, GcDeleteRef, FinishGc
      <3>2. CASE \/ DoctorReadRefs(p) \/ DoctorReadDisk(p)
        BY <3>2 DEF DoctorReadRefs, DoctorReadDisk
      <3>3. CASE RepairUnlinkKeg(p) \/ RepairRemoveKeg(p) \/ RepairKegRemoved(p)
        BY <3>3 DEF RepairUnlinkKeg, RepairRemoveKeg, RepairKegRemoved
      <3>4. CASE RepairMissing(p) \/ RepairListInstalled(p) \/ RepairStoreRefs(p)
        BY <3>4 DEF RepairMissing, RepairListInstalled, RepairStoreRefs
      <3>5. CASE \/ RepairRemoveEntry(p) \/ RepairEntryRemoved(p)
                 \/ RepairLinks(p) \/ RepairPrune(p)
        BY <3>5 DEF RepairRemoveEntry, RepairEntryRemoved, RepairLinks, RepairPrune
      <3> QED BY <1>3, <3>1, <3>2, <3>3, <3>4, <3>5 DEF Unlocked
    <2>2. CASE Finish(p)
      BY <2>2, TargetLost
    <2>3. CASE ~Finish(p)
      <3>1. TargetFits(pc'[p], target'[p])
        BY <2>1, <2>3, FreeSteps
      <3> QED BY <2>1, <2>3, <3>1 DEF TargetOK
    <2> QED BY <2>2, <2>3
  <1> QED BY <1>1, <1>2, <1>3

LEMMA NextTarget == TypeOK /\ TargetOK /\ [Next]_vars => TargetOK'
  <1>1. ASSUME TypeOK, TargetOK, NEW p \in Procs, Crash(p)
        PROVE  TargetOK'
    BY <1>1, TargetLost DEF Crash
  <1>2. TargetOK /\ UNCHANGED vars => TargetOK'
    BY DEF vars, localVars, TargetOK
  <1> QED BY <1>1, <1>2, StartTarget, AcquireTarget, LockedTarget, UnlockedTarget
          DEF Next

-----------------------------------------------------------------------------
(* The theorems.                                                           *)

LEMMA InitInv == Init => Inv
  <1> SUFFICES ASSUME Init
               PROVE  LockHeld /\ TargetOK
    BY InitType DEF Inv
  <1>1. LockHeld
    BY InstallerAssumption DEF Init, InstallerAssumption, LockHeld, LockedSteps
  <1>2. TargetOK
    BY FreeSteps DEF Init, TargetOK
  <1> QED BY <1>1, <1>2

LEMMA NextInv == Inv /\ [Next]_vars => Inv'
  BY NextType, NextLock, NextTarget DEF Inv

LEMMA InvHolds == Spec => []Inv
  BY InitInv, NextInv, PTL DEF Spec

\* Every variable keeps its type, whatever fails, crashes or interleaves: the
\* installer never records, links or removes a keg of a target it has not
\* looked up.
THEOREM TypeCorrect == Spec => []TypeOK
  <1>1. Inv => TypeOK
    BY DEF Inv
  <1> QED BY <1>1, InvHolds, PTL

\* install, link and unlink exclude each other by locks/install.lock, and the
\* lock is free again after every early return, error path and crash.
THEOREM LockCorrect == Spec => []LockHeld
  <1>1. Inv => LockHeld
    BY DEF Inv
  <1> QED BY <1>1, InvHolds, PTL

\* At most one process at a time works on an install, link or unlink.
THEOREM MutualExclusion ==
    Spec => [](\A p, q \in Procs :
                   pc[p] \in LockedSteps /\ pc[q] \in LockedSteps => p = q)
  <1>1. LockHeld => \A p, q \in Procs :
                        pc[p] \in LockedSteps /\ pc[q] \in LockedSteps => p = q
    BY DEF LockHeld
  <1> QED BY <1>1, LockCorrect, PTL

-----------------------------------------------------------------------------
(* References.  At every step of every command, through failures and       *)
(* crashes, the count of a store key covers the installed rows that use    *)
(* it, and gc and repair remove only entries whose count is 0.             *)

AtMostOne == \A p, q \in Procs : pc[p] # "idle" /\ pc[q] # "idle" => p = q

Covered == UsedKeysHaveRows /\ \A k \in Keys : Surplus(k) >= 0

GcSteps     == {"gc_next", "gc_removed", "gc_ref"}
RepairSteps == {"repair", "r_keg", "r_keg_removed", "r_refs", "r_store",
                "r_store_removed"}
ReadSteps   == GcSteps \cup RepairSteps \cup {"d_disk"}

\* What gc and repair have read is still so.
ReadsFit(p) ==
    /\ pc[p] \in GcSteps => \A k \in todo[p] : refcount[k] <= 0
    /\ pc[p] \in GcSteps \ {"gc_next"} =>
           target[p].key \in Keys /\ refcount[target[p].key] <= 0
    /\ pc[p] = "d_disk" => todo[p] = refKeys
    /\ pc[p] \in RepairSteps => todo[p] \cap refKeys = {}
    /\ pc[p] = "r_refs" => seen[p] = installed
    /\ pc[p] = "r_store_removed" => target[p].key \in Keys \ refKeys

SerialInv == Inv /\ AtMostOne /\ Covered /\ \A p \in Procs : ReadsFit(p)

-----------------------------------------------------------------------------
(* Only one process moves, and the others are idle.                        *)

\* Every action of p moves p only; all but the start of a command need p to
\* be at a step of one.
LEMMA StepMoves ==
    ASSUME TypeOK, NEW p \in Procs,
           Start(p) \/ Acquire(p) \/ Locked(p) \/ Unlocked(p) \/ Crash(p)
    PROVE  /\ Stays(p, Steps)
           /\ Start(p) \/ pc[p] # "idle"
  <1>1. \A S : Stays(p, S) /\ S \subseteq Steps => Stays(p, Steps)
    BY DEF Stays
  <1>2. LockedSteps \subseteq Steps
    BY DEF Steps
  <1>3. CASE Start(p)
    BY <1>1, <1>3, UnlockedStays
  <1>4. CASE Acquire(p)
    <2>1. pc[p] # "idle"
      BY <1>4 DEF Acquire, AcquireForInstall, AcquireForLink
    <2> QED BY <1>1, <1>2, <1>4, <2>1, AcquireStays
  <1>5. CASE Locked(p)
    <2>1. pc[p] # "idle"
      BY <1>5, LockedStays DEF LockedSteps
    <2> QED BY <1>1, <1>2, <1>5, <2>1, LockedStays
  <1>6. CASE Unlocked(p)
    <2>1. pc[p] # "idle"
      BY <1>6 DEF Unlocked, At, UninstallUnlink, UninstallRecord,
                  UninstallRemoveKeg, UninstallKegRemoved, GcRemoveEntry,
                  GcEntryRemoved, GcDeleteRef, FinishGc, DoctorReadRefs,
                  DoctorReadDisk, RepairUnlinkKeg, RepairRemoveKeg,
                  RepairKegRemoved, RepairMissing, RepairListInstalled,
                  RepairStoreRefs, RepairRemoveEntry, RepairEntryRemoved,
                  RepairLinks, RepairPrune
    <2> QED BY <1>1, <1>6, <2>1, UnlockedStays
  <1>7. CASE Crash(p)
    BY <1>1, <1>7, MoveStays DEF Crash
  <1> QED BY <1>3, <1>4, <1>5, <1>6, <1>7

LEMMA OthersIdle ==
    ASSUME ~Overlap, TypeOK, AtMostOne, NEW p \in Procs,
           Start(p) \/ Acquire(p) \/ Locked(p) \/ Unlocked(p) \/ Crash(p)
    PROVE  /\ \A q \in Procs \ {p} : pc'[q] = "idle"
           /\ AtMostOne'
  <1>1. \A q \in Procs \ {p} : pc[q] = "idle"
    <2>1. CASE Start(p)
      BY <2>1 DEF Start, StartInstall, StartLink, StartUnlink, StartUninstall,
                  StartGc, StartDoctor, Begin
    <2>2. CASE pc[p] # "idle"
      BY <2>2 DEF AtMostOne
    <2> QED BY <2>1, <2>2, StepMoves
  <1>2. \A q \in Procs \ {p} : pc'[q] = pc[q]
    BY StepMoves DEF Stays, TypeOK
  <1>3. \A q \in Procs \ {p} : pc'[q] = "idle"
    BY <1>1, <1>2
  <1> QED BY <1>3 DEF AtMostOne

\* A step that leads out of the reading commands keeps what others have read.
LEMMA ReadsLeft ==
    ASSUME NEW p \in Procs, NEW q \in Procs, pc'[q] \notin ReadSteps
    PROVE  ReadsFit(q)'
  BY DEF ReadsFit, ReadSteps, GcSteps, RepairSteps

-----------------------------------------------------------------------------
(* Steps that do not read ahead: install, link, unlink and uninstall.      *)

LEMMA CoveredFrame ==
    ASSUME Covered, UNCHANGED <<installed, refKeys, refcount>>
    PROVE  Covered'
  BY CountsFrame DEF Covered

\* record_install and record_uninstall change a count with its rows.
LEMMA CoveredRecord ==
    ASSUME DbTypeOK, Covered, NEW n \in Names,
           \/ \E v \in Versions, k \in Keys : RecordInstall(n, v, k)
           \/ RecordUninstall(n)
    PROVE  Covered'
  <1>1. ASSUME NEW v \in Versions, NEW k \in Keys, RecordInstall(n, v, k)
        PROVE  Covered'
    <2>1. UsedKeysHaveRows'
      BY <1>1, RecordInstallKeepsRows DEF Covered
    <2>2. \A x \in Keys : Surplus(x)' = Surplus(x)
      BY <1>1, RecordInstallBalance DEF Covered
    <2> QED BY <2>1, <2>2 DEF Covered
  <1>2. ASSUME RecordUninstall(n)
        PROVE  Covered'
    <2>1. UsedKeysHaveRows'
      BY <1>2, RecordUninstallKeepsRows DEF Covered
    <2>2. \A x \in Keys : Surplus(x)' = Surplus(x)
      BY <1>2, RecordUninstallBalance DEF Covered
    <2> QED BY <2>1, <2>2 DEF Covered
  <1> QED BY <1>1, <1>2

LEMMA LockedCovered ==
    ASSUME Inv, Covered, NEW p \in Procs, Locked(p)
    PROVE  Covered'
  <1>1. DbTypeOK /\ TargetOK
    BY TypeParts DEF Inv
  <1>2. CASE RecordItem(p)
    <2>1. pc[p] \in ItemSteps
      BY <1>2 DEF RecordItem, At, ItemSteps, LockedSteps
    <2>2. /\ target[p].name \in Names /\ target[p].keg[2] \in Versions
          /\ target[p].key \in Keys
      BY <1>1, <2>1, TargetAt
    <2>3. \/ RecordInstall(target[p].name, target[p].keg[2], target[p].key)
          \/ UNCHANGED dbVars
      BY <1>2 DEF RecordItem
    <2> QED BY <1>1, <2>2, <2>3, CoveredRecord, CoveredFrame DEF dbVars
  <1>3. CASE ~RecordItem(p)
    <2>1. UNCHANGED <<installed, refKeys, refcount>>
      BY <1>3 DEF Locked, Prepare, SetTask, EnsureEntry, MaterializeFromRelocated,
                  CopyRelocated, Materialize, CopyStoreEntry, NextItem,
                  FinishInstall, PostInstall, SaveRelocated, CleanupKeg,
                  EndCleanup, LinkItem, RecordLinks, LinkInstalled, PersistLinks,
                  UnlinkInstalled, ClearRows, RecordLinkedFile,
                  ClearKegFileRecords, dbVars
    <2> QED BY <2>1, CoveredFrame
  <1> QED BY <1>2, <1>3

LEMMA UninstallCovered ==
    ASSUME Inv, Covered, NEW p \in Procs,
           \/ UninstallUnlink(p) \/ UninstallRecord(p)
           \/ UninstallRemoveKeg(p) \/ UninstallKegRemoved(p)
    PROVE  Covered' /\ pc'[p] \notin ReadSteps
  <1>1. DbTypeOK /\ TargetOK
    BY TypeParts DEF Inv
  <1>2. target[p].name \in Names
    BY <1>1 DEF UninstallUnlink, UninstallRecord, UninstallRemoveKeg,
                UninstallKegRemoved, At, TargetOK, TargetFits, UninstallSteps
  <1>3. RecordUninstall(target[p].name) \/ UNCHANGED dbVars
    BY DEF UninstallUnlink, UninstallRecord, UninstallRemoveKeg,
           UninstallKegRemoved
  <1>4. Covered'
    BY <1>1, <1>2, <1>3, CoveredRecord, CoveredFrame DEF dbVars
  <1>5. pc'[p] \notin ReadSteps
    BY DEF UninstallUnlink, UninstallRecord, UninstallRemoveKeg,
           UninstallKegRemoved, Finish, ItemStep, Goto, Inv, TypeOK, ReadSteps,
           GcSteps, RepairSteps
  <1> QED BY <1>4, <1>5

-----------------------------------------------------------------------------
(* gc.                                                                     *)

LEMMA StartGcReads ==
    ASSUME Inv, NEW p \in Procs, StartGc(p)
    PROVE  ReadsFit(p)'
  <1>1. /\ pc'[p] = "gc_next" /\ todo'[p] = UnreferencedStoreKeys
        /\ UNCHANGED refcount
    BY DEF StartGc, Goto, Inv, TypeOK, dbVars
  <1> QED BY <1>1 DEF ReadsFit, GcSteps, RepairSteps, UnreferencedStoreKeys

LEMMA GcReads ==
    ASSUME Inv, Covered, NEW p \in Procs, ReadsFit(p),
           \/ GcRemoveEntry(p) \/ GcEntryRemoved(p) \/ GcDeleteRef(p)
           \/ FinishGc(p)
    PROVE  Covered' /\ ReadsFit(p)'
  <1> USE DEF Inv, At, Goto, ItemStep
  <1>0. /\ \A k \in todo[p] : k \in Keys /\ refcount[k] <= 0
        /\ pc[p] \in GcSteps
    BY DEF GcRemoveEntry, GcEntryRemoved, GcDeleteRef, FinishGc, ReadsFit, GcSteps,
           TypeOK
  <1>1. CASE Finish(p)
    <2>1. pc'[p] \notin ReadSteps
      BY <1>1 DEF Finish, TypeOK, ReadSteps, GcSteps, RepairSteps
    <2>2. UNCHANGED dbVars
      BY <1>1 DEF GcRemoveEntry, GcEntryRemoved, GcDeleteRef, FinishGc, Finish,
                  TypeOK
    <2> QED BY <2>1, <2>2, ReadsLeft, CoveredFrame DEF dbVars
  <1>2. CASE GcRemoveEntry(p)
    <2>1. PICK k \in todo[p] :
              /\ target' = [target EXCEPT ![p] = [NoTarget EXCEPT !.key = k]]
              /\ todo' = [todo EXCEPT ![p] = @ \ {k}]
              /\ Goto(p, "gc_ref") \/ Goto(p, "gc_removed")
      BY <1>2 DEF GcRemoveEntry
    <2>2. UNCHANGED dbVars
      BY <1>2 DEF GcRemoveEntry
    <2>3. pc'[p] \in {"gc_ref", "gc_removed"}
      BY <2>1 DEF TypeOK
    <2>4. target'[p].key = k /\ todo'[p] = todo[p] \ {k}
      BY <2>1 DEF TypeOK, NoTarget
    <2>5. ReadsFit(p)'
      BY <1>0, <2>1, <2>2, <2>3, <2>4 DEF ReadsFit, GcSteps, RepairSteps, dbVars
    <2> QED BY <2>2, <2>5, CoveredFrame DEF dbVars
  <1>3. CASE GcEntryRemoved(p) /\ ~Finish(p)
    <2>1. /\ pc'[p] = "gc_ref" /\ pc[p] = "gc_removed"
          /\ UNCHANGED <<dbVars, target, todo>>
      BY <1>3 DEF GcEntryRemoved, TypeOK
    <2>2. ReadsFit(p)'
      BY <2>1 DEF ReadsFit, GcSteps, RepairSteps, dbVars
    <2> QED BY <2>1, <2>2, CoveredFrame DEF dbVars
  <1>4. CASE GcDeleteRef(p) /\ ~Finish(p)
    <2> DEFINE k == target[p].key
    <2>1. /\ pc'[p] = "gc_next" /\ pc[p] = "gc_ref" /\ todo' = todo
          /\ DeleteStoreRef(k)
      BY <1>4 DEF GcDeleteRef, TypeOK
    <2>2. k \in Keys /\ refcount[k] <= 0
      BY <2>1 DEF ReadsFit, GcSteps
    <2>3. Users(k) = {}
      BY <2>2, TypeParts, UnreferencedUnused DEF Covered
    <2> HIDE DEF k
    <2>4. Covered'
      <3>1. UsedKeysHaveRows'
        BY <2>1, <2>2, <2>3, TypeParts, DeleteStoreRefKeepsRows DEF Covered
      <3>2. \A x \in Keys : Surplus(x)' = IF x = k THEN 0 ELSE Surplus(x)
        BY <2>1, <2>2, <2>3, TypeParts, DeleteStoreRefSurplus
      <3> QED BY <3>1, <3>2 DEF Covered
    <2>5. \A x \in todo[p] : refcount'[x] <= 0
      BY <1>0, <2>1, <2>2, TypeParts DEF DeleteStoreRef, DbTypeOK
    <2>6. ReadsFit(p)'
      BY <2>1, <2>5 DEF ReadsFit, GcSteps, RepairSteps
    <2> QED BY <2>4, <2>6
  <1>5. FinishGc(p) => Finish(p)
    BY DEF FinishGc
  <1> QED BY <1>1, <1>2, <1>3, <1>4, <1>5

-----------------------------------------------------------------------------
(* doctor and repair.                                                      *)

\* doctor reads the keys of store_refs, then finds orphaned entries among the
\* keys that are not there.
LEMMA DoctorReads ==
    ASSUME Inv, Covered, NEW p \in Procs, ReadsFit(p),
           DoctorReadRefs(p) \/ DoctorReadDisk(p)
    PROVE  Covered' /\ ReadsFit(p)'
  <1> USE DEF Inv, At, Goto
  <1>0. UNCHANGED dbVars
    BY DEF DoctorReadRefs, DoctorReadDisk
  <1>1. CASE DoctorReadRefs(p)
    <2>1. pc'[p] = "d_disk" /\ todo'[p] = refKeys
      BY <1>1 DEF DoctorReadRefs, TypeOK
    <2> QED BY <1>0, <2>1, CoveredFrame DEF ReadsFit, GcSteps, RepairSteps, dbVars
  <1>2. CASE DoctorReadDisk(p)
    <2>1. todo[p] = refKeys
      BY <1>2 DEF DoctorReadDisk, ReadsFit
    <2>2. \/ pc'[p] = "idle"
          \/ pc'[p] = "repair" /\ todo'[p] = OrphanEntries(seen[p], todo[p])
      BY <1>2 DEF DoctorReadDisk, Finish, TypeOK
    <2>3. ReadsFit(p)'
      BY <1>0, <2>1, <2>2 DEF OrphanEntries, ReadsFit, GcSteps, RepairSteps, dbVars
    <2> QED BY <1>0, <2>3, CoveredFrame DEF dbVars
  <1> QED BY <1>1, <1>2

\* The steps of repair that change no count, but for delete_installed_record.
LEMMA RepairFilesReads ==
    ASSUME Inv, Covered, NEW p \in Procs, ReadsFit(p),
           \/ RepairUnlinkKeg(p) \/ RepairRemoveKeg(p) \/ RepairKegRemoved(p)
           \/ RepairListInstalled(p) \/ RepairLinks(p) \/ RepairPrune(p)
    PROVE  Covered' /\ ReadsFit(p)'
  <1> USE DEF Inv, At, Goto, ItemStep, Finish, TypeOK
  <1>1. UNCHANGED <<installed, refKeys, refcount>>
    BY DEF RepairUnlinkKeg, RepairRemoveKeg, RepairKegRemoved, RepairListInstalled,
           RepairLinks, RepairPrune, PruneStaleKegFileRecords, dbVars
  <1>2. CASE RepairUnlinkKeg(p) \/ RepairRemoveKeg(p) \/ RepairKegRemoved(p)
    <2>1. /\ pc[p] \in RepairSteps
          /\ \/ pc'[p] = "idle"
             \/ /\ pc'[p] \in {"repair", "r_keg", "r_keg_removed"}
                /\ todo' = todo
      BY <1>2 DEF RepairUnlinkKeg, RepairRemoveKeg, RepairKegRemoved, RepairSteps
    <2>2. ReadsFit(p)'
      BY <1>1, <2>1 DEF ReadsFit, GcSteps, RepairSteps
    <2> QED BY <1>1, <2>2, CoveredFrame
  <1>3. CASE RepairListInstalled(p)
    <2>1. /\ pc[p] \in RepairSteps
          /\ \/ pc'[p] = "r_refs" /\ seen'[p] = installed /\ todo' = todo
             \/ pc'[p] = "r_store" /\ todo' = todo
             \/ pc'[p] = "idle"
      BY <1>3 DEF RepairListInstalled, RepairSteps
    <2>2. ReadsFit(p)'
      BY <1>1, <2>1 DEF ReadsFit, GcSteps, RepairSteps
    <2> QED BY <1>1, <2>2, CoveredFrame
  <1>4. CASE RepairLinks(p) \/ RepairPrune(p)
    <2>1. pc'[p] \notin ReadSteps
      BY <1>4 DEF RepairLinks, RepairPrune, ReadSteps, GcSteps, RepairSteps
    <2> QED BY <1>1, <2>1, ReadsLeft, CoveredFrame
  <1> QED BY <1>2, <1>3, <1>4

LEMMA RepairMissingReads ==
    ASSUME Inv, Covered, NEW p \in Procs, ReadsFit(p), RepairMissing(p)
    PROVE  Covered' /\ ReadsFit(p)'
  <1>0. DbTypeOK /\ report[p] \in Reports
    BY TypeParts DEF Inv, LocalTypeOK
  <1>1. CASE Finish(p) /\ UNCHANGED dbVars
    <2>1. pc'[p] \notin ReadSteps
      BY <1>1 DEF Finish, Goto, Inv, TypeOK, ReadSteps, GcSteps, RepairSteps
    <2> QED BY <1>1, <2>1, ReadsLeft, CoveredFrame DEF dbVars
  <1>2. CASE ~(Finish(p) /\ UNCHANGED dbVars)
    <2>1. PICK n \in report[p].missing : /\ DeleteInstalledRecord(n)
                                         /\ UNCHANGED <<pc, todo>>
      BY <1>2 DEF RepairMissing
    <2>2. n \in Names
      BY <1>0, <2>1 DEF Reports
    <2>3. UsedKeysHaveRows'
      BY <1>0, <2>1, <2>2, DeleteInstalledRecordKeepsRows DEF Covered
    <2>4. \A x \in Keys : Surplus(x)' >= Surplus(x)
      BY <1>0, <2>1, <2>2, DeleteInstalledRecordSurplus
    <2>5. \A x \in Keys : Surplus(x) \in Int /\ Surplus(x)' \in Int
      <3>1. \A x \in Keys : /\ Cardinality(UsersIn(installed, x)) \in Nat
                            /\ Cardinality(UsersIn(installed', x)) \in Nat
        BY UsersFinite
      <3>2. refcount' = refcount
        BY <2>1 DEF DeleteInstalledRecord
      <3>3. \A x \in Keys : Cardinality(Users(x)) \in Nat
        BY <3>1 DEF Users
      <3>4. \A x \in Keys : Cardinality(Users(x)') \in Nat
        BY <3>1 DEF Users, UsersIn
      <3>5. \A x \in Keys : refcount[x] \in Int /\ refcount'[x] \in Int
        BY <1>0, <3>2 DEF DbTypeOK
      <3> QED BY <3>3, <3>4, <3>5 DEF Surplus
    <2>6. Covered'
      BY <2>3, <2>4, <2>5 DEF Covered
    <2>7. UNCHANGED <<refKeys, refcount>>
      BY <2>1 DEF DeleteInstalledRecord
    <2>8. ReadsFit(p)'
      BY <2>1, <2>7 DEF RepairMissing, At, ReadsFit, GcSteps, RepairSteps
    <2> QED BY <2>6, <2>8
  <1> QED BY <1>1, <1>2

\* The recount is exact: the rows it uses are still the rows of the database.
\* A key that had no row before it has no user, and so no row after it.
LEMMA RepairStoreRefsReads ==
    ASSUME Inv, Covered, NEW p \in Procs, ReadsFit(p), RepairStoreRefs(p)
    PROVE  Covered' /\ ReadsFit(p)'
  <1> USE DEF Inv, At, Goto, ItemStep, TypeOK
  <1>1. CASE Finish(p) /\ UNCHANGED dbVars
    <2>1. pc'[p] \notin ReadSteps
      BY <1>1 DEF Finish, ReadSteps, GcSteps, RepairSteps
    <2> QED BY <1>1, <2>1, ReadsLeft, CoveredFrame DEF dbVars
  <1>2. CASE ~(Finish(p) /\ UNCHANGED dbVars)
    <2>1. /\ ReplaceStoreRefs(installed) /\ pc'[p] = "r_store" /\ todo' = todo
          /\ todo[p] \cap refKeys = {}
      BY <1>2 DEF RepairStoreRefs, ReadsFit, RepairSteps
    <2>2. Covered'
      <3>1. UsedKeysHaveRows'
        BY <2>1, ReplaceStoreRefsHasRows
      <3>2. \A x \in Keys : Surplus(x)' = 0
        BY <2>1, ReplaceStoreRefsExact
      <3> QED BY <3>1, <3>2 DEF Covered
    <2>3. todo[p] \cap refKeys' = {}
      BY <2>1 DEF ReplaceStoreRefs, Covered, UsedKeysHaveRows, Users
    <2>4. ReadsFit(p)'
      BY <2>1, <2>3 DEF ReadsFit, GcSteps, RepairSteps
    <2> QED BY <2>2, <2>4
  <1> QED BY <1>1, <1>2

LEMMA RepairEntryReads ==
    ASSUME Inv, Covered, NEW p \in Procs, ReadsFit(p),
           RepairRemoveEntry(p) \/ RepairEntryRemoved(p)
    PROVE  Covered' /\ ReadsFit(p)'
  <1> USE DEF Inv, At, Goto, ItemStep, TypeOK
  <1>0. UNCHANGED dbVars /\ pc[p] \in RepairSteps
    BY DEF RepairRemoveEntry, RepairEntryRemoved, RepairSteps
  <1>1. CASE RepairRemoveEntry(p)
    <2>1. PICK k \in todo[p] :
              /\ todo' = [todo EXCEPT ![p] = @ \ {k}]
              /\ \/ UNCHANGED pc
                 \/ /\ target' = [target EXCEPT ![p] = [NoTarget EXCEPT !.key = k]]
                    /\ pc' = [pc EXCEPT ![p] = "r_store_removed"]
      BY <1>1 DEF RepairRemoveEntry
    <2>2. pc[p] = "r_store" /\ k \in Keys
      BY <1>1, <2>1 DEF RepairRemoveEntry
    <2>3. todo'[p] = todo[p] \ {k}
      BY <2>1
    <2>4. pc'[p] = "r_store_removed" => target'[p].key = k
      BY <2>1, <2>2 DEF NoTarget
    <2>5. pc'[p] \in {"r_store", "r_store_removed"}
      BY <2>1, <2>2
    <2>6. ReadsFit(p)'
      BY <1>0, <2>1, <2>2, <2>3, <2>4, <2>5 DEF ReadsFit, GcSteps, RepairSteps, dbVars
    <2> QED BY <1>0, <2>6, CoveredFrame DEF dbVars
  <1>2. CASE RepairEntryRemoved(p)
    <2>1. pc'[p] = "idle" \/ (pc'[p] = "r_store" /\ todo' = todo)
      BY <1>2 DEF RepairEntryRemoved, Finish
    <2>2. ReadsFit(p)'
      BY <1>0, <2>1 DEF ReadsFit, GcSteps, RepairSteps, dbVars
    <2> QED BY <1>0, <2>2, CoveredFrame DEF dbVars
  <1> QED BY <1>1, <1>2

-----------------------------------------------------------------------------
(* The invariant and the theorems.                                         *)

LEMMA StepSerial ==
    ASSUME ~Overlap, SerialInv, NEW p \in Procs,
           Start(p) \/ Acquire(p) \/ Locked(p) \/ Unlocked(p) \/ Crash(p)
    PROVE  Covered' /\ ReadsFit(p)'
  <1> USE DEF SerialInv
  <1>0. TypeOK
    BY DEF Inv
  <1>1. CASE StartGc(p)
    BY <1>1, StartGcReads, CoveredFrame DEF StartGc, dbVars
  <1>2. CASE Start(p) /\ ~StartGc(p)
    <2>1. pc'[p] \notin ReadSteps /\ UNCHANGED dbVars
      BY <1>0, <1>2 DEF Start, StartInstall, StartLink, StartUnlink,
                        StartUninstall, StartDoctor, Goto, TypeOK, ReadSteps,
                        GcSteps, RepairSteps
    <2> QED BY <2>1, ReadsLeft, CoveredFrame DEF dbVars
  <1>3. CASE Acquire(p)
    <2>1. pc'[p] \notin ReadSteps /\ UNCHANGED dbVars
      BY <1>0, <1>3 DEF Acquire, AcquireForInstall, AcquireForLink, Finish, Goto,
                        TypeOK, ReadSteps, GcSteps, RepairSteps
    <2> QED BY <2>1, ReadsLeft, CoveredFrame DEF dbVars
  <1>4. CASE Locked(p)
    <2>1. Stays(p, LockedSteps) \/ pc'[p] = "idle"
      <3>1. CASE Prepare(p) \/ NextItem(p)
        BY <1>0, <3>1 DEF Prepare, SetTask, EnsureEntry, MaterializeFromRelocated,
             CopyRelocated, Materialize, CopyStoreEntry, Preparing, NextItem, Goto,
             Stays, LockedSteps, TypeOK
      <3>2. CASE Moves(p)
        BY <1>0, <3>2, MoveStays
        DEF Moves, Finish, Goto, TypeOK, ItemSteps, ItemStep, Stays
      <3> QED BY <1>4, <3>1, <3>2, LockedMoves
    <2>2. pc'[p] \notin ReadSteps
      BY <1>0, <2>1 DEF Stays, Finish, Goto, TypeOK, ReadSteps, GcSteps,
                        RepairSteps, LockedSteps
    <2> QED BY <1>4, <2>2, ReadsLeft, LockedCovered
  <1>5. CASE Crash(p)
    <2>1. pc'[p] \notin ReadSteps /\ UNCHANGED dbVars
      BY <1>0, <1>5 DEF Crash, Finish, Goto, TypeOK, ReadSteps, GcSteps, RepairSteps
    <2> QED BY <2>1, ReadsLeft, CoveredFrame DEF dbVars
  <1>6. CASE Unlocked(p)
    <2>1. CASE \/ UninstallUnlink(p) \/ UninstallRecord(p)
               \/ UninstallRemoveKeg(p) \/ UninstallKegRemoved(p)
      BY <2>1, UninstallCovered, ReadsLeft
    <2> QED BY <1>6, <2>1, GcReads, DoctorReads, RepairFilesReads,
               RepairMissingReads, RepairStoreRefsReads, RepairEntryReads
            DEF Unlocked
  <1> QED BY <1>1, <1>2, <1>3, <1>4, <1>5, <1>6

LEMMA SerialInit == Init => SerialInv
  <1> SUFFICES ASSUME Init
               PROVE  SerialInv
    OBVIOUS
  <1>1. Inv
    BY InitInv
  <1>2. AtMostOne /\ \A p \in Procs : ReadsFit(p)
    BY DEF Init, AtMostOne, ReadsFit, GcSteps, RepairSteps
  <1>3. \A k \in Keys : Users(k) = {}
    BY DbAssumption DEF Init, DbInit, Users, UsersIn, NoRow, DbAssumption
  <1>4. \A k \in Keys : Surplus(k) = 0
    <2>1. \A k \in Keys : Cardinality(Users(k)) = 0
      BY <1>3, FS_EmptySet
    <2>2. \A k \in Keys : refcount[k] = 0
      BY DEF Init, DbInit
    <2> QED BY <2>1, <2>2 DEF Surplus
  <1>5. UsedKeysHaveRows
    BY <1>3 DEF Init, DbInit, UsedKeysHaveRows
  <1> QED BY <1>1, <1>2, <1>4, <1>5 DEF SerialInv, Covered

LEMMA SerialNext == ~Overlap /\ SerialInv /\ [Next]_vars => SerialInv'
  <1> SUFFICES ASSUME ~Overlap, SerialInv, [Next]_vars
               PROVE  SerialInv'
    OBVIOUS
  <1>0. TypeOK
    BY DEF SerialInv, Inv
  <1>1. Inv'
    BY NextInv DEF SerialInv
  <1>2. CASE UNCHANGED vars
    BY <1>1, <1>2, CoveredFrame
       DEF SerialInv, AtMostOne, ReadsFit, vars, dbVars, localVars
  <1>3. ASSUME NEW p \in Procs,
               Start(p) \/ Acquire(p) \/ Locked(p) \/ Unlocked(p) \/ Crash(p)
        PROVE  SerialInv'
    <2>1. AtMostOne' /\ \A q \in Procs \ {p} : pc'[q] \notin ReadSteps
      BY <1>0, <1>3, OthersIdle DEF SerialInv, ReadSteps, GcSteps, RepairSteps
    <2>2. Covered' /\ ReadsFit(p)'
      BY <1>3, StepSerial
    <2>3. \A q \in Procs \ {p} : ReadsFit(q)'
      BY <2>1, ReadsLeft
    <2> QED BY <1>1, <2>1, <2>2, <2>3 DEF SerialInv
  <1> QED BY <1>2, <1>3 DEF Next

\* A surplus that is not negative is RefsCoverInstalls.
LEMMA CoveredCovers == DbTypeOK /\ Covered => RefsCoverInstalls
  <1>1. \A k \in Keys : Cardinality(Users(k)) \in Nat
    BY UsersFinite DEF Users
  <1> QED BY <1>1 DEF DbTypeOK, Covered, RefsCoverInstalls, Surplus

\* The removal of a whole entry starts at GcRemoveEntry or RepairRemoveEntry,
\* or ends there; the count of its key is 0 or less.
LEMMA SerialRemoves ==
    ASSUME SerialInv, [Next]_vars, NEW k \in Keys,
           store[k] = "whole", store'[k] # "whole"
    PROVE  refcount[k] <= 0
  <1>0. TypeOK
    BY DEF SerialInv, Inv
  <1>1. PICK p \in Procs :
            Start(p) \/ Acquire(p) \/ Locked(p) \/ Unlocked(p) \/ Crash(p)
    BY DEF Next, vars, diskVars
  <1>2. \A x \in Keys \ refKeys : refcount[x] = 0
    BY DEF SerialInv, Covered, UsedKeysHaveRows
  <1>3. \/ GcRemoveEntry(p) \/ GcEntryRemoved(p)
        \/ RepairRemoveEntry(p) \/ RepairEntryRemoved(p)
    <2>1. ~(Start(p) \/ Acquire(p) \/ Crash(p))
      BY DEF Start, StartInstall, StartLink, StartUnlink, StartUninstall, StartGc,
             StartDoctor, Acquire, AcquireForInstall, AcquireForLink, Crash, diskVars
    <2>2. ~Locked(p)
      BY <1>0 DEF Locked, Prepare, EnsureEntry, MaterializeFromRelocated,
             CopyRelocated, Materialize, CopyStoreEntry, NextItem, FinishInstall,
             PostInstall, SaveRelocated, RecordItem, CleanupKeg, EndCleanup,
             LinkItem, RecordLinks, LinkInstalled, PersistLinks, UnlinkInstalled,
             ClearRows, diskVars, TypeOK
    <2> QED BY <1>1, <2>1, <2>2
            DEF Unlocked, UninstallUnlink, UninstallRecord, UninstallRemoveKeg,
                UninstallKegRemoved, GcDeleteRef, FinishGc, DoctorReadRefs,
                DoctorReadDisk, RepairUnlinkKeg, RepairRemoveKeg, RepairKegRemoved,
                RepairMissing, RepairListInstalled, RepairStoreRefs, RepairLinks,
                RepairPrune, diskVars
  <1>4. CASE GcRemoveEntry(p)
    BY <1>0, <1>4 DEF GcRemoveEntry, At, SerialInv, ReadsFit, GcSteps, TypeOK
  <1>5. CASE GcEntryRemoved(p)
    BY <1>0, <1>5 DEF GcEntryRemoved, At, SerialInv, ReadsFit, GcSteps, TypeOK
  <1>6. CASE RepairRemoveEntry(p)
    <2>1. k \in todo[p] /\ todo[p] \cap refKeys = {}
      BY <1>0, <1>6 DEF RepairRemoveEntry, At, SerialInv, ReadsFit, RepairSteps, TypeOK
    <2> QED BY <1>2, <2>1
  <1>7. CASE RepairEntryRemoved(p)
    <2>1. k = target[p].key /\ k \notin refKeys
      BY <1>0, <1>7 DEF RepairEntryRemoved, At, SerialInv, ReadsFit, TypeOK
    <2> QED BY <1>2, <2>1
  <1> QED BY <1>3, <1>4, <1>5, <1>6, <1>7

LEMMA SerialHolds == ASSUME ~Overlap PROVE Spec => []SerialInv
  <1>1. Init => SerialInv
    BY SerialInit
  <1>2. SerialInv /\ [Next]_vars => SerialInv'
    BY SerialNext
  <1> QED BY <1>1, <1>2, PTL DEF Spec

\* When commands do not overlap, the count of a store key is never below the
\* number of installed rows that use it, whatever fails or crashes: no entry
\* in use ever looks unreferenced to gc.
THEOREM RefsCorrect == ASSUME ~Overlap PROVE Spec => []RefsCoverInstalls
  <1>1. SerialInv => RefsCoverInstalls
    BY TypeParts, CoveredCovers DEF SerialInv, Inv
  <1> QED BY <1>1, SerialHolds, PTL

\* When commands do not overlap, gc and repair start to remove a store entry
\* only while its count is 0, though they read the counts before.
THEOREM RemovalCorrect == ASSUME ~Overlap PROVE Spec => RemoveOnlyUnreferenced
  <1>1. SerialInv /\ [Next]_vars =>
            [\A k \in Keys :
                store[k] = "whole" /\ store'[k] # "whole" => refcount[k] <= 0]_vars
    BY SerialRemoves
  <1> QED BY <1>1, SerialHolds, PTL DEF Spec, RemoveOnlyUnreferenced

-----------------------------------------------------------------------------
(* Kegs.  When commands do not overlap, no directory is half copied, half  *)
(* removed or left by a crash, and no two bottles share a keg directory,   *)
(* each row describes the keg on disk.                                     *)

\* No two bottles the API offers unpack to one directory of the cellar:
\* neither a rebuild of a version nor a tap formula of the same short name.
OneBottlePerKeg == \A i, j \in Items : KegOf(i) = KegOf(j) => i = j

\* No copy and no removal of a directory stops half way.
WholeDirectories == Faults \cap {"copy", "remove", "crash"} = {}

Whole(k) == [key |-> k, whole |-> TRUE]

InstallSteps == {"post_install", "save", "record", "cleanup", "cleaned",
                 "link", "rows"}

\* A row of installed_kegs names the keg g.
Recorded(g) == \E n \in Names : installed[n] # NoRow /\ KegOfRow(n) = g

\* A row was recorded for a bottle the API offered.
RowsAreItems ==
    \A n \in Names : installed[n] # NoRow =>
        \E i \in Items : /\ i.name = n
                         /\ installed[n] = [version |-> i.version, key |-> i.key]

RowsFit == RecordMatchesKeg /\ RowsAreItems

\* An entry of the relocated cache is whole, and from the bottle of its key.
RelocatedFit == \A c \in CacheKeys : relocated[c] \in {NoContent, Whole(c[2])}

\* A store entry is part of a removal of p, or it is whole.
StoreFits(p) ==
    \A k \in Keys : store[k] = "partial" =>
        pc[p] \in {"gc_removed", "r_store_removed"} /\ target[p].key = k

\* Process p is copying to the keg g or removing it.
AtKeg(p, g) ==
    \/ /\ pc[p] \in {"cleaned", "u_removed", "r_keg_removed"}
       /\ target[p].keg = g
    \/ /\ pc[p] = "prepare"
       /\ \E i \in plan[p] : /\ task[p][i] \in {"copy_cached", "copy_raw"}
                             /\ KegOf(i) = g

\* The keg g is what a bottle unpacks to.
Built(g) == \E i \in Items : KegOf(i) = g /\ cellar[g] = Whole(i.key)

CellarFits(p) == \A g \in Kegs : cellar[g] = NoContent \/ Built(g) \/ AtKeg(p, g)

\* Of what an install still has to do, nothing is installed; the item at hand
\* has its row from `record` on.
PlanFits(p) ==
    pc[p] \in {"wait_install", "prepare"} \cup InstallSteps =>
        /\ \A i, j \in plan[p] : i.name = j.name => i = j
        /\ \A i \in plan[p] :
              Recorded(KegOf(i)) => /\ pc[p] \in {"link", "rows"}
                                    /\ i.name = target[p].name

\* What a prepare task has reached is on disk.
TaskFits(p, i) ==
    /\ task[p][i] \in {"stored", "copy_cached", "copy_raw", "ready"} =>
           store[i.key] = "whole"
    /\ task[p][i] \in {"copy_cached", "copy_raw"} =>
           cellar[KegOf(i)] = Partial(i.key)
    /\ task[p][i] = "copy_cached" => relocated[CacheKey(i)] = Whole(i.key)
    /\ task[p][i] = "ready" => \/ cellar[KegOf(i)] = Whole(i.key)
                               \/ pc[p] = "cleaned" /\ i.name = target[p].name
    /\ task[p][i] # "raw"

TasksFit(p) ==
    pc[p] \in {"prepare"} \cup InstallSteps => \A i \in plan[p] : TaskFits(p, i)

\* The item at hand is one of the plan, and it is prepared.
ItemFits(p) ==
    pc[p] \in InstallSteps =>
        /\ \A i \in plan[p] : task[p][i] \in {"ready", "failed"}
        /\ \E i \in plan[p] :
              /\ task[p][i] = "ready"
              /\ target[p] = [name |-> i.name, keg |-> KegOf(i), key |-> i.key]

\* The keg uninstall has found is the one of its row, and of no other row;
\* it starts to remove the keg when the row is gone.
UninstallFits(p) ==
    /\ pc[p] \in {"u_unlink", "u_record"} =>
           \A n \in Names :
               installed[n] # NoRow /\ KegOfRow(n) = target[p].keg
                   => n = target[p].name
    /\ pc[p] = "u_record" => target[p].key = installed[target[p].name].key
    /\ pc[p] \in {"u_remove", "u_removed"} => ~Recorded(target[p].keg)

\* The kegs repair removes have no row.
OrphansFit(p) ==
    /\ pc[p] \in {"d_refs", "d_disk"} => seen[p] = installed
    /\ pc[p] \in {"repair", "r_keg", "r_keg_removed"} =>
           \A g \in report[p].kegs : ~Recorded(g)
    /\ pc[p] \in {"r_keg", "r_keg_removed"} => ~Recorded(target[p].keg)

ProcessFits(p) ==
    PlanFits(p) /\ TasksFit(p) /\ ItemFits(p) /\ UninstallFits(p) /\ OrphansFit(p)

\* What holds of process p while the others are idle.
Clean(p) == /\ StoreFits(p) /\ CellarFits(p)
            /\ ProcessFits(p)

Alone(p) == \A q \in Procs \ {p} : pc[q] = "idle"

KegsInv == /\ SerialInv /\ RowsFit /\ RelocatedFit
           /\ \A p \in Procs : Alone(p) => Clean(p)

-----------------------------------------------------------------------------
(* Rows and contents.                                                      *)

LEMMA Contentful ==
    ASSUME NEW k \in Keys
    PROVE  Whole(k) # NoContent /\ Partial(k) # NoContent /\ Partial(k) # Whole(k)
  BY DbAssumption DEF Whole, Partial, NoContent, DbAssumption

\* A row of name n is one of n's bottles, and describes that bottle's keg.
LEMMA RowItem ==
    ASSUME RowsAreItems, NEW n \in Names, installed[n] # NoRow
    PROVE  \E i \in Items : /\ i.name = n /\ KegOf(i) = KegOfRow(n)
                            /\ installed[n].key = i.key
  <1>1. PICK i \in Items : /\ i.name = n
                          /\ installed[n] = [version |-> i.version, key |-> i.key]
    BY DEF RowsAreItems
  <1>2. installed[n].version = i.version /\ installed[n].key = i.key
    BY <1>1
  <1> QED BY <1>1, <1>2 DEF KegOf, KegOfRow

LEMMA RowsOfOneKeg ==
    ASSUME OneBottlePerKeg, RowsAreItems, NEW m \in Names, NEW n \in Names,
           installed[m] # NoRow, installed[n] # NoRow, KegOfRow(m) = KegOfRow(n)
    PROVE  m = n
  <1>1. PICK i \in Items : i.name = m /\ KegOf(i) = KegOfRow(m)
    BY RowItem
  <1>2. PICK j \in Items : j.name = n /\ KegOf(j) = KegOfRow(n)
    BY RowItem
  <1> QED BY <1>1, <1>2 DEF OneBottlePerKeg

LEMMA RowsFrame ==
    ASSUME RowsFit, UNCHANGED <<installed, cellar>>
    PROVE  RowsFit' /\ \A g : Recorded(g)' => Recorded(g)
  BY DEF RowsFit, RecordMatchesKeg, RowsAreItems, Recorded, KegOfRow

\* Deleting a row leaves the others as they were.
LEMMA RowsGone ==
    ASSUME RowsFit, DbTypeOK, NEW n \in Names,
           installed' = [installed EXCEPT ![n] = NoRow], UNCHANGED cellar
    PROVE  /\ RowsFit'
           /\ \A g : Recorded(g)' => Recorded(g)
           /\ \A g : Recorded(g)' => \E m \in Names \ {n} :
                                        installed[m] # NoRow /\ KegOfRow(m) = g
  <1>1. installed'[n] = NoRow /\ \A m \in Names \ {n} : installed'[m] = installed[m]
    BY DEF DbTypeOK
  <1>2. \A m \in Names : installed'[m] # NoRow =>
            m # n /\ installed[m] # NoRow /\ KegOfRow(m)' = KegOfRow(m)
    BY <1>1 DEF KegOfRow
  <1>3. RecordMatchesKeg'
    BY <1>1, <1>2 DEF RowsFit, RecordMatchesKeg
  <1>4. RowsAreItems'
    BY <1>1, <1>2 DEF RowsFit, RowsAreItems
  <1> QED BY <1>2, <1>3, <1>4 DEF RowsFit, Recorded

\* A keg without a row may change.
LEMMA KegWritten ==
    ASSUME RowsFit, DiskTypeOK, NEW g \in Kegs, NEW c, ~Recorded(g),
           cellar' = [cellar EXCEPT ![g] = c], UNCHANGED installed
    PROVE  RowsFit' /\ \A h : Recorded(h)' => Recorded(h)
  <1>1. \A n \in Names : KegOfRow(n)' = KegOfRow(n)
    BY DEF KegOfRow
  <1>2. \A n \in Names : installed[n] # NoRow =>
            cellar'[KegOfRow(n)] = cellar[KegOfRow(n)]
    BY DEF DiskTypeOK, Recorded
  <1>3. RecordMatchesKeg'
    BY <1>1, <1>2 DEF RowsFit, RecordMatchesKeg
  <1> QED BY <1>1, <1>3 DEF RowsFit, RowsAreItems, Recorded

LEMMA StoreFrame ==
    ASSUME NEW p \in Procs, StoreFits(p), UNCHANGED store,
           pc[p] \notin {"gc_removed", "r_store_removed"}
    PROVE  StoreFits(p)'
  BY DEF StoreFits

LEMMA BuiltFrame ==
    ASSUME NEW g, cellar'[g] = cellar[g]
    PROVE  Built(g)' = Built(g)
  BY DEF Built

LEMMA CellarFrame ==
    ASSUME NEW p \in Procs, CellarFits(p), UNCHANGED cellar,
           \A g \in Kegs : AtKeg(p, g) => AtKeg(p, g)'
    PROVE  CellarFits(p)'
  BY BuiltFrame DEF CellarFits

\* Only the keg g is written: it is gone, built, or p is at it.
LEMMA CellarWritten ==
    ASSUME NEW p \in Procs, CellarFits(p), DiskTypeOK, NEW g \in Kegs, NEW c,
           cellar' = [cellar EXCEPT ![g] = c],
           \A h \in Kegs \ {g} : AtKeg(p, h) => AtKeg(p, h)',
           \/ c = NoContent
           \/ \E i \in Items : KegOf(i) = g /\ c = Whole(i.key)
           \/ AtKeg(p, g)'
    PROVE  CellarFits(p)'
  <1>1. cellar'[g] = c /\ \A h \in Kegs \ {g} : cellar'[h] = cellar[h]
    BY DEF DiskTypeOK
  <1>2. \A h \in Kegs \ {g} : Built(h)' = Built(h)
    BY <1>1, BuiltFrame
  <1>3. cellar'[g] = NoContent \/ Built(g)' \/ AtKeg(p, g)'
    BY <1>1 DEF Built
  <1> QED BY <1>1, <1>2, <1>3 DEF CellarFits

\* Away from the steps it is about, a fact about a process says nothing.
KegSteps == {"wait_install", "prepare"} \cup InstallSteps \cup UninstallSteps
            \cup {"d_refs", "d_disk", "repair", "r_keg", "r_keg_removed"}

LEMMA FreeFits ==
    ASSUME NEW p \in Procs
    PROVE  /\ pc[p] \notin KegSteps => ProcessFits(p)
           /\ pc'[p] \notin KegSteps => ProcessFits(p)'
  BY DEF ProcessFits, PlanFits, TasksFit, ItemFits, UninstallFits, OrphansFit,
         KegSteps, InstallSteps, UninstallSteps

LEMMA NotInstalling ==
    ASSUME NEW p \in Procs,
           pc'[p] \notin {"wait_install", "prepare"} \cup InstallSteps
    PROVE  UninstallFits(p)' /\ OrphansFit(p)' => ProcessFits(p)'
  BY DEF ProcessFits, PlanFits, TasksFit, ItemFits, InstallSteps

\* An idle process is at no keg and removes no entry.
LEMMA AtNoKeg ==
    ASSUME NEW p \in Procs,
           pc[p] \notin {"cleaned", "u_removed", "r_keg_removed", "prepare"}
    PROVE  \A g : ~AtKeg(p, g)
  BY DEF AtKeg

\* A step that touches neither rows nor files, from a step that is at no keg
\* and at no entry.
LEMMA FilesKept ==
    ASSUME RowsFit, RelocatedFit, NEW p \in Procs, StoreFits(p), CellarFits(p),
           UNCHANGED <<installed, store, relocated, cellar>>,
           pc[p] \notin {"gc_removed", "r_store_removed", "cleaned", "u_removed",
                         "r_keg_removed", "prepare"}
    PROVE  /\ RowsFit' /\ RelocatedFit' /\ StoreFits(p)' /\ CellarFits(p)'
           /\ \A g : Recorded(g)' => Recorded(g)
  BY RowsFrame, StoreFrame, CellarFrame, AtNoKeg DEF RelocatedFit

-----------------------------------------------------------------------------
(* install: the plan and its prepare tasks.                                *)

\* The clean facts for the process that moves.
LEMMA CleanParts ==
    ASSUME NEW p \in Procs, Clean(p)
    PROVE  /\ StoreFits(p) /\ CellarFits(p) /\ PlanFits(p) /\ TasksFit(p)
           /\ ItemFits(p) /\ UninstallFits(p) /\ OrphansFit(p)
  BY DEF Clean, ProcessFits

\* An item that is not current is not recorded at all: with one bottle to a
\* keg, a row of its keg is its own, and the row matches the keg.
LEMMA StartInstallClean ==
    ASSUME OneBottlePerKeg, TypeOK, RowsFit, RelocatedFit, NEW p \in Procs,
           Clean(p), StartInstall(p)
    PROVE  RowsFit' /\ RelocatedFit' /\ Clean(p)'
  <1> USE DbAssumption DEF DbAssumption
  <1>1. pc[p] = "idle" /\ pc'[p] = "wait_install"
    BY DEF StartInstall, Begin, Goto, TypeOK
  <1>2. /\ RowsFit' /\ RelocatedFit' /\ StoreFits(p)' /\ CellarFits(p)'
        /\ \A g : Recorded(g)' => Recorded(g)
    BY <1>1, CleanParts, FilesKept DEF StartInstall, dbVars, diskVars
  <1>3. PICK items \in SUBSET {i \in Items : ~InstalledIsCurrent(i)} :
            /\ \A i, j \in items : i.name = j.name => i = j
            /\ plan'[p] = items
    BY DEF StartInstall, TypeOK
  <1>4. \A i \in items : ~Recorded(KegOf(i))
    <2> SUFFICES ASSUME NEW i \in items, NEW n \in Names, installed[n] # NoRow,
                        KegOfRow(n) = KegOf(i)
                 PROVE  InstalledIsCurrent(i)
      BY <1>3 DEF Recorded
    <2>1. PICK j \in Items :
              j.name = n /\ installed[n] = [version |-> j.version, key |-> j.key]
      BY DEF RowsFit, RowsAreItems
    <2>2. KegOf(j) = KegOf(i)
      BY <2>1 DEF KegOf, KegOfRow
    <2>3. i = j
      BY <1>3, <2>2 DEF OneBottlePerKeg
    <2>4. installed[n].key = i.key
      BY <2>1, <2>3
    <2>5. cellar[KegOf(i)] = Whole(i.key)
      BY <2>4 DEF RowsFit, RecordMatchesKeg, Whole
    <2>6. i.key \in Keys
      BY <1>3, ItemTypes
    <2> QED BY <2>1, <2>3, <2>5, <2>6, Contentful DEF InstalledIsCurrent, KegExists
  <1>5. PlanFits(p)'
    BY <1>2, <1>3, <1>4 DEF PlanFits, KegOf
  <1>6. TasksFit(p)' /\ ItemFits(p)' /\ UninstallFits(p)' /\ OrphansFit(p)'
    BY <1>1 DEF TasksFit, ItemFits, UninstallFits, OrphansFit, InstallSteps
  <1> QED BY <1>2, <1>5, <1>6 DEF Clean, ProcessFits

LEMMA AcquireInstallClean ==
    ASSUME TypeOK, RowsFit, RelocatedFit, NEW p \in Procs, Clean(p),
           AcquireForInstall(p)
    PROVE  RowsFit' /\ RelocatedFit' /\ Clean(p)'
  <1>1. pc[p] = "wait_install" /\ pc'[p] = "prepare" /\ plan' = plan
    BY DEF AcquireForInstall, Goto, TypeOK
  <1>2. /\ RowsFit' /\ RelocatedFit' /\ StoreFits(p)' /\ CellarFits(p)'
        /\ \A g : Recorded(g)' => Recorded(g)
    BY <1>1, CleanParts, FilesKept DEF AcquireForInstall, dbVars, diskVars
  <1>3. PlanFits(p)'
    BY <1>1, <1>2, CleanParts DEF PlanFits, KegOf
  <1>4. \A i \in Items : i \in plan[p] => task'[p][i] = "fetch"
    BY DEF AcquireForInstall, TypeOK
  <1>5. TasksFit(p)'
    BY <1>1, <1>4 DEF TasksFit, TaskFits, TypeOK
  <1>6. ItemFits(p)' /\ UninstallFits(p)' /\ OrphansFit(p)'
    BY <1>1 DEF ItemFits, UninstallFits, OrphansFit, InstallSteps
  <1> QED BY <1>2, <1>3, <1>5, <1>6 DEF Clean, ProcessFits

\* A prepare task that leaves the kegs of the other tasks alone, and fits
\* itself, keeps what the tasks and the plan say.
LEMMA TaskMoves ==
    ASSUME OneBottlePerKeg, TypeOK, RowsFit, RelocatedFit, NEW p \in Procs,
           Clean(p), NEW i \in plan[p], pc[p] = "prepare",
           NEW s, SetTask(p, i, s),
           \A k \in Keys : store[k] = "whole" => store'[k] = "whole",
           \A k \in Keys : store'[k] # "partial",
           \A g \in Kegs \ {KegOf(i)} : cellar'[g] = cellar[g],
           RowsFit', TaskFits(p, i)', CellarFits(p)'
    PROVE  RowsFit' /\ RelocatedFit' /\ Clean(p)'
  <1>1. /\ UNCHANGED <<installed, relocated, pc, plan, target>>
        /\ task'[p][i] = s
        /\ \A j \in Items \ {i} : task'[p][j] = task[p][j]
    BY DEF SetTask, TypeOK, dbVars
  <1>2. RelocatedFit'
    BY <1>1 DEF RelocatedFit
  <1>3. \A g : Recorded(g)' => Recorded(g)
    BY <1>1 DEF Recorded, KegOfRow
  <1>4. PlanFits(p)'
    BY <1>1, <1>3, CleanParts DEF PlanFits, KegOf
  <1>5. ASSUME NEW j \in plan[p], j # i
        PROVE  TaskFits(p, j)'
    <2>1. j \in Items /\ i \in Items
      BY DEF TypeOK
    <2>2. KegOf(j) # KegOf(i) /\ KegOf(j) \in Kegs /\ j.key \in Keys
      BY <1>5, <2>1, ItemTypes DEF OneBottlePerKeg
    <2>3. cellar'[KegOf(j)] = cellar[KegOf(j)]
      BY <2>2
    <2>4. TaskFits(p, j)
      BY CleanParts DEF TasksFit
    <2> QED BY <1>1, <1>5, <2>1, <2>2, <2>3, <2>4 DEF TaskFits, KegOf, CacheKey
  <1>6. TasksFit(p)'
    BY <1>1, <1>5 DEF TasksFit
  <1>7. ItemFits(p)' /\ UninstallFits(p)' /\ OrphansFit(p)'
    BY <1>1 DEF ItemFits, UninstallFits, OrphansFit, InstallSteps
  <1>8. StoreFits(p)'
    BY DEF StoreFits
  <1> QED BY <1>2, <1>4, <1>6, <1>7, <1>8 DEF Clean, ProcessFits

LEMMA EnsureEntryClean ==
    ASSUME OneBottlePerKeg, TypeOK, RowsFit, RelocatedFit, NEW p \in Procs,
           Clean(p), NEW i \in Items, EnsureEntry(p, i)
    PROVE  RowsFit' /\ RelocatedFit' /\ Clean(p)'
  <1>1. pc[p] = "prepare" /\ i \in plan[p] /\ task[p][i] = "fetch"
    BY DEF EnsureEntry, Preparing
  <1>2. \A k \in Keys : store[k] # "partial"
    BY <1>1, CleanParts DEF StoreFits
  <1>3. i.key \in Keys
    BY ItemTypes
  <1>4. PICK s \in {"stored", "failed"} :
            /\ SetTask(p, i, s)
            /\ s = "stored" => store'[i.key] = "whole"
            /\ \A k \in Keys : store'[k] # "partial"
            /\ \A k \in Keys : store[k] = "whole" => store'[k] = "whole"
    BY <1>2, <1>3 DEF EnsureEntry, TypeOK
  <1>5. UNCHANGED <<installed, cellar, pc, plan>>
    BY DEF EnsureEntry, SetTask, dbVars
  <1>6. RowsFit'
    BY <1>5, RowsFrame
  <1>7. /\ task'[p][i] = s
        /\ \A j \in Items \ {i} : task'[p][j] = task[p][j]
    BY <1>4 DEF SetTask, TypeOK
  <1>8. TaskFits(p, i)'
    BY <1>4, <1>7 DEF TaskFits
  <1>9. \A g \in Kegs : AtKeg(p, g) => AtKeg(p, g)'
    BY <1>1, <1>5, <1>7 DEF AtKeg, KegOf, TypeOK
  <1>10. CellarFits(p)'
    BY <1>5, <1>9, CellarFrame, CleanParts
  <1> QED BY <1>1, <1>4, <1>5, <1>6, <1>8, <1>10, TaskMoves

\* The keg a task finds on disk is the one of its own bottle, whole.
LEMMA FoundKeg ==
    ASSUME OneBottlePerKeg, TypeOK, NEW p \in Procs, Clean(p), NEW i \in plan[p],
           pc[p] = "prepare", task[p][i] = "stored", KegExists(KegOf(i))
    PROVE  cellar[KegOf(i)] = Whole(i.key)
  <1>1. i \in Items /\ plan[p] \subseteq Items
    BY DEF TypeOK
  <1>2. KegOf(i) \in Kegs
    BY <1>1, ItemTypes
  <1>3. ~AtKeg(p, KegOf(i))
    BY <1>1 DEF AtKeg, OneBottlePerKeg
  <1>4. Built(KegOf(i))
    BY <1>2, <1>3, CleanParts DEF CellarFits, KegExists
  <1> QED BY <1>1, <1>4 DEF Built, OneBottlePerKeg

\* No row names the keg of an item whose task still runs.
LEMMA UnrecordedKeg ==
    ASSUME NEW p \in Procs, Clean(p), NEW i \in plan[p], pc[p] = "prepare"
    PROVE  ~Recorded(KegOf(i))
  BY CleanParts DEF PlanFits

\* A task that writes its own keg leaves every other keg as p was at it.
LEMMA OtherKegs ==
    ASSUME OneBottlePerKeg, TypeOK, NEW p \in Procs, NEW i \in Items, NEW s,
           pc[p] = "prepare", SetTask(p, i, s), NEW g \in Kegs \ {KegOf(i)},
           AtKeg(p, g)
    PROVE  AtKeg(p, g)'
  <1>1. PICK j \in plan[p] : /\ task[p][j] \in {"copy_cached", "copy_raw"}
                             /\ KegOf(j) = g
    BY DEF AtKeg
  <1>2. j # i /\ j \in Items
    BY <1>1 DEF TypeOK
  <1>3. task'[p][j] = task[p][j] /\ pc'[p] = "prepare" /\ plan' = plan
    BY <1>2 DEF SetTask, TypeOK
  <1> QED BY <1>1, <1>3 DEF AtKeg, KegOf

\* A task that writes its own keg, or takes it as it is.
LEMMA KegTask ==
    ASSUME OneBottlePerKeg, TypeOK, RowsFit, RelocatedFit, NEW p \in Procs,
           Clean(p), NEW i \in plan[p], pc[p] = "prepare",
           NEW s \in {"copy_cached", "copy_raw", "ready"}, SetTask(p, i, s),
           UNCHANGED store, store[i.key] = "whole",
           \/ /\ UNCHANGED cellar
              /\ cellar[KegOf(i)] = Whole(i.key)
              /\ s = "ready" /\ task[p][i] = "stored"
           \/ /\ cellar' = [cellar EXCEPT ![KegOf(i)] = Whole(i.key)]
              /\ s = "ready"
           \/ /\ cellar' = [cellar EXCEPT ![KegOf(i)] = Partial(i.key)]
              /\ s # "ready"
              /\ s = "copy_cached" => relocated[CacheKey(i)] = Whole(i.key)
    PROVE  RowsFit' /\ RelocatedFit' /\ Clean(p)'
  <1>0. i \in Items /\ KegOf(i) \in Kegs /\ DiskTypeOK /\ i.key \in Keys
    BY ItemTypes, TypeParts DEF TypeOK
  <1>1. /\ UNCHANGED <<installed, relocated, pc, plan>> /\ task'[p][i] = s
        /\ pc'[p] = "prepare" /\ plan'[p] = plan[p]
    BY <1>0 DEF SetTask, TypeOK, dbVars
  <1>2. ~Recorded(KegOf(i))
    BY UnrecordedKeg
  <1>3. RowsFit'
    BY <1>0, <1>1, <1>2, RowsFrame, KegWritten
  <1>4. \A g \in Kegs \ {KegOf(i)} : AtKeg(p, g) => AtKeg(p, g)'
    BY <1>0, OtherKegs
  <1>5. CellarFits(p)'
    <2>1. CASE UNCHANGED cellar /\ cellar[KegOf(i)] = Whole(i.key)
      <3>1. \A g \in Kegs \ {KegOf(i)} : cellar[g] = NoContent \/ Built(g) \/ AtKeg(p, g)
        BY CleanParts DEF CellarFits
      <3>2. \A g : Built(g)' = Built(g)
        BY <2>1, BuiltFrame
      <3>3. Built(KegOf(i))'
        BY <1>0, <2>1, <3>2 DEF Built
      <3> QED BY <2>1, <1>4, <3>1, <3>2, <3>3 DEF CellarFits
    <2>2. CASE cellar' = [cellar EXCEPT ![KegOf(i)] = Whole(i.key)]
      BY <1>0, <1>4, <2>2, CellarWritten, CleanParts
    <2>3. CASE /\ cellar' = [cellar EXCEPT ![KegOf(i)] = Partial(i.key)]
               /\ s # "ready"
      <3>1. AtKeg(p, KegOf(i))'
        BY <1>1, <2>3 DEF AtKeg, KegOf
      <3> QED BY <1>0, <1>4, <2>3, <3>1, CellarWritten, CleanParts
    <2> QED BY <2>1, <2>2, <2>3
  <1>6. TaskFits(p, i)'
    BY <1>0, <1>1 DEF TaskFits, KegOf, CacheKey, DiskTypeOK
  <1>7. /\ \A g \in Kegs \ {KegOf(i)} : cellar'[g] = cellar[g]
        /\ \A k \in Keys : store[k] # "partial"
    BY <1>0, CleanParts DEF DiskTypeOK, StoreFits
  <1> QED BY <1>3, <1>5, <1>6, <1>7, TaskMoves

LEMMA CopiesClean ==
    ASSUME OneBottlePerKeg, WholeDirectories, TypeOK, RowsFit, RelocatedFit,
           NEW p \in Procs, Clean(p), NEW i \in Items,
           \/ MaterializeFromRelocated(p, i) \/ CopyRelocated(p, i)
           \/ Materialize(p, i) \/ CopyStoreEntry(p, i)
    PROVE  RowsFit' /\ RelocatedFit' /\ Clean(p)'
  <1> DEFINE entry == relocated[CacheKey(i)]
             g == KegOf(i)
  <1>0. pc[p] = "prepare" /\ i \in plan[p] /\ i.key \in Keys
    BY ItemTypes DEF MaterializeFromRelocated, CopyRelocated, Materialize,
                     CopyStoreEntry, Preparing
  <1>1. TaskFits(p, i)
    BY <1>0, CleanParts DEF TasksFit
  <1>2. entry # NoContent => entry = Whole(i.key)
    BY ItemTypes DEF RelocatedFit, CacheKey
  <1>3. CASE MaterializeFromRelocated(p, i)
    <2>1. /\ task[p][i] = "stored" /\ entry = Whole(i.key)
          /\ store[i.key] = "whole" /\ UNCHANGED store
      BY <1>1, <1>2, <1>3 DEF MaterializeFromRelocated, Preparing, TaskFits
    <2>2. CASE KegExists(g)
      <3>1. SetTask(p, i, "ready") /\ UNCHANGED cellar
        BY <1>3, <2>2 DEF MaterializeFromRelocated
      <3>2. cellar[g] = Whole(i.key)
        BY <1>0, <2>1, <2>2, FoundKeg
      <3> QED BY <1>0, <2>1, <3>1, <3>2, KegTask
    <2>3. CASE ~KegExists(g)
      <3>1. /\ SetTask(p, i, "copy_cached")
            /\ cellar' = [cellar EXCEPT ![g] = Partial(entry.key)]
        BY <1>3, <2>3 DEF MaterializeFromRelocated
      <3>2. entry.key = i.key
        BY <2>1 DEF Whole
      <3> QED BY <1>0, <2>1, <3>1, <3>2, KegTask
    <2> QED BY <2>2, <2>3
  <1>4. CASE CopyRelocated(p, i)
    <2>1. /\ entry = Whole(i.key) /\ cellar[g] = Partial(i.key)
          /\ store[i.key] = "whole" /\ UNCHANGED store
      BY <1>1, <1>4 DEF CopyRelocated, Preparing, TaskFits
    <2>2. KegExists(g) /\ ~Fails("copy")
      BY <1>0, <2>1, Contentful DEF KegExists, WholeDirectories, Fails
    <2>3. SetTask(p, i, "ready") /\ cellar' = [cellar EXCEPT ![g] = entry]
      BY <1>4, <2>2 DEF CopyRelocated
    <2> QED BY <1>0, <2>1, <2>3, KegTask
  <1>5. CASE Materialize(p, i)
    <2>1. task[p][i] = "stored" /\ store[i.key] = "whole" /\ UNCHANGED store
      BY <1>1, <1>5 DEF Materialize, Preparing, TaskFits
    <2>2. CASE KegExists(g)
      <3>1. SetTask(p, i, "ready") /\ UNCHANGED cellar
        BY <1>5, <2>2 DEF Materialize
      <3>2. cellar[g] = Whole(i.key)
        BY <1>0, <2>1, <2>2, FoundKeg
      <3> QED BY <1>0, <2>1, <3>1, <3>2, KegTask
    <2>3. CASE ~KegExists(g)
      BY <1>0, <1>5, <2>1, <2>3, KegTask DEF Materialize
    <2> QED BY <2>2, <2>3
  <1>6. CASE CopyStoreEntry(p, i)
    <2>1. /\ cellar[g] = Partial(i.key)
          /\ store[i.key] = "whole" /\ UNCHANGED store
      BY <1>1, <1>6 DEF CopyStoreEntry, Preparing, TaskFits
    <2>2. KegExists(g) /\ ~Fails("copy")
      BY <1>0, <2>1, Contentful DEF KegExists, WholeDirectories, Fails
    <2>3. /\ SetTask(p, i, "ready")
          /\ cellar' = [cellar EXCEPT ![g] = Whole(i.key)]
      BY <1>6, <2>1, <2>2 DEF CopyStoreEntry, Whole
    <2> QED BY <1>0, <2>1, <2>3, KegTask
  <1> QED BY <1>3, <1>4, <1>5, <1>6

-----------------------------------------------------------------------------
(* install: the prepared items, one after the other.                       *)

LEMMA NextItemClean ==
    ASSUME TypeOK, RowsFit, RelocatedFit, NEW p \in Procs, Clean(p), NextItem(p)
    PROVE  RowsFit' /\ RelocatedFit' /\ Clean(p)'
  <1>1. /\ pc[p] = "prepare" /\ pc'[p] = "post_install"
        /\ UNCHANGED <<installed, store, relocated, cellar, plan, task>>
    BY DEF NextItem, Prepared, Goto, TypeOK, dbVars, diskVars
  <1>2. \A i \in plan[p] : task[p][i] \in {"ready", "failed"}
    BY DEF NextItem, Prepared
  <1>3. PICK i \in plan[p] :
            /\ task[p][i] = "ready"
            /\ target'[p] = [name |-> i.name, keg |-> KegOf(i), key |-> i.key]
    BY DEF NextItem, TypeOK
  <1>4. RowsFit' /\ RelocatedFit' /\ \A g : Recorded(g)' => Recorded(g)
    BY <1>1, RowsFrame DEF RelocatedFit
  <1>5. \A g : ~AtKeg(p, g)
    BY <1>1, <1>2 DEF AtKeg
  <1>6. StoreFits(p)' /\ CellarFits(p)'
    BY <1>1, <1>5, StoreFrame, CellarFrame, CleanParts
  <1>7. PlanFits(p)'
    BY <1>1, <1>4, CleanParts DEF PlanFits, KegOf
  <1>8. TasksFit(p)'
    BY <1>1, CleanParts DEF TasksFit, TaskFits, KegOf, CacheKey
  <1>9. ItemFits(p)'
    BY <1>1, <1>2, <1>3 DEF ItemFits, KegOf
  <1>10. UninstallFits(p)' /\ OrphansFit(p)'
    BY <1>1 DEF UninstallFits, OrphansFit
  <1> QED BY <1>4, <1>6, <1>7, <1>8, <1>9, <1>10 DEF Clean, ProcessFits

\* The item at hand: its keg has no row before `record` and is whole until it
\* is cleaned up; the kegs of the other items are not its keg.
LEMMA ItemAtHand ==
    ASSUME OneBottlePerKeg, TypeOK, NEW p \in Procs, Clean(p),
           pc[p] \in InstallSteps
    PROVE  \E i \in plan[p] :
              /\ i \in Items /\ KegOf(i) \in Kegs /\ i.key \in Keys
              /\ target[p] = [name |-> i.name, keg |-> KegOf(i), key |-> i.key]
              /\ pc[p] # "cleaned" => cellar[KegOf(i)] = Whole(i.key)
              /\ pc[p] \notin {"link", "rows"} => ~Recorded(KegOf(i))
              /\ \A j \in plan[p] : j.name = i.name => j = i
              /\ \A j \in plan[p] \ {i} :
                    KegOf(j) \in Kegs \ {KegOf(i)} /\ ~Recorded(KegOf(j))
  <1>1. PICK i \in plan[p] :
            /\ task[p][i] = "ready"
            /\ target[p] = [name |-> i.name, keg |-> KegOf(i), key |-> i.key]
    BY CleanParts DEF ItemFits
  <1>2. plan[p] \subseteq Items
    BY DEF TypeOK
  <1>3. target[p].name = i.name
    BY <1>1
  <1>4. TaskFits(p, i)
    BY CleanParts DEF TasksFit
  <1>5. pc[p] # "cleaned" => cellar[KegOf(i)] = Whole(i.key)
    BY <1>1, <1>4 DEF TaskFits
  <1>6. \A j \in plan[p] : j.name = i.name => j = i
    BY CleanParts DEF PlanFits
  <1>7. \A j \in plan[p] : Recorded(KegOf(j)) =>
            pc[p] \in {"link", "rows"} /\ j.name = i.name
    BY <1>3, CleanParts DEF PlanFits
  <1> QED BY <1>1, <1>2, <1>5, <1>6, <1>7, ItemTypes DEF OneBottlePerKeg

\* During the items no copy runs: p is at a keg only to clean it up.
LEMMA ItemKegs ==
    ASSUME NEW p \in Procs, Clean(p), pc[p] \in InstallSteps \ {"cleaned"}
    PROVE  /\ \A g \in Kegs : cellar[g] = NoContent \/ Built(g)
           /\ \A k \in Keys : store[k] # "partial"
  BY AtNoKeg, CleanParts DEF CellarFits, StoreFits, InstallSteps

LEMMA ItemGoes ==
    ASSUME TypeOK, RowsFit, NEW p \in Procs, Clean(p),
           NEW s \in InstallSteps \ {"cleaned"},
           pc[p] \in InstallSteps \ {"cleaned"}, ItemStep(p, s),
           pc[p] \in {"link", "rows"} => s \in {"link", "rows"},
           UNCHANGED <<installed, store, cellar>>, RelocatedFit'
    PROVE  RowsFit' /\ Clean(p)'
  <1>1. pc'[p] = s /\ UNCHANGED <<plan, task, target>>
    BY DEF ItemStep, Goto, TypeOK
  <1>2. RowsFit' /\ \A g : Recorded(g)' => Recorded(g)
    BY RowsFrame
  <1>3. StoreFits(p)' /\ CellarFits(p)'
    BY ItemKegs, BuiltFrame DEF StoreFits, CellarFits
  <1>4. PlanFits(p)'
    BY <1>1, <1>2, CleanParts DEF PlanFits, KegOf
  <1>5. TasksFit(p)'
    BY <1>1, CleanParts DEF TasksFit, TaskFits, ItemFits, KegOf
  <1>6. ItemFits(p)'
    BY <1>1, CleanParts DEF ItemFits, KegOf
  <1>7. UninstallFits(p)' /\ OrphansFit(p)'
    BY <1>1 DEF UninstallFits, OrphansFit, InstallSteps
  <1> QED BY <1>2, <1>3, <1>4, <1>5, <1>6, <1>7 DEF Clean, ProcessFits

\* The item is done: what the others need is as it was.
LEMMA ItemEnds ==
    ASSUME TypeOK, NEW p \in Procs, Clean(p), pc[p] \in InstallSteps,
           ItemDone(p), UNCHANGED <<store, relocated>>,
           \A g \in Kegs : cellar'[g] = NoContent \/ Built(g)',
           \A j \in plan[p] : j.name # target[p].name =>
               ~Recorded(KegOf(j))' /\ cellar'[KegOf(j)] = cellar[KegOf(j)]
    PROVE  Clean(p)'
  <1>1. /\ pc'[p] = "prepare"
        /\ plan'[p] = {i \in plan[p] : i.name # target[p].name}
        /\ \A i \in plan'[p] : task'[p][i] = task[p][i]
    BY DEF ItemDone, Goto, TypeOK
  <1>2. StoreFits(p)' /\ CellarFits(p)'
    BY CleanParts DEF StoreFits, CellarFits, InstallSteps
  <1>3. PlanFits(p)'
    BY <1>1, CleanParts DEF PlanFits, KegOf
  <1>4. TasksFit(p)'
    BY <1>1, CleanParts DEF TasksFit, TaskFits, KegOf, CacheKey
  <1>5. ItemFits(p)' /\ UninstallFits(p)' /\ OrphansFit(p)'
    BY <1>1 DEF ItemFits, UninstallFits, OrphansFit, InstallSteps
  <1> QED BY <1>2, <1>3, <1>4, <1>5 DEF Clean, ProcessFits

LEMMA PostInstallClean ==
    ASSUME TypeOK, RowsFit, RelocatedFit, NEW p \in Procs, Clean(p), PostInstall(p)
    PROVE  RowsFit' /\ RelocatedFit' /\ Clean(p)'
  <1>1. pc[p] = "post_install" /\ \E s \in {"save", "cleanup"} : ItemStep(p, s)
    BY DEF PostInstall, At
  <1>2. UNCHANGED <<installed, store, relocated, cellar>>
    BY DEF PostInstall, dbVars, diskVars
  <1>3. RelocatedFit'
    BY <1>2 DEF RelocatedFit
  <1> QED BY <1>1, <1>2, <1>3, ItemGoes DEF InstallSteps

\* What is saved in the relocated cache is the whole keg.
LEMMA SaveClean ==
    ASSUME OneBottlePerKeg, TypeOK, RowsFit, RelocatedFit, NEW p \in Procs,
           Clean(p), SaveRelocated(p)
    PROVE  RowsFit' /\ RelocatedFit' /\ Clean(p)'
  <1>1. pc[p] = "save" /\ ItemStep(p, "record") /\ UNCHANGED <<installed, store, cellar>>
    BY DEF SaveRelocated, At, dbVars
  <1>2. PICK i \in plan[p] :
            /\ i \in Items
            /\ target[p] = [name |-> i.name, keg |-> KegOf(i), key |-> i.key]
            /\ cellar[KegOf(i)] = Whole(i.key)
    BY <1>1, ItemAtHand DEF InstallSteps
  <1>3. <<target[p].keg, target[p].key>> = CacheKey(i) /\ target[p].keg = KegOf(i)
    BY <1>2 DEF CacheKey
  <1>4. CacheKey(i) \in CacheKeys /\ CacheKey(i)[2] = i.key
    BY <1>2 DEF CacheKeys, CacheKey
  <1>5. \/ relocated' = relocated
        \/ relocated' = [relocated EXCEPT ![CacheKey(i)] = Whole(i.key)]
    BY <1>2, <1>3 DEF SaveRelocated
  <1>6. RelocatedFit'
    BY <1>4, <1>5, TypeParts DEF RelocatedFit, DiskTypeOK
  <1> QED BY <1>1, <1>6, ItemGoes DEF InstallSteps

\* The row recorded is the one of the keg prepared; no other row and no other
\* item has that keg.
LEMMA RecordClean ==
    ASSUME OneBottlePerKeg, TypeOK, RowsFit, RelocatedFit, NEW p \in Procs,
           Clean(p), RecordItem(p)
    PROVE  RowsFit' /\ RelocatedFit' /\ Clean(p)'
  <1>0. pc[p] = "record" /\ UNCHANGED <<store, relocated, cellar>>
    BY DEF RecordItem, At, diskVars
  <1>1. RelocatedFit'
    BY <1>0 DEF RelocatedFit
  <1>2. CASE ItemStep(p, "cleanup") /\ UNCHANGED dbVars
    BY <1>0, <1>1, <1>2, ItemGoes DEF InstallSteps, dbVars
  <1>3. CASE ~(ItemStep(p, "cleanup") /\ UNCHANGED dbVars)
    <2>1. PICK i \in plan[p] :
              /\ i \in Items /\ KegOf(i) \in Kegs /\ i.key \in Keys
              /\ target[p] = [name |-> i.name, keg |-> KegOf(i), key |-> i.key]
              /\ cellar[KegOf(i)] = Whole(i.key)
              /\ \A j \in plan[p] : j.name = i.name => j = i
              /\ \A j \in plan[p] \ {i} :
                    KegOf(j) \in Kegs \ {KegOf(i)} /\ ~Recorded(KegOf(j))
      BY <1>0, ItemAtHand DEF InstallSteps
    <2>2. /\ target[p].name = i.name /\ target[p].key = i.key
          /\ target[p].keg[2] = i.version
      BY <2>1 DEF KegOf
    <2>3. /\ RecordInstall(i.name, i.version, i.key)
          /\ ItemStep(p, "link") \/ ItemDone(p)
      BY <1>3, <2>2 DEF RecordItem
    <2>4. /\ installed'[i.name] = [version |-> i.version, key |-> i.key]
          /\ \A m \in Names \ {i.name} : installed'[m] = installed[m]
      BY <2>1, <2>3, ItemTypes DEF RecordInstall, TypeOK, DbTypeOK
    <2>5. /\ \A m \in Names \ {i.name} : KegOfRow(m)' = KegOfRow(m)
          /\ KegOfRow(i.name)' = KegOf(i)
      BY <2>4 DEF KegOfRow, KegOf
    <2>6. installed'[i.name].key = i.key
      BY <2>4
    <2>7. RecordMatchesKeg'
      <3> SUFFICES ASSUME NEW n \in Names, installed'[n] # NoRow
                   PROVE  cellar'[KegOfRow(n)'] = Whole(installed'[n].key)
        BY DEF RecordMatchesKeg, Whole
      <3>1. CASE n = i.name
        BY <1>0, <2>1, <2>5, <2>6, <3>1
      <3>2. CASE n # i.name
        BY <1>0, <2>4, <2>5, <3>2 DEF RowsFit, RecordMatchesKeg, Whole
      <3> QED BY <3>1, <3>2
    <2>8. RowsAreItems'
      BY <2>1, <2>4 DEF RowsFit, RowsAreItems
    <2>9. \A g : Recorded(g)' => Recorded(g) \/ g = KegOf(i)
      BY <2>4, <2>5 DEF Recorded
    <2>10. \A j \in plan[p] : j.name # i.name => ~Recorded(KegOf(j))'
      <3> SUFFICES ASSUME NEW j \in plan[p], j.name # i.name, Recorded(KegOf(j))'
                   PROVE  FALSE
        OBVIOUS
      <3>1. Recorded(KegOf(j)) \/ KegOf(j) = KegOf(i)
        BY <2>9 DEF KegOf
      <3> QED BY <2>1, <3>1
    <2>11. /\ \A g \in Kegs : cellar'[g] = NoContent \/ Built(g)'
           /\ \A k \in Keys : store[k] # "partial"
      BY <1>0, ItemKegs, BuiltFrame DEF InstallSteps
    <2>12. CASE ItemDone(p)
      <3>1. Clean(p)'
        BY <1>0, <2>2, <2>10, <2>11, <2>12, ItemEnds DEF InstallSteps
      <3> QED BY <1>1, <2>7, <2>8, <3>1 DEF RowsFit
    <2>13. CASE ItemStep(p, "link")
      <3>1. pc'[p] = "link" /\ UNCHANGED <<plan, task, target>>
        BY <2>13 DEF ItemStep, Goto, TypeOK
      <3>2. PlanFits(p)'
        <4>1. \A j \in plan[p] : Recorded(KegOf(j))' => j.name = i.name
          BY <2>10
        <4>2. \A j \in plan'[p] :
                  Recorded(KegOf(j))' => j.name = target'[p].name
          BY <2>2, <3>1, <4>1
        <4>3. \A j, k \in plan'[p] : j.name = k.name => j = k
          BY <1>0, <3>1, CleanParts DEF PlanFits, InstallSteps
        <4> QED BY <3>1, <4>2, <4>3 DEF PlanFits, KegOf
      <3>3. TasksFit(p)'
        BY <1>0, <3>1, CleanParts DEF TasksFit, TaskFits, ItemFits, InstallSteps, KegOf
      <3>4. ItemFits(p)'
        BY <1>0, <3>1, CleanParts DEF ItemFits, InstallSteps, KegOf
      <3>5. UninstallFits(p)' /\ OrphansFit(p)'
        BY <3>1 DEF UninstallFits, OrphansFit
      <3>6. StoreFits(p)' /\ CellarFits(p)'
        BY <1>0, <2>11 DEF StoreFits, CellarFits
      <3> QED BY <1>1, <2>7, <2>8, <3>2, <3>3, <3>4, <3>5, <3>6
              DEF RowsFit, Clean, ProcessFits
    <2> QED BY <2>3, <2>12, <2>13
  <1> QED BY <1>2, <1>3

LEMMA CleanupClean ==
    ASSUME OneBottlePerKeg, TypeOK, RowsFit, RelocatedFit, NEW p \in Procs,
           Clean(p), CleanupKeg(p)
    PROVE  RowsFit' /\ RelocatedFit' /\ Clean(p)'
  <1>0. pc[p] = "cleanup" /\ UNCHANGED <<installed, store, relocated>>
    BY DEF CleanupKeg, At, dbVars
  <1>1. PICK i \in plan[p] :
            /\ i \in Items /\ KegOf(i) \in Kegs /\ i.key \in Keys
            /\ target[p] = [name |-> i.name, keg |-> KegOf(i), key |-> i.key]
            /\ cellar[KegOf(i)] = Whole(i.key) /\ ~Recorded(KegOf(i))
            /\ \A j \in plan[p] : j.name = i.name => j = i
            /\ \A j \in plan[p] \ {i} : KegOf(j) \in Kegs \ {KegOf(i)}
    BY <1>0, ItemAtHand DEF InstallSteps
  <1>2. target[p].keg = KegOf(i) /\ target[p].name = i.name
    BY <1>1
  <1>3. KegExists(KegOf(i))
    BY <1>1, Contentful DEF KegExists
  <1>4. /\ cellar' = [cellar EXCEPT ![KegOf(i)] = Partial(@.key)]
        /\ ItemStep(p, "cleaned")
    BY <1>2, <1>3 DEF CleanupKeg, StartRemoveKeg
  <1>5. /\ \A g \in Kegs \ {KegOf(i)} : cellar'[g] = cellar[g]
        /\ \E c : cellar' = [cellar EXCEPT ![KegOf(i)] = c]
    BY <1>4, TypeParts DEF DiskTypeOK
  <1>6. RowsFit' /\ \A g : Recorded(g)' => Recorded(g)
    BY <1>0, <1>1, <1>5, KegWritten, TypeParts
  <1>7. pc'[p] = "cleaned" /\ UNCHANGED <<plan, task, target>>
    BY <1>4 DEF ItemStep, Goto, TypeOK
  <1>8. AtKeg(p, KegOf(i))'
    BY <1>2, <1>7 DEF AtKeg, KegOf
  <1>9. CellarFits(p)'
    BY <1>0, <1>1, <1>5, <1>8, CellarWritten, CleanParts, AtNoKeg, TypeParts
  <1>10. StoreFits(p)' /\ RelocatedFit'
    BY <1>0, StoreFrame, CleanParts DEF RelocatedFit
  <1>11. PlanFits(p)'
    BY <1>0, <1>6, <1>7, CleanParts DEF PlanFits, InstallSteps, KegOf
  <1>12. TasksFit(p)'
    <2> SUFFICES ASSUME NEW j \in plan[p]
                 PROVE  TaskFits(p, j)'
      BY <1>7 DEF TasksFit
    <2>1. TaskFits(p, j) /\ task[p][j] \in {"ready", "failed"}
      BY <1>0, CleanParts DEF TasksFit, ItemFits, InstallSteps
    <2>2. j.name = target'[p].name \/ cellar'[KegOf(j)] = cellar[KegOf(j)]
      BY <1>1, <1>2, <1>5, <1>7
    <2> QED BY <1>0, <1>7, <2>1, <2>2 DEF TaskFits, KegOf
  <1>13. ItemFits(p)'
    BY <1>0, <1>7, CleanParts DEF ItemFits, InstallSteps, KegOf
  <1>14. UninstallFits(p)' /\ OrphansFit(p)'
    BY <1>7 DEF UninstallFits, OrphansFit
  <1> QED BY <1>6, <1>9, <1>10, <1>11, <1>12, <1>13, <1>14 DEF Clean, ProcessFits

LEMMA EndCleanupClean ==
    ASSUME OneBottlePerKeg, WholeDirectories, TypeOK, RowsFit, RelocatedFit,
           NEW p \in Procs, Clean(p), EndCleanup(p)
    PROVE  RowsFit' /\ RelocatedFit' /\ Clean(p)'
  <1>0. /\ pc[p] = "cleaned" /\ UNCHANGED <<installed, store, relocated>>
        /\ ItemDone(p)
    BY DEF EndCleanup, At, dbVars
  <1>1. PICK i \in plan[p] :
            /\ i \in Items /\ KegOf(i) \in Kegs
            /\ target[p] = [name |-> i.name, keg |-> KegOf(i), key |-> i.key]
            /\ ~Recorded(KegOf(i))
            /\ \A j \in plan[p] \ {i} :
                  KegOf(j) \in Kegs \ {KegOf(i)} /\ ~Recorded(KegOf(j))
    BY <1>0, ItemAtHand DEF InstallSteps
  <1>2. target[p].keg = KegOf(i) /\ target[p].name = i.name
    BY <1>1
  <1>3. cellar' = [cellar EXCEPT ![KegOf(i)] = NoContent]
    BY <1>2 DEF EndCleanup, EndRemoveKeg, Fails, WholeDirectories
  <1>4. RowsFit' /\ \A g : Recorded(g)' => Recorded(g)
    BY <1>0, <1>1, <1>3, KegWritten, TypeParts
  <1>5. cellar'[KegOf(i)] = NoContent
        /\ \A g \in Kegs \ {KegOf(i)} : cellar'[g] = cellar[g]
    BY <1>1, <1>3, TypeParts DEF DiskTypeOK
  <1>6. \A g \in Kegs : AtKeg(p, g) => g = KegOf(i)
    BY <1>0, <1>2 DEF AtKeg
  <1>7. \A g \in Kegs : cellar'[g] = NoContent \/ Built(g)'
    BY <1>5, <1>6, BuiltFrame, CleanParts DEF CellarFits
  <1>8. \A j \in plan[p] : j.name # target[p].name =>
            ~Recorded(KegOf(j))' /\ cellar'[KegOf(j)] = cellar[KegOf(j)]
    BY <1>1, <1>2, <1>4, <1>5 DEF KegOf
  <1>9. Clean(p)'
    BY <1>0, <1>7, <1>8, ItemEnds DEF InstallSteps
  <1> QED BY <1>0, <1>4, <1>9 DEF RelocatedFit

\* Linking and its records touch neither rows nor kegs.
LEMMA LinkClean ==
    ASSUME OneBottlePerKeg, TypeOK, RowsFit, RelocatedFit, NEW p \in Procs,
           Clean(p), LinkItem(p) \/ RecordLinks(p)
    PROVE  RowsFit' /\ RelocatedFit' /\ Clean(p)'
  <1>0. /\ pc[p] \in {"link", "rows"}
        /\ UNCHANGED <<installed, store, relocated, cellar>>
        /\ ItemDone(p) \/ ItemStep(p, "rows")
    BY DEF LinkItem, RecordLinks, At, dbVars, diskVars, RecordLinkedFile
  <1>1. RelocatedFit' /\ RowsFit' /\ \A g : Recorded(g)' => Recorded(g)
    BY <1>0, RowsFrame DEF RelocatedFit
  <1>2. CASE ItemStep(p, "rows")
    BY <1>0, <1>1, <1>2, ItemGoes DEF InstallSteps
  <1>3. CASE ItemDone(p)
    <2>1. \A g \in Kegs : cellar'[g] = NoContent \/ Built(g)'
      BY <1>0, ItemKegs, BuiltFrame DEF InstallSteps
    <2>2. \A j \in plan[p] : j.name # target[p].name => ~Recorded(KegOf(j))'
      BY <1>0, <1>1, CleanParts DEF PlanFits, InstallSteps, KegOf
    <2>3. Clean(p)'
      BY <1>0, <1>3, <2>1, <2>2, ItemEnds DEF InstallSteps
    <2> QED BY <1>1, <2>3
  <1> QED BY <1>0, <1>2, <1>3

-----------------------------------------------------------------------------
(* Steps after which no fact about their process is left.                  *)

LEMMA FreeClean ==
    ASSUME RowsFit, RelocatedFit, NEW p \in Procs, StoreFits(p), CellarFits(p),
           UNCHANGED <<installed, store, relocated, cellar>>,
           pc[p] \notin {"gc_removed", "r_store_removed", "cleaned", "u_removed",
                         "r_keg_removed", "prepare"},
           pc'[p] \notin KegSteps
    PROVE  RowsFit' /\ RelocatedFit' /\ Clean(p)'
  BY FilesKept, FreeFits DEF Clean

LEMMA FinishInstallClean ==
    ASSUME TypeOK, RowsFit, RelocatedFit, NEW p \in Procs, Clean(p), FinishInstall(p)
    PROVE  RowsFit' /\ RelocatedFit' /\ Clean(p)'
  <1>1. /\ pc[p] = "prepare" /\ pc'[p] = "idle"
        /\ UNCHANGED <<installed, store, relocated, cellar>>
    BY DEF FinishInstall, Prepared, Finish, Goto, TypeOK, dbVars, diskVars
  <1>2. \A g : ~AtKeg(p, g)
    BY <1>1 DEF FinishInstall, AtKeg
  <1>3. ProcessFits(p)'
    BY <1>1, FreeFits DEF KegSteps, InstallSteps, UninstallSteps
  <1> QED BY <1>1, <1>2, <1>3, RowsFrame, StoreFrame, CellarFrame, CleanParts
          DEF RelocatedFit, Clean

LinkSteps == {"link_keg", "link_rows", "unlink_keg", "clear_rows"}

LEMMA LinkCommandsClean ==
    ASSUME TypeOK, RowsFit, RelocatedFit, NEW p \in Procs, Clean(p),
           \/ StartLink(p) \/ StartUnlink(p) \/ AcquireForLink(p)
           \/ LinkInstalled(p) \/ PersistLinks(p) \/ UnlinkInstalled(p) \/ ClearRows(p)
    PROVE  RowsFit' /\ RelocatedFit' /\ Clean(p)'
  <1>1. UNCHANGED <<installed, store, relocated, cellar>>
    BY DEF StartLink, StartUnlink, AcquireForLink, LinkInstalled, PersistLinks,
           UnlinkInstalled, ClearRows, dbVars, diskVars, RecordLinkedFile,
           ClearKegFileRecords
  <1>2. pc[p] \in {"idle", "wait_link", "wait_unlink"} \cup LinkSteps
    BY DEF StartLink, StartUnlink, AcquireForLink, LinkInstalled, PersistLinks,
           UnlinkInstalled, ClearRows, Begin, At, LinkSteps
  <1>3. pc'[p] \in {"idle", "wait_link", "wait_unlink"} \cup LinkSteps
    BY DEF StartLink, StartUnlink, AcquireForLink, LinkInstalled, PersistLinks,
           UnlinkInstalled, ClearRows, Finish, Goto, ItemStep, LinkSteps, TypeOK
  <1> QED BY <1>1, <1>2, <1>3, FreeClean, CleanParts
          DEF LinkSteps, KegSteps, InstallSteps, UninstallSteps

\* gc touches store entries and counts only.  An entry it has begun to remove
\* is the one of its target.
LEMMA GcClean ==
    ASSUME WholeDirectories, TypeOK, RowsFit, RelocatedFit, NEW p \in Procs,
           Clean(p),
           \/ StartGc(p) \/ GcRemoveEntry(p) \/ GcEntryRemoved(p)
           \/ GcDeleteRef(p) \/ FinishGc(p)
    PROVE  RowsFit' /\ RelocatedFit' /\ Clean(p)'
  <1> USE DEF TypeOK
  <1>1. UNCHANGED <<installed, relocated, cellar>>
    BY DEF StartGc, GcRemoveEntry, GcEntryRemoved, GcDeleteRef, FinishGc, dbVars,
           diskVars, DeleteStoreRef
  <1>2. pc[p] \in {"idle", "gc_next", "gc_removed", "gc_ref"}
    BY DEF StartGc, Begin, GcRemoveEntry, GcEntryRemoved, GcDeleteRef, FinishGc, At
  <1>3. pc'[p] \in {"idle", "gc_next", "gc_removed", "gc_ref"}
    BY DEF StartGc, GcRemoveEntry, GcEntryRemoved, GcDeleteRef, FinishGc, Finish,
           Goto, ItemStep
  <1>4. RowsFit' /\ RelocatedFit' /\ CellarFits(p)' /\ ProcessFits(p)'
    BY <1>1, <1>2, <1>3, RowsFrame, CellarFrame, AtNoKeg, FreeFits, CleanParts
       DEF RelocatedFit, KegSteps, InstallSteps, UninstallSteps
  <1>5. StoreFits(p)'
    <2>1. CASE GcRemoveEntry(p)
      <3>1. PICK k \in todo[p] :
                /\ target'[p].key = k
                /\ IF store[k] = "absent"
                   THEN UNCHANGED store
                   ELSE /\ pc'[p] = "gc_removed"
                        /\ store' = [store EXCEPT ![k] = "partial"]
        BY <2>1 DEF GcRemoveEntry, Goto, NoTarget
      <3>2. \A x \in Keys : store[x] # "partial"
        BY <2>1, CleanParts DEF StoreFits, GcRemoveEntry, At
      <3> QED BY <3>1, <3>2 DEF StoreFits
    <2>2. CASE GcEntryRemoved(p)
      <3>1. store' = [store EXCEPT ![target[p].key] = "absent"]
        BY <2>2 DEF GcEntryRemoved, Fails, WholeDirectories
      <3> QED BY <3>1, CleanParts DEF StoreFits
    <2>3. CASE StartGc(p) \/ GcDeleteRef(p) \/ FinishGc(p)
      <3>1. UNCHANGED store /\ pc[p] # "gc_removed"
        BY <2>3 DEF StartGc, Begin, GcDeleteRef, FinishGc, At, diskVars
      <3> QED BY <1>2, <3>1, StoreFrame, CleanParts
    <2> QED BY <2>1, <2>2, <2>3
  <1> QED BY <1>4, <1>5 DEF Clean

-----------------------------------------------------------------------------
(* uninstall.                                                              *)

\* The keg of a row is the keg of no other row; a keg found in the cellar has
\* a token that no row has.
LEMMA StartUninstallClean ==
    ASSUME OneBottlePerKeg, TypeOK, RowsFit, RelocatedFit, NEW p \in Procs,
           Clean(p), StartUninstall(p)
    PROVE  RowsFit' /\ RelocatedFit' /\ Clean(p)'
  <1>1. /\ pc[p] = "idle" /\ pc'[p] = "u_unlink"
        /\ UNCHANGED <<installed, store, relocated, cellar>>
    BY DEF StartUninstall, Begin, Goto, TypeOK, dbVars, diskVars
  <1>2. RowsFit' /\ RelocatedFit' /\ StoreFits(p)' /\ CellarFits(p)'
    BY <1>1, CleanParts, FilesKept
  <1>3. PICK n \in Names :
            \E g \in IF installed[n] # NoRow THEN {KegOfRow(n)} ELSE FallbackKegs(n) :
               target' = [target EXCEPT ![p] = [name |-> n, keg |-> g, key |-> NoKey]]
    BY DEF StartUninstall
  <1>4. PICK g \in IF installed[n] # NoRow THEN {KegOfRow(n)} ELSE FallbackKegs(n) :
            target' = [target EXCEPT ![p] = [name |-> n, keg |-> g, key |-> NoKey]]
    BY <1>3
  <1>5. target'[p].keg = g /\ target'[p].name = n
    BY <1>4 DEF TypeOK
  <1>6. \A m \in Names : installed[m] # NoRow /\ KegOfRow(m) = g => m = n
    <2> SUFFICES ASSUME NEW m \in Names, installed[m] # NoRow, KegOfRow(m) = g
                 PROVE  m = n
      OBVIOUS
    <2>1. CASE installed[n] # NoRow
      BY <2>1, <1>4, RowsOfOneKeg DEF RowsFit
    <2>2. CASE installed[n] = NoRow
      <3>1. g[1] = TokenOf[n] /\ \A x \in Names : installed[x] # NoRow =>
                                      TokenOf[x] # TokenOf[n]
        BY <2>2, <1>4 DEF FallbackKegs
      <3> QED BY <3>1 DEF KegOfRow
    <2> QED BY <2>1, <2>2
  <1>7. UninstallFits(p)' /\ OrphansFit(p)'
    BY <1>1, <1>5, <1>6 DEF UninstallFits, OrphansFit, KegOfRow
  <1> QED BY <1>1, <1>2, <1>7, NotInstalling DEF Clean, InstallSteps

LEMMA UninstallUnlinkClean ==
    ASSUME TypeOK, TargetOK, RowsFit, RelocatedFit, NEW p \in Procs, Clean(p),
           UninstallUnlink(p)
    PROVE  RowsFit' /\ RelocatedFit' /\ Clean(p)'
  <1>1. /\ pc[p] = "u_unlink" /\ UNCHANGED <<installed, store, relocated, cellar>>
    BY DEF UninstallUnlink, At, dbVars
  <1>2. CASE Finish(p)
    BY <1>1, <1>2, FreeClean, CleanParts
       DEF Finish, Goto, KegSteps, InstallSteps, UninstallSteps, TypeOK
  <1>3. CASE ~Finish(p)
    <2>1. /\ pc'[p] = "u_record"
          /\ target' = [target EXCEPT ![p].key = installed[target[p].name].key]
      BY <1>3 DEF UninstallUnlink, Goto, TypeOK
    <2>2. /\ target'[p].keg = target[p].keg /\ target'[p].name = target[p].name
          /\ target'[p].key = installed[target[p].name].key
      BY <2>1 DEF TypeOK, Targets
    <2>3. RowsFit' /\ RelocatedFit' /\ StoreFits(p)' /\ CellarFits(p)'
      BY <1>1, CleanParts, FilesKept
    <2>4. UninstallFits(p)' /\ OrphansFit(p)'
      BY <1>1, <2>1, <2>2, CleanParts DEF UninstallFits, OrphansFit, KegOfRow
    <2> QED BY <2>1, <2>3, <2>4, NotInstalling DEF Clean, InstallSteps
  <1> QED BY <1>2, <1>3

\* Only when the row is gone does the removal of the keg begin.
LEMMA UninstallRecordClean ==
    ASSUME TypeOK, TargetOK, RowsFit, RelocatedFit, NEW p \in Procs, Clean(p),
           UninstallRecord(p)
    PROVE  RowsFit' /\ RelocatedFit' /\ Clean(p)'
  <1> DEFINE n == target[p].name
  <1>0. DbTypeOK /\ n \in Names
    BY TypeParts DEF TargetOK, TargetFits, UninstallRecord, At, UninstallSteps
  <1>1. /\ pc[p] = "u_record" /\ UNCHANGED <<store, relocated, cellar>>
        /\ target[p].key = installed[n].key
        /\ \A m \in Names : installed[m] # NoRow /\ KegOfRow(m) = target[p].keg => m = n
    BY CleanParts DEF UninstallRecord, At, diskVars, UninstallFits
  <1>2. CASE Finish(p) /\ UNCHANGED dbVars
    BY <1>1, <1>2, FreeClean, CleanParts
       DEF Finish, Goto, KegSteps, InstallSteps, UninstallSteps, TypeOK, dbVars
  <1>3. CASE ~(Finish(p) /\ UNCHANGED dbVars)
    <2>1. pc'[p] = "u_remove" /\ target' = target
      BY <1>3 DEF UninstallRecord, ItemStep, Goto, TypeOK
    <2>2. RowsFit' /\ ~Recorded(target[p].keg)'
      <3>1. CASE target[p].key # NoKey
        <4>1. installed' = [installed EXCEPT ![n] = NoRow]
          BY <1>3, <3>1 DEF UninstallRecord, RecordUninstall
        <4>2. /\ RowsFit'
              /\ \A g : Recorded(g)' => \E m \in Names \ {n} :
                                           installed[m] # NoRow /\ KegOfRow(m) = g
          BY <1>0, <1>1, <4>1, RowsGone
        <4> QED BY <1>1, <2>1, <4>2
      <3>2. CASE target[p].key = NoKey
        <4>1. installed' = installed
          BY <1>3, <3>2 DEF UninstallRecord, dbVars
        <4>2. installed[n] = NoRow
          BY <1>0, <1>1, <3>2, DbAssumption DEF DbTypeOK, Rows, DbAssumption
        <4>3. RowsFit' /\ \A g : Recorded(g)' => Recorded(g)
          BY <1>1, <4>1, RowsFrame
        <4>4. ~Recorded(target[p].keg)
          BY <1>1, <4>2 DEF Recorded
        <4> QED BY <2>1, <4>3, <4>4
      <3> QED BY <3>1, <3>2
    <2>3. RelocatedFit' /\ StoreFits(p)' /\ CellarFits(p)'
      BY <1>1, StoreFrame, CellarFrame, AtNoKeg, CleanParts DEF RelocatedFit
    <2>4. UninstallFits(p)' /\ OrphansFit(p)'
      BY <2>1, <2>2 DEF UninstallFits, OrphansFit
    <2> QED BY <2>1, <2>2, <2>3, <2>4, NotInstalling DEF Clean, InstallSteps
  <1> QED BY <1>2, <1>3

\* A keg without a row is removed: its directory is partly gone, then gone.
LEMMA RemoveClean ==
    ASSUME TypeOK, RowsFit, RelocatedFit, NEW p \in Procs, Clean(p),
           NEW g \in Kegs, ~Recorded(g), UNCHANGED <<installed, store, relocated>>,
           pc[p] \notin {"gc_removed", "r_store_removed", "prepare", "cleaned"},
           \A h : AtKeg(p, h) => h = g,
           \/ cellar' = [cellar EXCEPT ![g] = NoContent]
           \/ StartRemoveKeg(g) /\ AtKeg(p, g)'
    PROVE  /\ RowsFit' /\ RelocatedFit' /\ StoreFits(p)' /\ CellarFits(p)'
           /\ \A h : Recorded(h)' => Recorded(h)
  <1>1. \E c : cellar' = [cellar EXCEPT ![g] = c]
    BY DEF StartRemoveKeg
  <1>2. RowsFit' /\ \A h : Recorded(h)' => Recorded(h)
    BY <1>1, KegWritten, TypeParts
  <1>3. CellarFits(p)'
    BY <1>1, CellarWritten, CleanParts, TypeParts
  <1> QED BY <1>2, <1>3, StoreFrame, CleanParts DEF RelocatedFit

LEMMA UninstallRemoveClean ==
    ASSUME WholeDirectories, TypeOK, TargetOK, RowsFit, RelocatedFit,
           NEW p \in Procs, Clean(p), UninstallRemoveKeg(p) \/ UninstallKegRemoved(p)
    PROVE  RowsFit' /\ RelocatedFit' /\ Clean(p)'
  <1> DEFINE g == target[p].keg
  <1>0. /\ pc[p] \in {"u_remove", "u_removed"} /\ g \in Kegs
        /\ UNCHANGED <<installed, store, relocated>>
    BY DEF TargetOK, TargetFits, UninstallRemoveKeg, UninstallKegRemoved, At,
           UninstallSteps, dbVars
  <1>1. ~Recorded(g) /\ \A h : AtKeg(p, h) => h = g
    BY <1>0, CleanParts DEF UninstallFits, AtKeg
  <1>2. CASE UninstallRemoveKeg(p) /\ KegExists(g)
    <2>1. StartRemoveKeg(g) /\ ItemStep(p, "u_removed")
      BY <1>2 DEF UninstallRemoveKeg
    <2>2. pc'[p] = "u_removed" /\ target' = target
      BY <2>1 DEF ItemStep, Goto, TypeOK
    <2>3. AtKeg(p, g)'
      BY <2>2 DEF AtKeg
    <2>4. /\ RowsFit' /\ RelocatedFit' /\ StoreFits(p)' /\ CellarFits(p)'
          /\ \A h : Recorded(h)' => Recorded(h)
      BY <1>0, <1>1, <2>1, <2>2, <2>3, RemoveClean
    <2>5. UninstallFits(p)' /\ OrphansFit(p)'
      BY <1>1, <2>2, <2>4 DEF UninstallFits, OrphansFit
    <2> QED BY <2>2, <2>4, <2>5, NotInstalling DEF Clean, InstallSteps
  <1>3. CASE UninstallRemoveKeg(p) /\ ~KegExists(g)
    <2>1. pc[p] = "u_remove" /\ pc'[p] = "idle" /\ UNCHANGED cellar
      BY <1>3 DEF UninstallRemoveKeg, At, Finish, Goto, TypeOK
    <2> QED BY <1>0, <2>1, FreeClean, CleanParts
            DEF KegSteps, InstallSteps, UninstallSteps
  <1>4. CASE UninstallKegRemoved(p)
    <2>1. cellar' = [cellar EXCEPT ![g] = NoContent] /\ pc'[p] = "idle"
      BY <1>4 DEF UninstallKegRemoved, EndRemoveKeg, Fails, WholeDirectories,
                  Finish, Goto, TypeOK
    <2>2. RowsFit' /\ RelocatedFit' /\ StoreFits(p)' /\ CellarFits(p)'
      BY <1>0, <1>1, <2>1, RemoveClean
    <2> QED BY <2>1, <2>2, FreeFits DEF Clean, KegSteps, InstallSteps, UninstallSteps
  <1> QED BY <1>2, <1>3, <1>4

-----------------------------------------------------------------------------
(* doctor and repair.                                                      *)

\* The orphans of the report have a token that no row has.
LEMMA DoctorClean ==
    ASSUME TypeOK, RowsFit, RelocatedFit, NEW p \in Procs, Clean(p),
           StartDoctor(p) \/ DoctorReadRefs(p) \/ DoctorReadDisk(p)
    PROVE  RowsFit' /\ RelocatedFit' /\ Clean(p)'
  <1> USE DEF TypeOK, Goto
  <1>1. /\ pc[p] \in {"idle", "d_refs", "d_disk"}
        /\ pc'[p] \in {"idle", "d_refs", "d_disk", "repair"}
        /\ UNCHANGED <<installed, store, relocated, cellar>>
    BY DEF StartDoctor, Begin, DoctorReadRefs, DoctorReadDisk, At, Finish, dbVars,
           diskVars
  <1>2. RowsFit' /\ RelocatedFit' /\ StoreFits(p)' /\ CellarFits(p)'
    BY <1>1, CleanParts, FilesKept
  <1>3. pc'[p] \in {"d_refs", "d_disk"} => seen'[p] = installed
    BY CleanParts
    DEF StartDoctor, DoctorReadRefs, DoctorReadDisk, At, Finish, OrphansFit
  <1>4. pc'[p] = "repair" => \A g \in report'[p].kegs : ~Recorded(g)
    <2> SUFFICES ASSUME pc'[p] = "repair"
                 PROVE  \A g \in report'[p].kegs : ~Recorded(g)
      OBVIOUS
    <2>1. DoctorReadDisk(p) /\ pc[p] = "d_disk"
      BY DEF StartDoctor, DoctorReadRefs, DoctorReadDisk, At
    <2>2. report'[p].kegs = OrphanKegs(seen[p])
      BY <2>1 DEF DoctorReadDisk, Finish
    <2>3. seen[p] = installed
      BY <2>1, CleanParts DEF OrphansFit
    <2> QED BY <2>2, <2>3 DEF OrphanKegs, Tracked, Recorded, KegOfRow
  <1>5. UninstallFits(p)' /\ OrphansFit(p)'
    BY <1>1, <1>3, <1>4 DEF UninstallFits, OrphansFit, Recorded, KegOfRow
  <1> QED BY <1>1, <1>2, <1>5, NotInstalling DEF Clean, InstallSteps

LEMMA RepairKegsClean ==
    ASSUME WholeDirectories, TypeOK, RowsFit, RelocatedFit, NEW p \in Procs,
           Clean(p),
           RepairUnlinkKeg(p) \/ RepairRemoveKeg(p) \/ RepairKegRemoved(p)
    PROVE  RowsFit' /\ RelocatedFit' /\ Clean(p)'
  <1> DEFINE g == target[p].keg
  <1> USE DEF Goto
  <1>0. UNCHANGED <<installed, store, relocated>>
    BY DEF RepairUnlinkKeg, RepairRemoveKeg, RepairKegRemoved, dbVars
  <1>1. CASE RepairUnlinkKeg(p)
    <2>1. /\ pc[p] = "repair" /\ pc'[p] = "r_keg" /\ UNCHANGED cellar
          /\ target'[p].keg \in report[p].kegs
          /\ report'[p].kegs \subseteq report[p].kegs
      BY <1>1 DEF RepairUnlinkKeg, At, TypeOK, NoTarget, Reports
    <2>2. /\ RowsFit' /\ RelocatedFit' /\ StoreFits(p)' /\ CellarFits(p)'
          /\ \A h : Recorded(h)' => Recorded(h)
      BY <1>0, <2>1, CleanParts, FilesKept
    <2>3. UninstallFits(p)' /\ OrphansFit(p)'
      BY <2>1, <2>2, CleanParts DEF UninstallFits, OrphansFit
    <2> QED BY <2>1, <2>2, <2>3, NotInstalling DEF Clean, InstallSteps
  <1>2. CASE RepairRemoveKeg(p) /\ ~KegExists(g)
    <2>1. /\ pc[p] = "r_keg" /\ pc'[p] = "repair" /\ UNCHANGED <<cellar, report>>
      BY <1>2 DEF RepairRemoveKeg, At, ItemStep, TypeOK
    <2>2. /\ RowsFit' /\ RelocatedFit' /\ StoreFits(p)' /\ CellarFits(p)'
          /\ \A h : Recorded(h)' => Recorded(h)
      BY <1>0, <2>1, CleanParts, FilesKept
    <2>3. UninstallFits(p)' /\ OrphansFit(p)'
      BY <2>1, <2>2, CleanParts DEF UninstallFits, OrphansFit
    <2> QED BY <2>1, <2>2, <2>3, NotInstalling DEF Clean, InstallSteps
  <1>3. CASE (RepairRemoveKeg(p) /\ KegExists(g)) \/ RepairKegRemoved(p)
    <2>1. /\ pc[p] \in {"r_keg", "r_keg_removed"}
          /\ pc'[p] \in {"r_keg_removed", "repair"}
          /\ UNCHANGED <<target, report>>
          /\ \/ StartRemoveKeg(g) /\ pc'[p] = "r_keg_removed"
             \/ cellar' = [cellar EXCEPT ![g] = NoContent]
      BY <1>3 DEF RepairRemoveKeg, RepairKegRemoved, At, ItemStep, EndRemoveKeg,
                  Fails, WholeDirectories, TypeOK
    <2>2. /\ ~Recorded(g) /\ \A h : AtKeg(p, h) => h = g
          /\ \A h \in report[p].kegs : ~Recorded(h)
      BY <2>1, CleanParts DEF OrphansFit, AtKeg
    <2>3. pc'[p] = "r_keg_removed" => AtKeg(p, g)'
      BY <2>1 DEF AtKeg
    <2>4. /\ RowsFit' /\ RelocatedFit' /\ StoreFits(p)' /\ CellarFits(p)'
          /\ \A h : Recorded(h)' => Recorded(h)
      <3>1. CASE g \in Kegs
        BY <1>0, <2>1, <2>2, <2>3, <3>1, RemoveClean
      <3>2. CASE g \notin Kegs
        <4>1. UNCHANGED cellar
          BY <2>1, <3>2 DEF StartRemoveKeg, TypeOK
        <4>2. \A h \in Kegs : ~AtKeg(p, h)
          BY <2>2, <3>2
        <4> QED BY <1>0, <2>1, <4>1, <4>2, RowsFrame, StoreFrame, CellarFrame,
                   CleanParts DEF RelocatedFit
      <3> QED BY <3>1, <3>2
    <2>5. UninstallFits(p)' /\ OrphansFit(p)'
      BY <2>1, <2>2, <2>4 DEF UninstallFits, OrphansFit
    <2> QED BY <2>1, <2>4, <2>5, NotInstalling DEF Clean, InstallSteps
  <1> QED BY <1>1, <1>2, <1>3

LEMMA RepairMissingClean ==
    ASSUME TypeOK, RowsFit, RelocatedFit, NEW p \in Procs, Clean(p), RepairMissing(p)
    PROVE  RowsFit' /\ RelocatedFit' /\ Clean(p)'
  <1>0. pc[p] = "repair" /\ UNCHANGED <<store, relocated, cellar>>
    BY DEF RepairMissing, At, diskVars
  <1>1. CASE Finish(p) /\ UNCHANGED dbVars
    BY <1>0, <1>1, FreeClean, CleanParts
       DEF Finish, Goto, KegSteps, InstallSteps, UninstallSteps, TypeOK, dbVars
  <1>2. CASE ~(Finish(p) /\ UNCHANGED dbVars)
    <2>1. PICK n \in report[p].missing :
              /\ DeleteInstalledRecord(n)
              /\ report' = [report EXCEPT ![p].missing = @ \ {n}]
              /\ pc' = pc
      BY <1>2 DEF RepairMissing
    <2>2. n \in Names /\ report'[p].kegs = report[p].kegs
      BY <2>1 DEF TypeOK, Reports
    <2>3. RowsFit' /\ \A g : Recorded(g)' => Recorded(g)
      BY <1>0, <2>1, <2>2, TypeParts, RowsGone DEF DeleteInstalledRecord
    <2>4. UninstallFits(p)' /\ OrphansFit(p)'
      BY <1>0, <2>1, <2>2, <2>3, CleanParts DEF UninstallFits, OrphansFit
    <2>5. RelocatedFit' /\ StoreFits(p)' /\ CellarFits(p)'
      BY <1>0, StoreFrame, CellarFrame, AtNoKeg, CleanParts DEF RelocatedFit
    <2> QED BY <1>0, <2>1, <2>3, <2>4, <2>5, NotInstalling DEF Clean, InstallSteps
  <1> QED BY <1>1, <1>2

\* The rest of repair touches counts, store entries, links and their records.
LEMMA RepairRestClean ==
    ASSUME WholeDirectories, TypeOK, RowsFit, RelocatedFit, NEW p \in Procs,
           Clean(p),
           \/ RepairListInstalled(p) \/ RepairStoreRefs(p) \/ RepairRemoveEntry(p)
           \/ RepairEntryRemoved(p) \/ RepairLinks(p) \/ RepairPrune(p)
    PROVE  RowsFit' /\ RelocatedFit' /\ Clean(p)'
  <1> USE DEF TypeOK
  <1>1. UNCHANGED <<installed, relocated, cellar>>
    BY DEF RepairListInstalled, RepairStoreRefs, RepairRemoveEntry,
           RepairEntryRemoved, RepairLinks, RepairPrune, ReplaceStoreRefs,
           PruneStaleKegFileRecords, dbVars, diskVars
  <1>2. pc[p] \in {"repair", "r_refs", "r_store", "r_store_removed", "r_prune"}
    BY DEF RepairListInstalled, RepairStoreRefs, RepairRemoveEntry,
           RepairEntryRemoved, RepairLinks, RepairPrune, At
  <1>3. pc'[p] \in {"idle", "r_refs", "r_store", "r_store_removed", "r_prune"}
    BY DEF RepairListInstalled, RepairStoreRefs, RepairRemoveEntry,
           RepairEntryRemoved, RepairLinks, RepairPrune, Finish, Goto, ItemStep, At
  <1>4. RowsFit' /\ RelocatedFit' /\ CellarFits(p)' /\ ProcessFits(p)'
    BY <1>1, <1>2, <1>3, RowsFrame, CellarFrame, AtNoKeg, FreeFits, CleanParts
       DEF RelocatedFit, KegSteps, InstallSteps, UninstallSteps
  <1>5. StoreFits(p)'
    <2>1. CASE RepairRemoveEntry(p)
      <3>1. PICK k \in todo[p] :
                \/ UNCHANGED store
                \/ /\ target'[p].key = k /\ pc'[p] = "r_store_removed"
                   /\ store' = [store EXCEPT ![k] = "partial"]
        BY <2>1 DEF RepairRemoveEntry, Goto, NoTarget
      <3>2. \A x \in Keys : store[x] # "partial"
        BY <2>1, CleanParts DEF StoreFits, RepairRemoveEntry, At
      <3> QED BY <3>1, <3>2 DEF StoreFits
    <2>2. CASE RepairEntryRemoved(p)
      <3>1. store' = [store EXCEPT ![target[p].key] = "absent"]
        BY <2>2 DEF RepairEntryRemoved, Fails, WholeDirectories
      <3> QED BY <3>1, CleanParts DEF StoreFits
    <2>3. CASE \/ RepairListInstalled(p) \/ RepairStoreRefs(p)
               \/ RepairLinks(p) \/ RepairPrune(p)
      <3>1. UNCHANGED store /\ pc[p] # "r_store_removed"
        BY <2>3 DEF RepairListInstalled, RepairStoreRefs, RepairLinks, RepairPrune,
                    At, diskVars
      <3> QED BY <1>2, <3>1, StoreFrame, CleanParts
    <2> QED BY <2>1, <2>2, <2>3
  <1> QED BY <1>4, <1>5 DEF Clean

-----------------------------------------------------------------------------
(* The invariant of the kegs.                                              *)

LEMMA StepClean ==
    ASSUME OneBottlePerKeg, WholeDirectories, TypeOK, TargetOK, RowsFit,
           RelocatedFit, NEW p \in Procs, Clean(p),
           Start(p) \/ Acquire(p) \/ Locked(p) \/ Unlocked(p) \/ Crash(p)
    PROVE  RowsFit' /\ RelocatedFit' /\ Clean(p)'
  <1>1. CASE Start(p)
    BY <1>1, StartInstallClean, LinkCommandsClean, StartUninstallClean, GcClean,
       DoctorClean DEF Start
  <1>2. CASE Acquire(p)
    BY <1>2, AcquireInstallClean, LinkCommandsClean DEF Acquire
  <1>3. CASE Locked(p)
    <2>1. CASE Prepare(p)
      BY <2>1, EnsureEntryClean, CopiesClean DEF Prepare
    <2> QED BY <1>3, <2>1, NextItemClean, FinishInstallClean, PostInstallClean,
               SaveClean, RecordClean, CleanupClean, EndCleanupClean, LinkClean,
               LinkCommandsClean DEF Locked
  <1>4. CASE Unlocked(p)
    BY <1>4, UninstallUnlinkClean, UninstallRecordClean, UninstallRemoveClean,
       GcClean, DoctorClean, RepairKegsClean, RepairMissingClean, RepairRestClean
       DEF Unlocked
  <1>5. ~Crash(p)
    BY DEF Crash, Fails, WholeDirectories
  <1> QED BY <1>1, <1>2, <1>3, <1>4, <1>5

\* When p moves the others are idle, before the step and after it.  If p is
\* idle too, what holds of p holds of every process.
LEMMA IdleClean ==
    ASSUME NEW p \in Procs, NEW q \in Procs, pc'[p] = "idle", pc'[q] = "idle",
           Clean(p)'
    PROVE  Clean(q)'
  <1>1. StoreFits(p)' /\ CellarFits(p)' /\ \A g : ~AtKeg(p, g)'
    BY DEF Clean, AtKeg
  <1>2. StoreFits(q)' /\ CellarFits(q)'
    BY <1>1 DEF StoreFits, CellarFits
  <1>3. ProcessFits(q)'
    BY FreeFits DEF KegSteps, InstallSteps, UninstallSteps
  <1> QED BY <1>2, <1>3 DEF Clean

LEMMA KegsInit == Init => KegsInv
  <1> SUFFICES ASSUME Init
               PROVE  KegsInv
    OBVIOUS
  <1>1. SerialInv
    BY SerialInit
  <1>2. \A n \in Names : installed[n] = NoRow
    BY DEF Init, DbInit
  <1>3. RowsFit /\ RelocatedFit
    BY <1>2 DEF Init, RowsFit, RecordMatchesKeg, RowsAreItems, RelocatedFit
  <1>4. ASSUME NEW p \in Procs
        PROVE  Clean(p)
    BY FreeFits DEF Init, Clean, StoreFits, CellarFits, KegSteps, InstallSteps,
                    UninstallSteps
  <1> QED BY <1>1, <1>3, <1>4 DEF KegsInv

LEMMA KegsStutter == KegsInv /\ SerialInv' /\ UNCHANGED vars => KegsInv'
  <1> SUFFICES ASSUME KegsInv, SerialInv', UNCHANGED vars
               PROVE  KegsInv'
    OBVIOUS
  <1> USE DEF vars, dbVars, diskVars, localVars
  <1>1. RowsFit' /\ RelocatedFit' /\ \A g : Recorded(g)' = Recorded(g)
    BY RowsFrame DEF KegsInv, RelocatedFit, Recorded, KegOfRow
  <1>2. ASSUME NEW p \in Procs, Alone(p)'
        PROVE  Clean(p)'
    <2>1. Clean(p)
      BY <1>2 DEF KegsInv, Alone
    <2>2. StoreFits(p)' /\ CellarFits(p)'
      BY <2>1, CellarFrame, CleanParts DEF StoreFits, AtKeg, KegOf
    <2>3. PlanFits(p)'
      BY <1>1, <2>1, CleanParts DEF PlanFits, KegOf
    <2>6. ItemFits(p)'
      BY <2>1, CleanParts DEF ItemFits, KegOf
    <2>5. TasksFit(p)'
      BY <2>1, CleanParts DEF TasksFit, TaskFits, KegOf, CacheKey
    <2>4. UninstallFits(p)' /\ OrphansFit(p)'
      BY <1>1, <2>1, CleanParts DEF UninstallFits, OrphansFit, KegOfRow
    <2> QED BY <2>2, <2>3, <2>4, <2>5, <2>6 DEF Clean, ProcessFits
  <1> QED BY <1>1, <1>2 DEF KegsInv

LEMMA KegsNext ==
    ASSUME ~Overlap, OneBottlePerKeg, WholeDirectories, KegsInv, [Next]_vars
    PROVE  KegsInv'
  <1>0. SerialInv /\ SerialInv' /\ TypeOK /\ TargetOK
    BY SerialNext DEF KegsInv, SerialInv, Inv
  <1>1. CASE UNCHANGED vars
    BY <1>0, <1>1, KegsStutter
  <1>2. ASSUME NEW p \in Procs,
               Start(p) \/ Acquire(p) \/ Locked(p) \/ Unlocked(p) \/ Crash(p)
        PROVE  KegsInv'
    <2>1. \A q \in Procs \ {p} : pc'[q] = "idle" /\ pc[q] = "idle"
      BY <1>0, <1>2, OthersIdle, StepMoves DEF SerialInv, Stays, TypeOK
    <2>2. Clean(p)
      BY <2>1 DEF KegsInv, Alone
    <2>3. RowsFit' /\ RelocatedFit' /\ Clean(p)'
      BY <1>0, <1>2, <2>2, StepClean DEF KegsInv
    <2>4. ASSUME NEW q \in Procs \ {p}, Alone(q)'
          PROVE  Clean(q)'
      <3>1. pc'[p] = "idle" /\ pc'[q] = "idle"
        BY <2>1, <2>4 DEF Alone
      <3> QED BY <2>3, <3>1, IdleClean
    <2> QED BY <1>0, <2>3, <2>4 DEF KegsInv
  <1> QED BY <1>1, <1>2 DEF Next

\* When commands do not overlap, no two bottles share a keg directory, and no
\* copy or removal stops half way, every row of installed_kegs describes its
\* keg: it is there, whole, and made of the bottle the row records.  (Runs
\* gc_races_install and stale_plan show what overlapping commands do to it.)
THEOREM KegsCorrect ==
    ASSUME ~Overlap, OneBottlePerKeg, WholeDirectories
    PROVE  Spec => []RecordMatchesKeg
  <1>1. Init => KegsInv
    BY KegsInit
  <1>2. KegsInv /\ [Next]_vars => KegsInv'
    BY KegsNext
  <1>3. KegsInv => RecordMatchesKeg
    BY DEF KegsInv, RowsFit
  <1> QED BY <1>1, <1>2, <1>3, PTL DEF Spec

-----------------------------------------------------------------------------
(* Repair.  When commands do not overlap, two completed doctor --repair    *)
(* runs with nothing in between leave nothing to report.  The first leaves *)
(* no missing keg, no wrong count, no broken link and no stale record of a *)
(* link (HalfHealthy), but the rows it deletes can make kegs and entries   *)
(* orphans; the second finds nothing else, and removes them.               *)

\* The store has an entry for each key a row uses: a reference is recorded
\* only for a prepared item, and an entry removed only when no row uses it.
UsedStored == \A k \in Keys : Users(k) # {} => store[k] # "absent"

TasksStored(p) ==
    /\ pc[p] \in {"prepare"} \cup InstallSteps =>
           \A i \in plan[p] :
               task[p][i] \notin {"none", "fetch", "failed"} => store[i.key] # "absent"
    /\ pc[p] \in InstallSteps => store[target[p].key] # "absent"

RefsRight ==
    \A k \in refKeys : refcount[k] = Cardinality(Users(k)) /\ store[k] # "absent"

HalfHealthy == /\ MissingKegs(installed) = {} /\ RefsRight
               /\ BrokenLinks(installed) = {} /\ StaleKegFiles = {}

ReadingSteps == {"d_refs", "d_disk"}
OrphanSteps  == {"repair", "r_keg", "r_keg_removed"}
EntrySteps   == {"r_store", "r_store_removed"}
DoctorSteps  == ReadingSteps \cup OrphanSteps \cup EntrySteps \cup {"r_refs", "r_prune"}

\* The report covers what is wrong, until repair has put it right.
ReportFits(p) ==
    /\ pc[p] \in ReadingSteps => seen[p] = installed
    /\ pc[p] = "d_disk" =>
           (report[p].recount <=> \E k \in refKeys : refcount[k] # Cardinality(Users(k)))
    /\ pc[p] \in OrphanSteps =>
           /\ MissingKegs(installed) \subseteq report[p].missing
           /\ \A g \in report[p].kegs : g[1] \notin Tracked(installed)
           /\ ~report[p].recount => RefsRight /\ report[p].missing = {}
    /\ pc[p] \in {"r_keg", "r_keg_removed"} =>
           target[p].keg \in Kegs /\ target[p].keg[1] \notin Tracked(installed)
    /\ pc[p] \in {"r_refs", "r_prune"} \cup EntrySteps => MissingKegs(installed) = {}
    /\ pc[p] \in {"r_prune"} \cup EntrySteps => RefsRight
    /\ pc[p] \in {"r_refs"} \cup OrphanSteps \cup EntrySteps =>
           BrokenLinks(installed) \subseteq report[p].links
    /\ pc[p] = "r_prune" => BrokenLinks(installed) = {}
    /\ pc[p] \in {"r_refs", "r_prune"} \cup OrphanSteps \cup EntrySteps =>
           report[p].prune \/ StaleKegFiles = {}
    /\ pc[p] = "r_refs" => report[p].recount

\* A repair after a completed one recounts nothing, and its report covers the
\* orphans; after two, doctor has nothing to report.
SecondRepair(p) ==
    /\ pc[p] \in DoctorSteps \cup {"idle"}
    /\ pc[p] \in {"r_refs"} \cup OrphanSteps => ~report[p].recount
    /\ pc[p] \in OrphanSteps =>
           \A g \in OrphanKegs(installed) :
               g \in report[p].kegs \/ (pc[p] # "repair" /\ g = target[p].keg)
    /\ pc[p] \in {"r_prune"} \cup EntrySteps => OrphanKegs(installed) = {}
    /\ pc[p] \in OrphanSteps \cup EntrySteps =>
           \A k \in OrphanEntries(installed, refKeys) :
               k \in todo[p] \/ (pc[p] = "r_store_removed" /\ k = target[p].key)
    /\ pc[p] = "r_prune" => OrphanEntries(installed, refKeys) = {}
    /\ repaired = 2 => pc[p] \in ReadingSteps \cup {"idle"}

RepairedFit == /\ repaired >= 1 => HalfHealthy
               /\ repaired = 2 => Healthy

\* What holds of a process that moves, and of an idle one.
Repairing(p) == /\ TasksStored(p) /\ ReportFits(p)
                /\ repaired >= 1 => SecondRepair(p)

RepairInv == SerialInv /\ UsedStored /\ RepairedFit /\ \A p \in Procs : Repairing(p)

-----------------------------------------------------------------------------
(* What doctor reports, from one state to the next.                        *)

LEMMA UsersFrame ==
    UNCHANGED installed => \A k : Users(k)' = Users(k)
  BY DEF Users, UsersIn

LEMMA ReportFrame ==
    /\ UNCHANGED <<installed, cellar>> =>
           /\ MissingKegs(installed)' = MissingKegs(installed)
           /\ OrphanKegs(installed)' = OrphanKegs(installed)
    /\ UNCHANGED installed => Tracked(installed)' = Tracked(installed)
    /\ UNCHANGED <<installed, cellar, linked, kegFiles>> =>
           BrokenLinks(installed)' = BrokenLinks(installed)
    /\ UNCHANGED <<installed, kegFiles>> => StaleKegFiles' = StaleKegFiles
    /\ UNCHANGED <<installed, store, refKeys>> =>
           OrphanEntries(installed, refKeys)' = OrphanEntries(installed, refKeys)
  BY DEF MissingKegs, OrphanKegs, KegExists, Tracked, BrokenLinks, StaleKegFiles,
         OrphanEntries, UsersIn

LEMMA RefsFrame ==
    ASSUME RefsRight, UNCHANGED <<installed, refKeys, refcount>>,
           \A k \in refKeys : store[k] # "absent" => store'[k] # "absent"
    PROVE  RefsRight'
  BY UsersFrame DEF RefsRight

LEMMA HalfFrame ==
    ASSUME HalfHealthy, UNCHANGED <<dbVars, cellar, linked>>,
           \A k \in refKeys : store[k] # "absent" => store'[k] # "absent"
    PROVE  HalfHealthy'
  BY ReportFrame, RefsFrame DEF HalfHealthy, dbVars

LEMMA HealthyFrame ==
    ASSUME Healthy, UNCHANGED <<dbVars, diskVars>>
    PROVE  Healthy'
  BY ReportFrame, UsersFrame DEF Healthy, dbVars, diskVars

LEMMA RepairedFrame ==
    ASSUME RepairedFit, repaired' = 0 \/ UNCHANGED repaired,
           UNCHANGED <<dbVars, diskVars>>
    PROVE  RepairedFit'
  BY HalfFrame, HealthyFrame DEF RepairedFit, dbVars, diskVars

\* Fewer rows, no new broken link; fewer links, no new one either.
LEMMA BrokenShrinks ==
    ASSUME UNCHANGED cellar,
           \A n \in Names : \/ installed'[n] = NoRow
                            \/ installed'[n] = installed[n] /\ kegFiles'[n] = kegFiles[n],
           \A t \in Tokens : linked'[t] \in {linked[t], NoVersion}
    PROVE  BrokenLinks(installed)' \subseteq BrokenLinks(installed)
  BY DEF BrokenLinks

\* A change of a keg whose token no row has concerns no row.
LEMMA UntrackedKeg ==
    ASSUME DiskTypeOK, UNCHANGED <<installed, kegFiles, linked>>, NEW g \in Kegs,
           NEW c, cellar' = [cellar EXCEPT ![g] = c], g[1] \notin Tracked(installed)
    PROVE  /\ MissingKegs(installed)' = MissingKegs(installed)
           /\ BrokenLinks(installed)' = BrokenLinks(installed)
           /\ c = NoContent => OrphanKegs(installed)' = OrphanKegs(installed) \ {g}
           /\ OrphanKegs(installed)' \subseteq OrphanKegs(installed) \cup {g}
  <1>1. \A h : h # g => cellar'[h] = cellar[h]
    BY DEF DiskTypeOK
  <1>2. \A n \in Names : installed[n] # NoRow => TokenOf[n] # g[1]
    BY DEF Tracked
  <1>3. MissingKegs(installed)' = MissingKegs(installed)
    <2>1. \A n \in Names : installed[n] # NoRow =>
              <<TokenOf[n], installed[n].version>> # g
      BY <1>2
    <2> QED BY <1>1, <2>1 DEF MissingKegs, KegExists
  <1>4. BrokenLinks(installed)' = BrokenLinks(installed)
    <2>1. \A t \in Tokens : t # g[1] => cellar'[<<t, linked[t]>>] = cellar[<<t, linked[t]>>]
      BY <1>1
    <2>2. ~ \E n \in Names : TokenOf[n] = g[1] /\ installed[n] # NoRow
      BY <1>2
    <2>3. \A t \in Tokens : t \in BrokenLinks(installed)' <=> t \in BrokenLinks(installed)
      BY <2>1, <2>2 DEF BrokenLinks
    <2>4. /\ BrokenLinks(installed)' \subseteq Tokens
          /\ BrokenLinks(installed) \subseteq Tokens
      BY DEF BrokenLinks
    <2> QED BY <2>3, <2>4
  <1>5. /\ c = NoContent => OrphanKegs(installed)' = OrphanKegs(installed) \ {g}
        /\ OrphanKegs(installed)' \subseteq OrphanKegs(installed) \cup {g}
    <2>1. Tracked(installed)' = Tracked(installed)
      BY ReportFrame
    <2>2. cellar'[g] = c
      BY DEF DiskTypeOK
    <2> QED BY <1>1, <2>1, <2>2 DEF OrphanKegs, KegExists
  <1> QED BY <1>3, <1>4, <1>5

-----------------------------------------------------------------------------
(* Steps of the commands other than doctor.                                *)

\* Such a step, or a crash, leaves no completed repair.
LEMMA WorkRepaired ==
    ASSUME repaired' = 0, NEW p \in Procs, pc'[p] \notin DoctorSteps,
           TasksStored(p)'
    PROVE  RepairedFit' /\ Repairing(p)'
  BY DEF RepairedFit, Repairing, ReportFits, DoctorSteps, ReadingSteps, OrphanSteps,
         EntrySteps

\* The end of a command.
LEMMA IdleRepairing ==
    ASSUME NEW p \in Procs, pc'[p] = "idle"
    PROVE  Repairing(p)'
  BY DEF Repairing, ReportFits, TasksStored, SecondRepair, InstallSteps,
         ReadingSteps, OrphanSteps, EntrySteps

LEMMA NotRepaired ==
    ASSUME TypeOK, NEW p \in Procs, Repairing(p),
           pc[p] \notin DoctorSteps \cup {"idle"}
    PROVE  repaired = 0
  BY DEF TypeOK, Repairing, SecondRepair

\* Away from install the tasks say nothing.
LEMMA NoTasks ==
    ASSUME NEW p \in Procs, pc'[p] \notin {"prepare"} \cup InstallSteps
    PROVE  TasksStored(p)'
  BY DEF TasksStored

LEMMA UsedKept ==
    ASSUME UsedStored, UNCHANGED installed,
           \A k \in Keys : store[k] # "absent" => store'[k] # "absent"
    PROVE  UsedStored'
  BY UsersFrame DEF UsedStored

\* Deleting a row leaves users that were users before.
LEMMA UsedGone ==
    ASSUME UsedStored, DbTypeOK, NEW n \in Names, UNCHANGED store,
           installed' = [installed EXCEPT ![n] = NoRow]
    PROVE  UsedStored'
  <1>1. NoRow.key \notin Keys
    BY DbAssumption DEF NoRow, DbAssumption
  <1>2. \A k \in Keys : Users(k)' \subseteq Users(k)
    BY <1>1 DEF Users, UsersIn, DbTypeOK
  <1> QED BY <1>2 DEF UsedStored

\* An entry that is removed has no user.
LEMMA UsedRemoved ==
    ASSUME UsedStored, UNCHANGED installed, NEW x \in Keys, Users(x) = {},
           \A k \in Keys \ {x} : store'[k] = store[k]
    PROVE  UsedStored'
  BY UsersFrame DEF UsedStored

LEMMA StartRepairing ==
    ASSUME TypeOK, UsedStored, RepairedFit, NEW p \in Procs, Repairing(p), Start(p)
    PROVE  UsedStored' /\ RepairedFit' /\ Repairing(p)'
  <1> USE DEF TypeOK
  <1>1. pc[p] = "idle" /\ UNCHANGED <<dbVars, diskVars>>
    BY DEF Start, StartInstall, StartLink, StartUnlink, StartUninstall, StartGc,
           StartDoctor, Begin
  <1>2. UsedStored'
    BY <1>1, UsedKept DEF dbVars, diskVars
  <1>3. CASE StartDoctor(p)
    <2>1. pc'[p] = "d_refs" /\ seen'[p] = installed /\ UNCHANGED <<installed, repaired>>
      BY <1>3 DEF StartDoctor, Begin, Goto, dbVars
    <2>2. TasksStored(p)'
      BY <2>1, NoTasks DEF InstallSteps
    <2>3. ReportFits(p)' /\ SecondRepair(p)'
      BY <2>1 DEF ReportFits, SecondRepair, DoctorSteps, ReadingSteps, OrphanSteps,
                  EntrySteps
    <2> QED BY <1>1, <1>2, <2>1, <2>2, <2>3, RepairedFrame DEF Repairing
  <1>4. CASE ~StartDoctor(p)
    <2>1. /\ repaired' = 0
          /\ pc'[p] \in {"wait_install", "wait_link", "wait_unlink", "u_unlink", "gc_next"}
      BY <1>4 DEF Start, StartInstall, StartLink, StartUnlink, StartUninstall,
                  StartGc, Begin, Goto
    <2> QED BY <1>2, <2>1, NoTasks, WorkRepaired
            DEF DoctorSteps, ReadingSteps, OrphanSteps, EntrySteps, InstallSteps
  <1> QED BY <1>3, <1>4

LEMMA AcquireRepairing ==
    ASSUME TypeOK, UsedStored, RepairedFit, NEW p \in Procs, Repairing(p), Acquire(p)
    PROVE  UsedStored' /\ RepairedFit' /\ Repairing(p)'
  <1> USE DEF TypeOK
  <1>1. pc[p] \in WaitingSteps /\ UNCHANGED <<dbVars, diskVars, bookVars>>
    BY DEF Acquire, AcquireForInstall, AcquireForLink, WaitingSteps
  <1>2. UsedStored'
    BY <1>1, UsedKept DEF dbVars, diskVars
  <1>3. repaired' = 0
    BY <1>1, NotRepaired DEF WaitingSteps, DoctorSteps, ReadingSteps, OrphanSteps,
                             EntrySteps, bookVars
  <1>4. CASE AcquireForInstall(p)
    <2>1. /\ pc'[p] = "prepare"
          /\ \A i \in plan'[p] : task'[p][i] = "fetch"
      BY <1>4 DEF AcquireForInstall, Goto
    <2>2. TasksStored(p)'
      BY <2>1 DEF TasksStored, InstallSteps
    <2> QED BY <1>2, <1>3, <2>1, <2>2, WorkRepaired
            DEF DoctorSteps, ReadingSteps, OrphanSteps, EntrySteps
  <1>5. CASE AcquireForLink(p)
    <2>1. pc'[p] \in {"idle", "link_keg", "unlink_keg"}
      BY <1>5 DEF AcquireForLink, Finish, Goto
    <2> QED BY <1>2, <1>3, <2>1, NoTasks, WorkRepaired
            DEF DoctorSteps, ReadingSteps, OrphanSteps, EntrySteps, InstallSteps
  <1> QED BY <1>4, <1>5 DEF Acquire

\* A prepare task goes on from an entry that the store has.
LEMMA PrepareStored ==
    ASSUME TypeOK, NEW p \in Procs, TasksStored(p), Prepare(p)
    PROVE  /\ UNCHANGED installed /\ pc'[p] = "prepare"
           /\ \A k \in Keys : store[k] # "absent" => store'[k] # "absent"
           /\ TasksStored(p)'
  <1> USE DEF TypeOK
  <1>1. PICK i \in Items :
            \/ EnsureEntry(p, i) \/ MaterializeFromRelocated(p, i)
            \/ CopyRelocated(p, i) \/ Materialize(p, i) \/ CopyStoreEntry(p, i)
    BY DEF Prepare
  <1>2. PICK s \in TaskStates : SetTask(p, i, s) /\ i \in plan[p] /\ pc[p] = "prepare"
    BY <1>1 DEF EnsureEntry, MaterializeFromRelocated, CopyRelocated, Materialize,
                CopyStoreEntry, Preparing, TaskStates
  <1>3. i.key \in Keys
    BY ItemTypes
  <1>4. \A k \in Keys : store[k] # "absent" => store'[k] # "absent"
    BY <1>1 DEF EnsureEntry, MaterializeFromRelocated, CopyRelocated, Materialize,
                CopyStoreEntry
  <1>5. s # "failed" => store'[i.key] # "absent"
    <2>1. CASE EnsureEntry(p, i)
      BY <1>3, <2>1, <1>2 DEF EnsureEntry, SetTask
    <2>2. CASE ~EnsureEntry(p, i)
      <3>1. task[p][i] \notin {"none", "fetch", "failed"}
        BY <1>1, <2>2 DEF MaterializeFromRelocated, CopyRelocated, Materialize,
                          CopyStoreEntry, Preparing
      <3> QED BY <1>2, <1>3, <1>4, <3>1 DEF TasksStored
    <2> QED BY <2>1, <2>2
  <1>6. /\ UNCHANGED <<installed, pc, plan>>
        /\ task'[p][i] = s
        /\ \A j \in Items \ {i} : task'[p][j] = task[p][j]
    BY <1>2 DEF SetTask, dbVars
  <1>7. \A j \in plan[p] : j \in Items /\ j.key \in Keys
    BY ItemTypes
  <1>8. ASSUME NEW j \in plan[p], task'[p][j] \notin {"none", "fetch", "failed"}
        PROVE  store'[j.key] # "absent"
    <2>1. CASE j = i
      BY <1>5, <1>6, <1>8, <2>1
    <2>2. CASE j # i
      BY <1>2, <1>4, <1>6, <1>7, <1>8, <2>2 DEF TasksStored
    <2> QED BY <2>1, <2>2
  <1>9. TasksStored(p)'
    BY <1>2, <1>6, <1>8 DEF TasksStored, InstallSteps
  <1> QED BY <1>2, <1>4, <1>6, <1>9

\* The row recorded uses the entry of the item at hand.
LEMMA RecordStored ==
    ASSUME TypeOK, TargetOK, UsedStored, NEW p \in Procs, TasksStored(p), RecordItem(p)
    PROVE  UsedStored'
  <1>1. /\ target[p].name \in Names /\ target[p].key \in Keys
        /\ store[target[p].key] # "absent" /\ UNCHANGED store
    BY TargetAt DEF RecordItem, At, ItemSteps, LockedSteps, TasksStored, InstallSteps,
                    diskVars
  <1>2. CASE UNCHANGED dbVars
    BY <1>1, <1>2, UsedKept DEF dbVars
  <1>3. CASE ~UNCHANGED dbVars
    <2>1. installed' = [installed EXCEPT ![target[p].name] =
               [version |-> target[p].keg[2], key |-> target[p].key]]
      BY <1>3 DEF RecordItem, RecordInstall
    <2>2. /\ installed'[target[p].name].key = target[p].key
          /\ \A m \in Names \ {target[p].name} : installed'[m] = installed[m]
      BY <1>1, <2>1 DEF TypeOK, DbTypeOK
    <2>3. \A k \in Keys \ {target[p].key} : Users(k)' \subseteq Users(k)
      BY <2>2 DEF Users, UsersIn
    <2> QED BY <1>1, <2>3 DEF UsedStored
  <1> QED BY <1>2, <1>3

LEMMA LockedRepairing ==
    ASSUME TypeOK, TargetOK, UsedStored, RepairedFit, NEW p \in Procs,
           Repairing(p), Locked(p)
    PROVE  UsedStored' /\ RepairedFit' /\ Repairing(p)'
  <1> USE DEF TypeOK
  <1>0. TasksStored(p) /\ pc[p] \in LockedSteps
    BY LockedStays DEF Repairing
  <1>1. repaired' = 0
    <2>1. repaired = 0
      BY <1>0, NotRepaired DEF LockedSteps, DoctorSteps, ReadingSteps, OrphanSteps,
                               EntrySteps
    <2>2. UNCHANGED repaired
      BY DEF Locked, Prepare, SetTask, EnsureEntry, MaterializeFromRelocated,
             CopyRelocated, Materialize, CopyStoreEntry, NextItem, FinishInstall,
             PostInstall, SaveRelocated, RecordItem, CleanupKeg, EndCleanup,
             LinkItem, RecordLinks, LinkInstalled, PersistLinks, UnlinkInstalled,
             ClearRows, bookVars
    <2> QED BY <2>1, <2>2
  <1>2. pc'[p] \notin DoctorSteps
    <2>1. pc'[p] \in LockedSteps \cup {"idle"}
      <3>1. CASE Prepare(p)
        BY <3>1, PrepareStored, <1>0 DEF LockedSteps
      <3>2. CASE NextItem(p)
        BY <3>2 DEF NextItem, Goto, LockedSteps
      <3>3. CASE Moves(p)
        BY <3>3 DEF Moves, Finish, ItemDone, ItemStep, Goto, ItemSteps, LockedSteps
      <3> QED BY <3>1, <3>2, <3>3, LockedMoves
    <2> QED BY <2>1 DEF LockedSteps, DoctorSteps, ReadingSteps, OrphanSteps, EntrySteps
  <1>3. CASE Prepare(p)
    <2>1. UsedStored' /\ TasksStored(p)'
      BY <1>0, <1>3, PrepareStored, UsedKept
    <2> QED BY <1>1, <1>2, <2>1, WorkRepaired
  <1>4. CASE NextItem(p)
    <2>1. /\ UNCHANGED <<installed, store, plan, task>> /\ pc[p] = "prepare"
      BY <1>4 DEF NextItem, Prepared, dbVars, diskVars
    <2>2. PICK i \in plan[p] : task[p][i] = "ready" /\ target'[p].key = i.key
      BY <1>4 DEF NextItem
    <2>3. TasksStored(p)'
      BY <1>0, <2>1, <2>2 DEF TasksStored
    <2>4. UsedStored'
      BY <2>1, UsedKept
    <2> QED BY <1>1, <1>2, <2>3, <2>4, WorkRepaired
  <1>5. CASE ~Prepare(p) /\ ~NextItem(p)
    <2>1. UNCHANGED store
      BY <1>5 DEF Locked, FinishInstall, PostInstall, SaveRelocated, RecordItem,
                  CleanupKeg, EndCleanup, LinkItem, RecordLinks, LinkInstalled,
                  PersistLinks, UnlinkInstalled, ClearRows, diskVars
    <2>2. UsedStored'
      <3>1. CASE RecordItem(p)
        BY <1>0, <3>1, RecordStored
      <3>2. CASE ~RecordItem(p)
        <4>1. UNCHANGED installed
          BY <1>5, <3>2 DEF Locked, FinishInstall, PostInstall, SaveRelocated,
                  CleanupKeg, EndCleanup, LinkItem, RecordLinks, LinkInstalled,
                  PersistLinks, UnlinkInstalled, ClearRows, dbVars,
                  RecordLinkedFile, ClearKegFileRecords
        <4> QED BY <2>1, <4>1, UsedKept
      <3> QED BY <3>1, <3>2
    <2>3. TasksStored(p)'
      <3>1. CASE Finish(p)
        BY <3>1, NoTasks DEF Finish, Goto, InstallSteps
      <3>2. CASE ItemDone(p)
        <4>1. pc[p] \in InstallSteps
          BY <1>5, <3>2 DEF Locked, FinishInstall, PostInstall, SaveRelocated,
                  RecordItem, CleanupKeg, EndCleanup, LinkItem, RecordLinks,
                  LinkInstalled, PersistLinks, UnlinkInstalled, ClearRows, At,
                  InstallSteps, Finish, ItemDone, ItemStep, Goto
        <4>2. /\ pc'[p] = "prepare" /\ plan'[p] \subseteq plan[p]
              /\ \A i \in plan'[p] : task'[p][i] = task[p][i]
          BY <3>2 DEF ItemDone, Goto
        <4> QED BY <1>0, <2>1, <4>1, <4>2 DEF TasksStored, InstallSteps
      <3>3. CASE \E s \in ItemSteps : ItemStep(p, s)
        <4>1. PICK s \in ItemSteps : ItemStep(p, s)
          BY <3>3
        <4>2. pc'[p] = s /\ UNCHANGED <<plan, task, target>>
          BY <4>1 DEF ItemStep, Goto
        <4>3. s \in InstallSteps => pc[p] \in InstallSteps
          BY <1>5, <4>1, <4>2 DEF Locked, FinishInstall, PostInstall, SaveRelocated,
                  RecordItem, CleanupKeg, EndCleanup, LinkItem, RecordLinks,
                  LinkInstalled, PersistLinks, UnlinkInstalled, ClearRows, At,
                  InstallSteps, Finish, ItemDone, ItemStep, Goto
        <4>4. s # "prepare"
          BY DEF ItemSteps
        <4> QED BY <1>0, <2>1, <4>2, <4>3, <4>4 DEF TasksStored
      <3> QED BY <1>5, <3>1, <3>2, <3>3, LockedMoves DEF Moves
    <2> QED BY <1>1, <1>2, <2>2, <2>3, WorkRepaired
  <1> QED BY <1>3, <1>4, <1>5

\* uninstall and gc: a row goes, or an entry that no row uses.
LEMMA UnlockedWork ==
    ASSUME Inv, Covered, UsedStored, RepairedFit, NEW p \in Procs, Repairing(p),
           ReadsFit(p),
           \/ UninstallUnlink(p) \/ UninstallRecord(p)
           \/ UninstallRemoveKeg(p) \/ UninstallKegRemoved(p)
           \/ GcRemoveEntry(p) \/ GcEntryRemoved(p) \/ GcDeleteRef(p) \/ FinishGc(p)
    PROVE  UsedStored' /\ RepairedFit' /\ Repairing(p)'
  <1> USE DEF Inv, TypeOK
  <1>0. pc[p] \in UninstallSteps \cup GcSteps /\ UNCHANGED repaired
    BY DEF UninstallUnlink, UninstallRecord, UninstallRemoveKeg, UninstallKegRemoved,
           GcRemoveEntry, GcEntryRemoved, GcDeleteRef, FinishGc, At, UninstallSteps,
           GcSteps, bookVars
  <1>1. repaired' = 0
    BY <1>0, NotRepaired DEF UninstallSteps, GcSteps, DoctorSteps, ReadingSteps,
                             OrphanSteps, EntrySteps
  <1>2. pc'[p] \in UninstallSteps \cup GcSteps \cup {"idle"}
    BY DEF UninstallUnlink, UninstallRecord, UninstallRemoveKeg, UninstallKegRemoved,
           GcRemoveEntry, GcEntryRemoved, GcDeleteRef, FinishGc, Finish, ItemStep,
           Goto, UninstallSteps, GcSteps
  <1>3. RepairedFit' /\ Repairing(p)'
    BY <1>1, <1>2, NoTasks, WorkRepaired
       DEF UninstallSteps, GcSteps, DoctorSteps, ReadingSteps, OrphanSteps,
           EntrySteps, InstallSteps
  <1>4. UsedStored'
    <2>1. CASE \/ UninstallUnlink(p) \/ UninstallRecord(p)
               \/ UninstallRemoveKeg(p) \/ UninstallKegRemoved(p)
      <3>1. target[p].name \in Names /\ UNCHANGED store
        BY <2>1, TypeParts DEF UninstallUnlink, UninstallRecord, UninstallRemoveKeg,
                    UninstallKegRemoved, At, TargetOK, TargetFits, UninstallSteps,
                    diskVars
      <3>2. RecordUninstall(target[p].name) \/ UNCHANGED installed
        BY <2>1 DEF UninstallUnlink, UninstallRecord, UninstallRemoveKeg,
                    UninstallKegRemoved, dbVars
      <3> QED BY <3>1, <3>2, UsedGone, UsedKept DEF RecordUninstall
    <2>2. CASE GcRemoveEntry(p)
      BY <2>2, UsedKept DEF GcRemoveEntry, dbVars
    <2>3. CASE GcEntryRemoved(p)
      <3>1. target[p].key \in Keys /\ refcount[target[p].key] <= 0
        BY <2>3 DEF GcEntryRemoved, At, ReadsFit, GcSteps
      <3>2. Users(target[p].key) = {}
        BY <3>1, UnreferencedUnused DEF Covered
      <3>3. /\ UNCHANGED installed
            /\ \A k \in Keys \ {target[p].key} : store'[k] = store[k]
        BY <2>3, <3>1 DEF GcEntryRemoved, dbVars
      <3> QED BY <3>1, <3>2, <3>3, UsedRemoved
    <2>4. CASE GcDeleteRef(p) \/ FinishGc(p)
      BY <2>4, UsedKept DEF GcDeleteRef, FinishGc, DeleteStoreRef, dbVars, diskVars
    <2> QED BY <2>1, <2>2, <2>3, <2>4
  <1> QED BY <1>3, <1>4

LEMMA CrashRepairing ==
    ASSUME TypeOK, UsedStored, NEW p \in Procs, Crash(p)
    PROVE  UsedStored' /\ RepairedFit' /\ Repairing(p)'
  <1>1. pc'[p] = "idle" /\ repaired' = 0 /\ UNCHANGED <<installed, store>>
    BY DEF Crash, Finish, Goto, TypeOK, dbVars, diskVars
  <1> QED BY <1>1, UsedKept, IdleRepairing DEF RepairedFit

-----------------------------------------------------------------------------
(* doctor.                                                                 *)

\* Only doctor's own steps do not begin by setting `repaired` back.
LEMMA DoctorEnds ==
    ASSUME NEW p \in Procs, pc'[p] = "idle", UNCHANGED repaired,
           RepairedFit, repaired = 2 => UNCHANGED <<dbVars, diskVars>>,
           HalfHealthy => HalfHealthy'
    PROVE  RepairedFit' /\ Repairing(p)'
  BY IdleRepairing, HealthyFrame DEF RepairedFit

LEMMA ReadRefsRepairing ==
    ASSUME Inv, UsedStored, RepairedFit, NEW p \in Procs, Repairing(p),
           ReadsFit(p), DoctorReadRefs(p)
    PROVE  UsedStored' /\ RepairedFit' /\ Repairing(p)'
  <1> USE DEF Inv, TypeOK
  <1>1. /\ pc[p] = "d_refs" /\ pc'[p] = "d_disk"
        /\ UNCHANGED <<dbVars, diskVars, seen, repaired>>
    BY DEF DoctorReadRefs, At, Goto, bookVars
  <1>2. seen[p] = installed
    BY <1>1 DEF Repairing, ReportFits, ReadingSteps
  <1>3. report'[p].recount <=> \E k \in refKeys : refcount[k] # Cardinality(Users(k))
    BY <1>2 DEF DoctorReadRefs, Reports, Users
  <1>4. UsedStored' /\ RepairedFit'
    BY <1>1, UsedKept, RepairedFrame DEF dbVars, diskVars
  <1>5. TasksStored(p)'
    BY <1>1, NoTasks DEF InstallSteps
  <1>6. ReportFits(p)'
    BY <1>1, <1>2, <1>3, UsersFrame DEF ReportFits, ReadingSteps, OrphanSteps,
                                        EntrySteps, dbVars
  <1>7. SecondRepair(p)'
    BY <1>1 DEF SecondRepair, DoctorSteps, ReadingSteps, OrphanSteps, EntrySteps
  <1> QED BY <1>4, <1>5, <1>6, <1>7 DEF Repairing

\* With nothing wrong doctor ends a repair; else repair begins with a report
\* that covers what is wrong.
LEMMA ReadDiskRepairing ==
    ASSUME Inv, UsedStored, RepairedFit, NEW p \in Procs, Repairing(p),
           ReadsFit(p), DoctorReadDisk(p)
    PROVE  UsedStored' /\ RepairedFit' /\ Repairing(p)'
  <1> USE DEF Inv, TypeOK
  <1> DEFINE wrong == [kegs    |-> OrphanKegs(installed),
                       missing |-> MissingKegs(installed),
                       links   |-> BrokenLinks(installed),
                       recount |-> \/ report[p].recount
                                   \/ \E k \in refKeys : store[k] = "absent"
                                   \/ MissingKegs(installed) # {},
                       prune   |-> StaleKegFiles # {}]
             entries == OrphanEntries(installed, refKeys)
  <1>1. pc[p] = "d_disk" /\ UNCHANGED <<dbVars, diskVars>>
    BY DEF DoctorReadDisk, At
  <1>2. seen[p] = installed /\ todo[p] = refKeys
    BY <1>1 DEF Repairing, ReportFits, ReadingSteps, ReadsFit
  <1>3. IF wrong = NoReport /\ entries = {}
        THEN Finish(p) /\ repaired' = IF repaired = 2 THEN 2 ELSE repaired + 1
        ELSE /\ report' = [report EXCEPT ![p] = wrong]
             /\ todo' = [todo EXCEPT ![p] = entries]
             /\ Goto(p, "repair")
             /\ UNCHANGED <<plan, task, doLink, target, seen, repaired>>
    BY <1>2 DEF DoctorReadDisk
  <1>4. report[p].recount <=> \E k \in refKeys : refcount[k] # Cardinality(Users(k))
    BY <1>1 DEF Repairing, ReportFits
  <1>5. ~wrong.recount <=> RefsRight /\ MissingKegs(installed) = {}
    BY <1>4 DEF RefsRight
  <1>6. UsedStored'
    BY <1>1, UsedKept DEF dbVars, diskVars
  <1>7. CASE wrong = NoReport /\ entries = {}
    <2>1. /\ OrphanKegs(installed) = {} /\ MissingKegs(installed) = {}
          /\ BrokenLinks(installed) = {} /\ StaleKegFiles = {} /\ ~wrong.recount
      BY <1>7 DEF NoReport
    <2>2. HalfHealthy /\ Healthy
      BY <1>5, <1>7, <2>1 DEF HalfHealthy, Healthy, RefsRight
    <2>3. HalfHealthy' /\ Healthy'
      BY <1>1, <2>2, HalfFrame, HealthyFrame DEF diskVars
    <2>4. pc'[p] = "idle"
      BY <1>3, <1>7 DEF Finish, Goto
    <2> QED BY <1>6, <2>3, <2>4, IdleRepairing DEF RepairedFit
  <1>8. CASE ~(wrong = NoReport /\ entries = {})
    <2>1. /\ pc'[p] = "repair" /\ report'[p] = wrong /\ todo'[p] = entries
          /\ UNCHANGED repaired
      BY <1>3, <1>8 DEF Goto
    <2>2. /\ report'[p].kegs = OrphanKegs(installed)
          /\ report'[p].missing = MissingKegs(installed)
          /\ report'[p].links = BrokenLinks(installed)
          /\ report'[p].recount = wrong.recount
          /\ report'[p].prune = (StaleKegFiles # {})
      BY <2>1
    <2> HIDE DEF wrong
    <2>3. RepairedFit'
      BY <1>1, <2>1, RepairedFrame
    <2>4. TasksStored(p)'
      BY <2>1, NoTasks DEF InstallSteps
    <2>5. /\ MissingKegs(installed)' = MissingKegs(installed)
          /\ BrokenLinks(installed)' = BrokenLinks(installed)
          /\ OrphanKegs(installed)' = OrphanKegs(installed)
          /\ OrphanEntries(installed, refKeys)' = entries
          /\ Tracked(installed)' = Tracked(installed)
          /\ StaleKegFiles' = StaleKegFiles
      BY <1>1, ReportFrame DEF dbVars, diskVars
    <2>6. RefsRight => RefsRight'
      BY <1>1, RefsFrame DEF dbVars, diskVars
    <2>7. \A g \in OrphanKegs(installed) : g[1] \notin Tracked(installed)
      BY DEF OrphanKegs
    <2>8. ReportFits(p)'
      BY <1>5, <2>1, <2>2, <2>5, <2>6, <2>7
      DEF ReportFits, ReadingSteps, OrphanSteps, EntrySteps
    <2>9. repaired' >= 1 => SecondRepair(p)'
      <3> SUFFICES ASSUME repaired >= 1
                   PROVE  SecondRepair(p)'
        BY <2>1
      <3>1. ~report'[p].recount
        BY <1>5, <2>2 DEF RepairedFit, HalfHealthy
      <3>2. repaired # 2
        <4> SUFFICES ASSUME repaired = 2
                     PROVE  FALSE
          OBVIOUS
        <4>1. /\ OrphanKegs(installed) = {} /\ MissingKegs(installed) = {}
              /\ BrokenLinks(installed) = {} /\ StaleKegFiles = {}
              /\ entries = {} /\ ~wrong.recount
          BY <2>2, <3>1 DEF RepairedFit, Healthy
        <4> QED BY <1>8, <4>1 DEF NoReport, wrong
      <3> QED BY <2>1, <2>2, <2>5, <3>1, <3>2
              DEF SecondRepair, DoctorSteps, ReadingSteps, OrphanSteps, EntrySteps
    <2> QED BY <1>6, <2>3, <2>4, <2>8, <2>9 DEF Repairing
  <1> QED BY <1>7, <1>8

-----------------------------------------------------------------------------
(* repair.                                                                 *)

\* At a step of repair fewer than two repairs are completed.
LEMMA RepairingOnce ==
    ASSUME NEW p \in Procs, Repairing(p),
           pc[p] \in OrphanSteps \cup EntrySteps \cup {"r_refs", "r_prune"}
    PROVE  /\ ReportFits(p)
           /\ repaired >= 1 => SecondRepair(p)
           /\ repaired >= 1 => repaired # 2
  BY DEF Repairing, SecondRepair, OrphanSteps, EntrySteps, ReadingSteps

\* Such a step keeps what the first repair has reached, and goes on or ends.
LEMMA RepairGoes ==
    ASSUME TypeOK, UsedStored, RepairedFit, NEW p \in Procs, Repairing(p),
           pc[p] \in OrphanSteps \cup EntrySteps \cup {"r_refs", "r_prune"},
           UNCHANGED repaired, UsedStored', repaired >= 1 => HalfHealthy',
           \/ pc'[p] = "idle"
           \/ /\ pc'[p] \in OrphanSteps \cup EntrySteps \cup {"r_refs", "r_prune"}
              /\ ReportFits(p)'
              /\ repaired >= 1 => SecondRepair(p)'
    PROVE  UsedStored' /\ RepairedFit' /\ Repairing(p)'
  <1>1. RepairedFit'
    BY RepairingOnce DEF TypeOK, RepairedFit
  <1>2. CASE pc'[p] = "idle"
    BY <1>1, <1>2, IdleRepairing
  <1>3. CASE /\ pc'[p] \in OrphanSteps \cup EntrySteps \cup {"r_refs", "r_prune"}
             /\ ReportFits(p)'
             /\ repaired >= 1 => SecondRepair(p)'
    <2>1. TasksStored(p)'
      BY <1>3, NoTasks DEF OrphanSteps, EntrySteps, InstallSteps
    <2> QED BY <1>1, <1>3, <2>1 DEF Repairing
  <1> QED BY <1>2, <1>3

\* What the report says in a step about orphaned kegs, and about entries.
OrphanReport(p) ==
    /\ MissingKegs(installed) \subseteq report[p].missing
    /\ \A g \in report[p].kegs : g[1] \notin Tracked(installed)
    /\ ~report[p].recount => RefsRight /\ report[p].missing = {}
    /\ pc[p] # "repair" =>
           target[p].keg \in Kegs /\ target[p].keg[1] \notin Tracked(installed)
    /\ BrokenLinks(installed) \subseteq report[p].links
    /\ report[p].prune \/ StaleKegFiles = {}

OrphanSecond(p) ==
    /\ ~report[p].recount
    /\ \A g \in OrphanKegs(installed) :
           g \in report[p].kegs \/ (pc[p] # "repair" /\ g = target[p].keg)
    /\ \A k \in OrphanEntries(installed, refKeys) : k \in todo[p]
    /\ repaired # 2

EntryReport(p) ==
    /\ MissingKegs(installed) = {} /\ RefsRight
    /\ BrokenLinks(installed) \subseteq report[p].links
    /\ report[p].prune \/ StaleKegFiles = {}

EntrySecond(p) ==
    /\ OrphanKegs(installed) = {}
    /\ \A k \in OrphanEntries(installed, refKeys) :
           k \in todo[p] \/ (pc[p] = "r_store_removed" /\ k = target[p].key)
    /\ repaired # 2

LEMMA OrphanFits ==
    ASSUME NEW p \in Procs
    PROVE  /\ pc[p] \in OrphanSteps =>
                  /\ ReportFits(p) <=> OrphanReport(p)
                  /\ SecondRepair(p) <=> OrphanSecond(p)
           /\ pc'[p] \in OrphanSteps =>
                  /\ ReportFits(p)' <=> OrphanReport(p)'
                  /\ SecondRepair(p)' <=> OrphanSecond(p)'
  BY DEF ReportFits, SecondRepair, OrphanReport, OrphanSecond, OrphanSteps,
         EntrySteps, ReadingSteps, DoctorSteps

LEMMA EntryFits ==
    ASSUME NEW p \in Procs
    PROVE  /\ pc[p] \in EntrySteps =>
                  /\ ReportFits(p) <=> EntryReport(p)
                  /\ SecondRepair(p) <=> EntrySecond(p)
           /\ pc'[p] \in EntrySteps =>
                  /\ ReportFits(p)' <=> EntryReport(p)'
                  /\ SecondRepair(p)' <=> EntrySecond(p)'
  BY DEF ReportFits, SecondRepair, EntryReport, EntrySecond, OrphanSteps,
         EntrySteps, ReadingSteps, DoctorSteps

LEMMA UnlinkKegRepairing ==
    ASSUME Inv, UsedStored, RepairedFit, NEW p \in Procs, Repairing(p),
           RepairUnlinkKeg(p)
    PROVE  UsedStored' /\ RepairedFit' /\ Repairing(p)'
  <1> USE DEF Inv, TypeOK
  <1>1. /\ pc[p] = "repair" /\ pc'[p] = "r_keg"
        /\ UNCHANGED <<dbVars, store, cellar, todo, repaired>>
    BY DEF RepairUnlinkKeg, At, Goto, bookVars
  <1>2. PICK g \in report[p].kegs :
            /\ UnlinkKeg(g) \/ UNCHANGED linked
            /\ target'[p] = [NoTarget EXCEPT !.keg = g]
            /\ report' = [report EXCEPT ![p].kegs = @ \ {g}]
    BY DEF RepairUnlinkKeg
  <1>3. /\ report'[p].kegs = report[p].kegs \ {g}
        /\ report'[p].missing = report[p].missing /\ report'[p].links = report[p].links
        /\ report'[p].recount = report[p].recount /\ report'[p].prune = report[p].prune
        /\ target'[p].keg = g /\ g \in Kegs
    BY <1>2 DEF Reports, NoTarget
  <1>4. /\ ReportFits(p) /\ (repaired >= 1 => SecondRepair(p))
        /\ pc[p] \in OrphanSteps
    BY <1>1, RepairingOnce DEF OrphanSteps
  <1>5. \A t \in Tokens : linked'[t] \in {linked[t], NoVersion}
    BY <1>2 DEF UnlinkKeg
  <1>6. BrokenLinks(installed)' \subseteq BrokenLinks(installed)
    BY <1>1, <1>5, BrokenShrinks DEF dbVars
  <1>7. /\ MissingKegs(installed)' = MissingKegs(installed)
        /\ OrphanKegs(installed)' = OrphanKegs(installed)
        /\ OrphanEntries(installed, refKeys)' = OrphanEntries(installed, refKeys)
        /\ Tracked(installed)' = Tracked(installed)
        /\ StaleKegFiles' = StaleKegFiles
        /\ RefsRight => RefsRight'
    BY <1>1, ReportFrame, RefsFrame DEF dbVars
  <1>8. UsedStored'
    BY <1>1, UsedKept DEF dbVars
  <1>9. repaired >= 1 => HalfHealthy'
    BY <1>6, <1>7 DEF RepairedFit, HalfHealthy
  <1>10. ReportFits(p)'
    BY <1>1, <1>3, <1>4, <1>6, <1>7
    DEF ReportFits, ReadingSteps, OrphanSteps, EntrySteps
  <1>11. repaired >= 1 => SecondRepair(p)'
    BY <1>1, <1>3, <1>4, <1>7
    DEF SecondRepair, DoctorSteps, ReadingSteps, OrphanSteps, EntrySteps
  <1> QED BY <1>1, <1>4, <1>8, <1>9, <1>10, <1>11, RepairGoes DEF OrphanSteps

LEMMA RemoveKegRepairing ==
    ASSUME Inv, UsedStored, RepairedFit, NEW p \in Procs, Repairing(p),
           RepairRemoveKeg(p) \/ RepairKegRemoved(p)
    PROVE  UsedStored' /\ RepairedFit' /\ Repairing(p)'
  <1> USE DEF Inv, TypeOK
  <1>1. /\ pc[p] \in {"r_keg", "r_keg_removed"}
        /\ UNCHANGED <<dbVars, store, linked, repaired>>
    BY DEF RepairRemoveKeg, RepairKegRemoved, At, bookVars
  <1>2. PICK g \in Kegs : target[p].keg = g /\ g[1] \notin Tracked(installed)
    BY <1>1, RepairingOnce DEF ReportFits, OrphanSteps
  <1>3. \/ /\ pc'[p] = "r_keg_removed" /\ UNCHANGED <<target, report, todo>>
           /\ \E c : cellar' = [cellar EXCEPT ![g] = c]
        \/ /\ pc'[p] = "repair" /\ UNCHANGED <<target, report, todo>>
           /\ \/ UNCHANGED cellar /\ ~KegExists(g)
              \/ cellar' = [cellar EXCEPT ![g] = NoContent]
        \/ pc'[p] = "idle" /\ UNCHANGED cellar
    BY <1>2 DEF RepairRemoveKeg, RepairKegRemoved, StartRemoveKeg, EndRemoveKeg,
                ItemStep, Finish, Goto
  <1>4. /\ ReportFits(p) /\ (repaired >= 1 => SecondRepair(p))
        /\ pc[p] \in OrphanSteps
    BY <1>1, RepairingOnce DEF OrphanSteps
  <1>5. /\ MissingKegs(installed)' = MissingKegs(installed)
        /\ BrokenLinks(installed)' = BrokenLinks(installed)
        /\ OrphanKegs(installed)' \subseteq OrphanKegs(installed) \cup {g}
        /\ pc'[p] = "repair" => OrphanKegs(installed)' = OrphanKegs(installed) \ {g}
    <2>1. CASE UNCHANGED cellar /\ pc'[p] # "repair"
      BY <1>1, <2>1, ReportFrame DEF dbVars
    <2>2. CASE UNCHANGED cellar /\ ~KegExists(g)
      <3>1. g \notin OrphanKegs(installed)
        BY <2>2 DEF OrphanKegs
      <3> QED BY <1>1, <2>2, <3>1, ReportFrame DEF dbVars
    <2>3. ASSUME NEW c, cellar' = [cellar EXCEPT ![g] = c],
                 pc'[p] = "repair" => c = NoContent
          PROVE  /\ MissingKegs(installed)' = MissingKegs(installed)
                 /\ BrokenLinks(installed)' = BrokenLinks(installed)
                 /\ OrphanKegs(installed)' \subseteq OrphanKegs(installed) \cup {g}
                 /\ pc'[p] = "repair" =>
                        OrphanKegs(installed)' = OrphanKegs(installed) \ {g}
      BY <1>1, <1>2, <2>3, UntrackedKeg, TypeParts DEF dbVars
    <2> QED BY <1>3, <2>1, <2>2, <2>3
  <1>6. /\ OrphanEntries(installed, refKeys)' = OrphanEntries(installed, refKeys)
        /\ Tracked(installed)' = Tracked(installed)
        /\ StaleKegFiles' = StaleKegFiles
        /\ RefsRight => RefsRight'
    BY <1>1, ReportFrame, RefsFrame DEF dbVars
  <1>7. UsedStored'
    BY <1>1, UsedKept DEF dbVars
  <1>8. repaired >= 1 => HalfHealthy'
    BY <1>5, <1>6 DEF RepairedFit, HalfHealthy
  <1>9. CASE pc'[p] = "idle"
    BY <1>1, <1>4, <1>7, <1>8, <1>9, RepairGoes
  <1>10. CASE pc'[p] \in {"repair", "r_keg_removed"}
    <2>1. UNCHANGED <<target, report, todo>>
      BY <1>3, <1>10
    <2>2. ReportFits(p)'
      <3>1. OrphanReport(p) /\ pc'[p] \in OrphanSteps
        BY <1>4, <1>10, OrphanFits DEF OrphanSteps
      <3>2. OrphanReport(p)'
        BY <1>2, <1>5, <1>6, <2>1, <3>1 DEF OrphanReport
      <3> QED BY <3>1, <3>2, OrphanFits
    <2>3. repaired >= 1 => SecondRepair(p)'
      <3> SUFFICES ASSUME repaired >= 1
                   PROVE  SecondRepair(p)'
        OBVIOUS
      <3>1. OrphanSecond(p) /\ pc'[p] \in OrphanSteps
        BY <1>4, <1>10, OrphanFits DEF OrphanSteps
      <3>2. pc[p] # "repair"
        BY <1>1
      <3>3. OrphanSecond(p)'
        BY <1>1, <1>2, <1>5, <1>6, <1>10, <2>1, <3>1, <3>2 DEF OrphanSecond
      <3> QED BY <3>1, <3>3, OrphanFits
    <2> QED BY <1>1, <1>4, <1>7, <1>8, <1>10, <2>2, <2>3, RepairGoes DEF OrphanSteps
  <1> QED BY <1>3, <1>9, <1>10

\* A row is deleted only by a first repair, which recounts afterwards.
LEMMA MissingRepairing ==
    ASSUME Inv, UsedStored, RepairedFit, NEW p \in Procs, Repairing(p),
           RepairMissing(p)
    PROVE  UsedStored' /\ RepairedFit' /\ Repairing(p)'
  <1> USE DEF Inv, TypeOK
  <1>1. /\ pc[p] = "repair" /\ UNCHANGED <<diskVars, repaired>>
        /\ report[p].kegs = {} /\ report[p].missing # {}
    BY DEF RepairMissing, At, bookVars
  <1>2. /\ ReportFits(p) /\ (repaired >= 1 => SecondRepair(p))
        /\ pc[p] \in OrphanSteps
    BY <1>1, RepairingOnce DEF OrphanSteps
  <1>3. report[p].recount /\ repaired = 0
    <2>1. OrphanReport(p) /\ (repaired >= 1 => OrphanSecond(p))
      BY <1>2, OrphanFits
    <2>2. report[p].recount
      BY <1>1, <2>1 DEF OrphanReport
    <2> QED BY <2>1, <2>2 DEF OrphanSecond
  <1>4. CASE Finish(p) /\ UNCHANGED dbVars
    <2>1. pc'[p] = "idle" /\ UsedStored'
      BY <1>1, <1>4, UsedKept DEF Finish, Goto, dbVars, diskVars
    <2> QED BY <1>1, <1>2, <1>3, <2>1, RepairGoes
  <1>5. CASE ~(Finish(p) /\ UNCHANGED dbVars)
    <2>1. PICK n \in report[p].missing :
              /\ DeleteInstalledRecord(n)
              /\ report' = [report EXCEPT ![p].missing = @ \ {n}]
              /\ UNCHANGED pc
      BY <1>5 DEF RepairMissing
    <2>2. /\ n \in Names
          /\ report'[p].missing = report[p].missing \ {n}
          /\ report'[p].kegs = {} /\ report'[p].links = report[p].links
          /\ report'[p].recount = report[p].recount
          /\ report'[p].prune = report[p].prune
      BY <1>1, <2>1 DEF Reports
    <2>3. /\ installed'[n] = NoRow /\ kegFiles'[n] = NoVersion
          /\ \A m \in Names \ {n} : /\ installed'[m] = installed[m]
                                    /\ kegFiles'[m] = kegFiles[m]
      BY <2>1, <2>2 DEF DeleteInstalledRecord, DbTypeOK
    <2>4. MissingKegs(installed)' \subseteq MissingKegs(installed) \ {n}
      BY <1>1, <2>3 DEF MissingKegs, KegExists, diskVars
    <2>5. BrokenLinks(installed)' \subseteq BrokenLinks(installed)
      BY <1>1, <2>3, BrokenShrinks DEF diskVars
    <2>6. StaleKegFiles' \subseteq StaleKegFiles
      BY <2>3 DEF StaleKegFiles
    <2>7. UsedStored'
      BY <1>1, <2>1, <2>2, UsedGone, TypeParts DEF DeleteInstalledRecord, diskVars
    <2>8. ReportFits(p)'
      BY <1>1, <1>2, <1>3, <2>1, <2>2, <2>4, <2>5, <2>6
      DEF ReportFits, ReadingSteps, OrphanSteps, EntrySteps
    <2> QED BY <1>1, <1>2, <1>3, <2>1, <2>7, <2>8, RepairGoes
  <1> QED BY <1>4, <1>5

LEMMA ListRepairing ==
    ASSUME Inv, UsedStored, RepairedFit, NEW p \in Procs, Repairing(p),
           RepairListInstalled(p)
    PROVE  UsedStored' /\ RepairedFit' /\ Repairing(p)'
  <1> USE DEF Inv, TypeOK
  <1>1. /\ pc[p] = "repair" /\ UNCHANGED <<dbVars, diskVars, repaired>>
        /\ report[p].kegs = {} /\ report[p].missing = {}
        /\ \/ pc'[p] = "idle"
           \/ /\ pc'[p] = IF report[p].recount THEN "r_refs" ELSE "r_store"
              /\ UNCHANGED <<target, report, todo>>
    BY DEF RepairListInstalled, At, Finish, Goto, bookVars
  <1>2. /\ ReportFits(p) /\ (repaired >= 1 => SecondRepair(p))
        /\ pc[p] \in OrphanSteps
    BY <1>1, RepairingOnce DEF OrphanSteps
  <1>3. /\ MissingKegs(installed)' = MissingKegs(installed)
        /\ BrokenLinks(installed)' = BrokenLinks(installed)
        /\ OrphanKegs(installed)' = OrphanKegs(installed)
        /\ OrphanEntries(installed, refKeys)' = OrphanEntries(installed, refKeys)
        /\ StaleKegFiles' = StaleKegFiles
        /\ RefsRight => RefsRight'
    BY <1>1, ReportFrame, RefsFrame DEF dbVars, diskVars
  <1>4. UsedStored' /\ (repaired >= 1 => HalfHealthy')
    BY <1>1, <1>3, UsedKept DEF RepairedFit, HalfHealthy, dbVars, diskVars
  <1>5. CASE pc'[p] = "idle"
    BY <1>1, <1>2, <1>4, <1>5, RepairGoes
  <1>6. CASE pc'[p] # "idle"
    <2> DEFINE counting == report[p].recount
    <2>3. /\ pc'[p] = IF counting THEN "r_refs" ELSE "r_store"
          /\ UNCHANGED <<target, report, todo>>
      BY <1>1, <1>6
    <2>4. OrphanReport(p) /\ (repaired >= 1 => OrphanSecond(p))
      BY <1>2, OrphanFits
    <2>5. /\ MissingKegs(installed)' = {}
          /\ BrokenLinks(installed)' \subseteq report'[p].links
          /\ report'[p].prune \/ StaleKegFiles' = {}
          /\ ~counting => RefsRight'
      BY <1>1, <1>3, <2>3, <2>4 DEF OrphanReport
    <2>1. ReportFits(p)'
      <3>1. CASE counting
        BY <2>3, <2>5, <3>1 DEF ReportFits, ReadingSteps, OrphanSteps, EntrySteps
      <3>2. CASE ~counting
        <4>1. pc'[p] \in EntrySteps
          BY <2>3, <3>2 DEF EntrySteps
        <4> QED BY <2>5, <3>2, <4>1, EntryFits DEF EntryReport
      <3> QED BY <3>1, <3>2
    <2>2. repaired >= 1 => SecondRepair(p)'
      <3> SUFFICES ASSUME repaired >= 1
                   PROVE  SecondRepair(p)'
        OBVIOUS
      <3>1. ~counting /\ OrphanSecond(p)
        BY <2>4 DEF OrphanSecond
      <3>2. pc'[p] = "r_store" /\ pc'[p] \in EntrySteps
        BY <2>3, <3>1 DEF EntrySteps
      <3>3. EntrySecond(p)'
        BY <1>1, <1>3, <2>3, <3>1 DEF OrphanSecond, EntrySecond
      <3> QED BY <3>2, <3>3, EntryFits
    <2> QED BY <1>1, <1>2, <1>4, <1>6, <2>1, <2>2, RepairGoes
            DEF OrphanSteps, EntrySteps
  <1> QED BY <1>5, <1>6

\* The recount makes every count right, and every key it keeps is stored.
LEMMA StoreRefsRepairing ==
    ASSUME Inv, UsedStored, RepairedFit, NEW p \in Procs, Repairing(p),
           ReadsFit(p), RepairStoreRefs(p)
    PROVE  UsedStored' /\ RepairedFit' /\ Repairing(p)'
  <1> USE DEF Inv, TypeOK
  <1>1. /\ pc[p] = "r_refs" /\ UNCHANGED <<diskVars, installed, kegFiles, repaired>>
        /\ seen[p] = installed
    BY DEF RepairStoreRefs, At, ReplaceStoreRefs, dbVars, bookVars, ReadsFit
  <1>2. ReportFits(p) /\ report[p].recount /\ repaired = 0
    BY <1>1, RepairingOnce DEF ReportFits, SecondRepair
  <1>3. UsedStored'
    BY <1>1, UsedKept DEF diskVars
  <1>4. CASE Finish(p)
    <2>1. pc'[p] = "idle"
      BY <1>4 DEF Finish, Goto
    <2> QED BY <1>1, <1>2, <1>3, <2>1, RepairGoes
  <1>5. CASE ~Finish(p)
    <2>1. /\ ReplaceStoreRefs(installed) /\ pc'[p] = "r_store"
          /\ UNCHANGED <<report, target, todo>>
      BY <1>1, <1>5 DEF RepairStoreRefs, ItemStep, Goto
    <2>2. RefsRight'
      <3>1. \A k \in refKeys' : /\ k \in Keys /\ Users(k) # {}
                                /\ refcount'[k] = Cardinality(Users(k))
        BY <2>1 DEF ReplaceStoreRefs, Users
      <3> QED BY <1>1, <3>1, UsersFrame DEF RefsRight, UsedStored, diskVars
    <2>3. ReportFits(p)'
      <3>1. /\ MissingKegs(installed) = {}
            /\ BrokenLinks(installed) \subseteq report[p].links
            /\ report[p].prune \/ StaleKegFiles = {}
        BY <1>1, <1>2 DEF ReportFits
      <3>2. EntryReport(p)'
        BY <1>1, <2>1, <2>2, <3>1, ReportFrame DEF EntryReport, diskVars
      <3> QED BY <2>1, <3>2, EntryFits DEF EntrySteps
    <2> QED BY <1>1, <1>2, <1>3, <2>1, <2>3, RepairGoes DEF OrphanSteps, EntrySteps
  <1> QED BY <1>4, <1>5

\* An orphaned entry has no row in store_refs and no user.
LEMMA EntryRepairing ==
    ASSUME Inv, Covered, UsedStored, RepairedFit, NEW p \in Procs, Repairing(p),
           ReadsFit(p), RepairRemoveEntry(p) \/ RepairEntryRemoved(p)
    PROVE  UsedStored' /\ RepairedFit' /\ Repairing(p)'
  <1> USE DEF Inv, TypeOK
  <1>1. /\ pc[p] \in EntrySteps
        /\ UNCHANGED <<dbVars, relocated, cellar, linked, repaired>>
    BY DEF RepairRemoveEntry, RepairEntryRemoved, At, EntrySteps, bookVars
  <1>2. ReportFits(p) /\ (repaired >= 1 => SecondRepair(p)) /\ RefsRight
    BY <1>1, RepairingOnce DEF ReportFits, EntrySteps
  <1>3. UsedStored' /\ \A k \in refKeys : store[k] # "absent" => store'[k] # "absent"
    <2>1. CASE RepairRemoveEntry(p)
      <3>1. \A k \in Keys : store[k] # "absent" => store'[k] # "absent"
        BY <2>1 DEF RepairRemoveEntry
      <3> QED BY <1>1, <3>1, UsedKept DEF dbVars, DbTypeOK
    <2>2. CASE RepairEntryRemoved(p)
      <3>1. target[p].key \in Keys \ refKeys
        BY <2>2 DEF RepairEntryRemoved, At, ReadsFit
      <3>2. Users(target[p].key) = {}
        BY <3>1 DEF Covered, UsedKeysHaveRows
      <3>3. \A k \in Keys \ {target[p].key} : store'[k] = store[k]
        BY <2>2, <3>1 DEF RepairEntryRemoved
      <3>4. UsedStored'
        BY <1>1, <3>1, <3>2, <3>3, UsedRemoved DEF dbVars
      <3> QED BY <3>1, <3>3, <3>4 DEF DbTypeOK
    <2> QED BY <2>1, <2>2
  <1>4. /\ MissingKegs(installed)' = MissingKegs(installed)
        /\ BrokenLinks(installed)' = BrokenLinks(installed)
        /\ OrphanKegs(installed)' = OrphanKegs(installed)
        /\ StaleKegFiles' = StaleKegFiles
        /\ RefsRight'
    BY <1>1, <1>2, <1>3, ReportFrame, RefsFrame DEF dbVars
  <1>5. repaired >= 1 => HalfHealthy'
    BY <1>4 DEF RepairedFit, HalfHealthy
  <1>6. CASE pc'[p] = "idle"
    BY <1>1, <1>3, <1>5, <1>6, RepairGoes
  <1>7. CASE pc'[p] # "idle"
    <2>1. pc'[p] \in EntrySteps /\ UNCHANGED report
      BY <1>1, <1>7 DEF RepairRemoveEntry, RepairEntryRemoved, At, ItemStep, Finish,
                        Goto, EntrySteps
    <2>2. ReportFits(p)'
      <3>1. EntryReport(p)
        BY <1>1, <1>2, EntryFits
      <3>2. EntryReport(p)'
        BY <1>4, <2>1, <3>1 DEF EntryReport
      <3> QED BY <2>1, <3>2, EntryFits
    <2>3. ASSUME repaired >= 1, NEW k \in OrphanEntries(installed, refKeys)'
          PROVE  k \in todo'[p] \/ (pc'[p] = "r_store_removed" /\ k = target'[p].key)
      <3>1. k \in Keys /\ store'[k] # "absent" /\ k \notin refKeys /\ Users(k) = {}
        BY <1>1, <2>3 DEF OrphanEntries, dbVars, Users, UsersIn
      <3>2. CASE RepairRemoveEntry(p)
        <4>1. PICK x \in todo[p] :
                  /\ todo'[p] = todo[p] \ {x}
                  /\ IF store[x] = "absent"
                     THEN UNCHANGED <<store, pc, target>>
                     ELSE /\ store' = [store EXCEPT ![x] = "partial"]
                          /\ target'[p] = [NoTarget EXCEPT !.key = x]
                          /\ pc'[p] = "r_store_removed"
          BY <3>2 DEF RepairRemoveEntry, Goto
        <4>2. store[k] # "absent"
          BY <3>1, <4>1
        <4>3. k \in OrphanEntries(installed, refKeys)
          BY <3>1, <4>2 DEF OrphanEntries, Users
        <4>4. k \in todo[p]
          BY <1>1, <1>2, <2>3, <3>2, <4>3 DEF SecondRepair, RepairRemoveEntry, At
        <4>5. target'[p].key = x \/ store[x] = "absent"
          BY <4>1 DEF NoTarget
        <4> QED BY <4>1, <4>2, <4>4, <4>5
      <3>3. CASE RepairEntryRemoved(p)
        <4>1. /\ store' = [store EXCEPT ![target[p].key] = "absent"]
              /\ UNCHANGED todo
          BY <1>7, <3>3 DEF RepairEntryRemoved, Finish, Goto, ItemStep
        <4>2. k # target[p].key /\ store[k] # "absent"
          BY <3>1, <4>1
        <4>3. k \in OrphanEntries(installed, refKeys)
          BY <3>1, <4>2 DEF OrphanEntries, Users
        <4> QED BY <1>1, <1>2, <2>3, <4>1, <4>2, <4>3 DEF SecondRepair
      <3> QED BY <3>2, <3>3
    <2>4. repaired >= 1 => SecondRepair(p)'
      <3> SUFFICES ASSUME repaired >= 1
                   PROVE  SecondRepair(p)'
        OBVIOUS
      <3>1. EntrySecond(p)
        BY <1>1, <1>2, EntryFits
      <3>2. EntrySecond(p)'
        BY <1>1, <1>4, <2>3, <3>1 DEF EntrySecond
      <3> QED BY <2>1, <3>2, EntryFits
    <2> QED BY <1>1, <1>3, <1>5, <2>1, <2>2, <2>4, RepairGoes
  <1> QED BY <1>6, <1>7

LEMMA LinksRepairing ==
    ASSUME Inv, UsedStored, RepairedFit, NEW p \in Procs, Repairing(p),
           RepairLinks(p)
    PROVE  UsedStored' /\ RepairedFit' /\ Repairing(p)'
  <1> USE DEF Inv, TypeOK
  <1>1. /\ pc[p] = "r_store" /\ pc'[p] = "r_prune" /\ todo[p] = {}
        /\ UNCHANGED <<dbVars, store, relocated, cellar, report, todo, repaired>>
        /\ linked' = [t \in Tokens |->
                         IF t \in report[p].links THEN NoVersion ELSE linked[t]]
    BY DEF RepairLinks, At, ItemStep, Goto, bookVars
  <1>2. /\ ReportFits(p) /\ (repaired >= 1 => SecondRepair(p))
        /\ BrokenLinks(installed) \subseteq report[p].links
    BY <1>1, RepairingOnce DEF ReportFits, EntrySteps
  <1>3. BrokenLinks(installed)' = {}
    <2>1. BrokenLinks(installed)' \subseteq BrokenLinks(installed)
      BY <1>1, BrokenShrinks DEF dbVars
    <2>2. \A t \in report[p].links : t \notin BrokenLinks(installed)'
      BY <1>1 DEF BrokenLinks
    <2> QED BY <1>2, <2>1, <2>2
  <1>4. /\ MissingKegs(installed)' = MissingKegs(installed)
        /\ OrphanKegs(installed)' = OrphanKegs(installed)
        /\ OrphanEntries(installed, refKeys)' = OrphanEntries(installed, refKeys)
        /\ StaleKegFiles' = StaleKegFiles
        /\ RefsRight => RefsRight'
    BY <1>1, ReportFrame, RefsFrame DEF dbVars
  <1>5. UsedStored' /\ (repaired >= 1 => HalfHealthy')
    BY <1>1, <1>3, <1>4, UsedKept DEF RepairedFit, HalfHealthy, dbVars
  <1>6. ReportFits(p)'
    BY <1>1, <1>2, <1>3, <1>4 DEF ReportFits, ReadingSteps, OrphanSteps, EntrySteps
  <1>7. repaired >= 1 => SecondRepair(p)'
    BY <1>1, <1>2, <1>4, RepairingOnce
    DEF SecondRepair, DoctorSteps, ReadingSteps, OrphanSteps, EntrySteps
  <1> QED BY <1>1, <1>5, <1>6, <1>7, RepairGoes DEF EntrySteps

\* The end of a repair: the first leaves it half healthy, the second healthy.
LEMMA PruneRepairing ==
    ASSUME Inv, UsedStored, RepairedFit, NEW p \in Procs, Repairing(p),
           RepairPrune(p)
    PROVE  UsedStored' /\ RepairedFit' /\ Repairing(p)'
  <1> USE DEF Inv, TypeOK
  <1>1. /\ pc[p] = "r_prune" /\ pc'[p] = "idle"
        /\ UNCHANGED <<diskVars, installed, refKeys, refcount>>
    BY DEF RepairPrune, At, Finish, Goto, PruneStaleKegFileRecords, dbVars
  <1>2. /\ ReportFits(p) /\ (repaired >= 1 => SecondRepair(p))
        /\ (repaired >= 1 => repaired # 2)
        /\ MissingKegs(installed) = {} /\ RefsRight /\ BrokenLinks(installed) = {}
        /\ report[p].prune \/ StaleKegFiles = {}
    BY <1>1, RepairingOnce DEF ReportFits
  <1>3. UsedStored'
    BY <1>1, UsedKept DEF diskVars
  <1>4. CASE UNCHANGED <<dbVars, repaired>>
    <2>1. repaired >= 1 => HalfHealthy'
      BY <1>1, <1>4, HalfFrame DEF RepairedFit, diskVars
    <2> QED BY <1>1, <1>3, <1>4, <2>1, RepairGoes
  <1>5. CASE ~UNCHANGED <<dbVars, repaired>>
    <2>1. /\ \/ PruneStaleKegFileRecords
             \/ StaleKegFiles = {} /\ UNCHANGED kegFiles
          /\ repaired' = repaired + 1
      BY <1>2, <1>5 DEF RepairPrune, dbVars
    <2>2. StaleKegFiles' = {}
      BY <1>1, <2>1 DEF PruneStaleKegFileRecords, StaleKegFiles
    <2>3. BrokenLinks(installed)' = {}
      <3>1. \A n \in Names : kegFiles'[n] \in {kegFiles[n], NoVersion}
        BY <2>1 DEF PruneStaleKegFileRecords
      <3>2. \A n \in Names : installed[n] # NoRow => installed[n].version # NoVersion
        BY DbAssumption DEF DbAssumption, DbTypeOK, Rows
      <3>3. BrokenLinks(installed)' \subseteq BrokenLinks(installed)
        BY <1>1, <3>1, <3>2 DEF BrokenLinks, diskVars
      <3> QED BY <1>2, <3>3
    <2>4. /\ MissingKegs(installed)' = MissingKegs(installed)
          /\ OrphanKegs(installed)' = OrphanKegs(installed)
          /\ OrphanEntries(installed, refKeys)' = OrphanEntries(installed, refKeys)
          /\ RefsRight'
      BY <1>1, <1>2, ReportFrame, RefsFrame DEF diskVars
    <2>5. HalfHealthy'
      BY <1>2, <2>2, <2>3, <2>4 DEF HalfHealthy
    <2>6. repaired' = 2 => Healthy'
      BY <1>1, <1>2, <2>1, <2>2, <2>3, <2>4 DEF SecondRepair, Healthy, RefsRight
    <2> QED BY <1>1, <1>3, <2>5, <2>6, IdleRepairing DEF RepairedFit
  <1> QED BY <1>4, <1>5

-----------------------------------------------------------------------------
(* The invariant of repair.                                                *)

LEMMA StepRepairing ==
    ASSUME ~Overlap, SerialInv, UsedStored, RepairedFit, NEW p \in Procs,
           Repairing(p),
           Start(p) \/ Acquire(p) \/ Locked(p) \/ Unlocked(p) \/ Crash(p)
    PROVE  UsedStored' /\ RepairedFit' /\ Repairing(p)'
  <1>1. Inv /\ Covered /\ ReadsFit(p) /\ TypeOK /\ TargetOK
    BY DEF SerialInv, Inv
  <1>2. CASE Start(p) \/ Acquire(p) \/ Locked(p) \/ Crash(p)
    BY <1>1, <1>2, StartRepairing, AcquireRepairing, LockedRepairing, CrashRepairing
  <1>3. CASE Unlocked(p)
    BY <1>1, <1>3, UnlockedWork, ReadRefsRepairing, ReadDiskRepairing,
       UnlinkKegRepairing, RemoveKegRepairing, MissingRepairing, ListRepairing,
       StoreRefsRepairing, EntryRepairing, LinksRepairing, PruneRepairing
       DEF Unlocked
  <1> QED BY <1>2, <1>3

LEMMA RepairInit == Init => RepairInv
  <1> SUFFICES ASSUME Init
               PROVE  RepairInv
    OBVIOUS
  <1>1. SerialInv
    BY SerialInit
  <1>2. \A k \in Keys : Users(k) = {}
    BY DbAssumption DEF Init, DbInit, Users, UsersIn, NoRow, DbAssumption
  <1>3. UsedStored /\ RepairedFit
    BY <1>2 DEF Init, UsedStored, RepairedFit
  <1>4. \A p \in Procs : Repairing(p)
    BY DEF Init, Repairing, TasksStored, ReportFits, ReadingSteps, OrphanSteps,
           EntrySteps, InstallSteps
  <1> QED BY <1>1, <1>3, <1>4 DEF RepairInv

LEMMA RepairStutter == RepairInv /\ SerialInv' /\ UNCHANGED vars => RepairInv'
  <1> SUFFICES ASSUME RepairInv, SerialInv', UNCHANGED vars
               PROVE  RepairInv'
    OBVIOUS
  <1> USE DEF vars, localVars, bookVars
  <1>1. UsedStored' /\ RepairedFit'
    BY UsedKept, RepairedFrame DEF RepairInv, dbVars, diskVars
  <1>2. ASSUME NEW p \in Procs
        PROVE  Repairing(p)'
    <2>1. Repairing(p)
      BY DEF RepairInv
    <2>2. TasksStored(p)'
      BY <2>1 DEF Repairing, TasksStored, diskVars
    <2>3. /\ MissingKegs(installed)' = MissingKegs(installed)
          /\ BrokenLinks(installed)' = BrokenLinks(installed)
          /\ OrphanKegs(installed)' = OrphanKegs(installed)
          /\ OrphanEntries(installed, refKeys)' = OrphanEntries(installed, refKeys)
          /\ Tracked(installed)' = Tracked(installed)
          /\ StaleKegFiles' = StaleKegFiles
          /\ RefsRight => RefsRight'
          /\ \A k : Users(k)' = Users(k)
      BY ReportFrame, RefsFrame, UsersFrame DEF dbVars, diskVars
    <2>4. ReportFits(p)'
      BY <2>1, <2>3 DEF Repairing, ReportFits, dbVars
    <2>5. repaired' >= 1 => SecondRepair(p)'
      BY <2>1, <2>3 DEF Repairing, SecondRepair
    <2> QED BY <2>2, <2>4, <2>5 DEF Repairing
  <1> QED BY <1>1, <1>2 DEF RepairInv

LEMMA RepairNext ==
    ASSUME ~Overlap, RepairInv, [Next]_vars
    PROVE  RepairInv'
  <1>0. SerialInv /\ SerialInv' /\ TypeOK
    BY SerialNext DEF RepairInv, SerialInv, Inv
  <1>1. CASE UNCHANGED vars
    BY <1>0, <1>1, RepairStutter
  <1>2. ASSUME NEW p \in Procs,
               Start(p) \/ Acquire(p) \/ Locked(p) \/ Unlocked(p) \/ Crash(p)
        PROVE  RepairInv'
    <2>1. UsedStored' /\ RepairedFit' /\ Repairing(p)'
      BY <1>0, <1>2, StepRepairing DEF RepairInv
    <2>2. \A q \in Procs \ {p} : Repairing(q)'
      BY <1>0, <1>2, OthersIdle, IdleRepairing DEF SerialInv
    <2> QED BY <1>0, <2>1, <2>2 DEF RepairInv
  <1> QED BY <1>1, <1>2 DEF Next

\* When commands do not overlap, two completed doctor --repair runs with
\* nothing in between leave nothing for doctor to report, whatever failures
\* and crashes left behind before them.
THEOREM RepairCorrect == ASSUME ~Overlap PROVE Spec => []RepairConverges
  <1>1. Init => RepairInv
    BY RepairInit
  <1>2. RepairInv /\ [Next]_vars => RepairInv'
    BY RepairNext
  <1>3. RepairInv => RepairConverges
    BY DEF RepairInv, RepairedFit, RepairConverges
  <1> QED BY <1>1, <1>2, <1>3, PTL DEF Spec

-----------------------------------------------------------------------------
(* What users see.  When commands do not overlap, no two bottles share a   *)
(* keg directory, and no copy or removal stops half way, the installer     *)
(* implements PackageManager: have is what the rows say, as every row has  *)
(* its keg, and each step is one of the manager's or changes nothing there.*)

\* doctor never finds a keg missing.
NoneMissing == \A p \in Procs : report[p].missing = {}

AtomicInv == KegsInv /\ NoneMissing

Promised == Manager!ManagerNext \/ UNCHANGED <<UsablePackages, WholeEntries, RunningCommands>>

InstallPhase == {"wait_install", "prepare"} \cup InstallSteps
LinkPhase    == RowWaitSteps \cup LinkSteps
CleanPhase   == UnlockedSteps \ UninstallSteps

LEMMA HaveIsInstalled ==
    /\ KegsInv => UsablePackages = installed
    /\ KegsInv' => UsablePackages' = installed'
  <1>1. ASSUME KegsInv PROVE UsablePackages = installed
    <2>1. installed \in [Names -> Rows \cup {NoRow}] /\ \A n \in Names : installed[n] # NoRow => Usable(n)
      BY <1>1 DEF KegsInv, SerialInv, Inv, TypeOK, DbTypeOK, RowsFit, RecordMatchesKeg, Usable
    <2> QED BY <2>1 DEF UsablePackages
  <1>2. ASSUME KegsInv' PROVE UsablePackages' = installed'
    <2>1. installed' \in [Names -> Rows \cup {NoRow}] /\ \A n \in Names : installed'[n] # NoRow => Usable(n)'
      BY <1>2 DEF KegsInv, SerialInv, Inv, TypeOK, DbTypeOK, RowsFit, RecordMatchesKeg, Usable
    <2> QED BY <2>1 DEF UsablePackages
  <1> QED BY <1>1, <1>2

LEMMA CommandAt ==
    ASSUME NEW p \in Procs
    PROVE  /\ pc[p] = "idle" => CommandOf(p) = NoCommand
           /\ pc[p] \in InstallPhase =>
                CommandOf(p) = [op |-> "install", items |-> plan[p], name |-> NoName]
           /\ pc[p] \in UninstallSteps =>
                CommandOf(p) = [op |-> "uninstall", items |-> {}, name |-> target[p].name]
           /\ pc[p] \in LinkPhase =>
                CommandOf(p) = [op |-> "link", items |-> {}, name |-> NoName]
           /\ pc[p] \in CleanPhase =>
                CommandOf(p) = [op |-> "clean", items |-> {}, name |-> NoName]
  BY DEF CommandOf, InstallPhase, InstallSteps, UninstallSteps, LinkPhase, RowWaitSteps,
         LinkSteps, CleanPhase, UnlockedSteps

LEMMA NextCommandAt ==
    ASSUME NEW p \in Procs
    PROVE  /\ pc'[p] = "idle" => CommandOf(p)' = NoCommand
           /\ pc'[p] \in InstallPhase =>
                CommandOf(p)' = [op |-> "install", items |-> plan'[p], name |-> NoName]
           /\ pc'[p] \in UninstallSteps =>
                CommandOf(p)' = [op |-> "uninstall", items |-> {}, name |-> target'[p].name]
           /\ pc'[p] \in LinkPhase =>
                CommandOf(p)' = [op |-> "link", items |-> {}, name |-> NoName]
           /\ pc'[p] \in CleanPhase =>
                CommandOf(p)' = [op |-> "clean", items |-> {}, name |-> NoName]
  BY DEF CommandOf, InstallPhase, InstallSteps, UninstallSteps, LinkPhase, RowWaitSteps,
         LinkSteps, CleanPhase, UnlockedSteps

\* What holds of a step of p when the others are idle.
Moving(p) ==
    /\ AtomicInv /\ KegsInv'
    /\ \A q \in Procs \ {p} : pc[q] = "idle" /\ pc'[q] = "idle"

LEMMA MovingCommand ==
    ASSUME NEW p \in Procs, Moving(p)
    PROVE  /\ RunningCommands' = [RunningCommands EXCEPT ![p] = CommandOf(p)']
           /\ RunningCommands[p] = CommandOf(p)
           /\ CommandOf(p)' = CommandOf(p) => RunningCommands' = RunningCommands
           /\ pc[p] = "idle" => \A q \in Procs : RunningCommands[q] = NoCommand
           /\ UsablePackages = installed /\ UsablePackages' = installed'
           /\ TypeOK /\ TargetOK /\ Clean(p) /\ RowsFit
  <1>1. \A q \in Procs \ {p} : CommandOf(q) = NoCommand /\ CommandOf(q)' = NoCommand
    BY CommandAt, NextCommandAt DEF Moving
  <1>2. /\ RunningCommands' = [RunningCommands EXCEPT ![p] = CommandOf(p)']
        /\ RunningCommands[p] = CommandOf(p)
        /\ CommandOf(p)' = CommandOf(p) => RunningCommands' = RunningCommands
    BY <1>1 DEF RunningCommands
  <1>3. pc[p] = "idle" => \A q \in Procs : RunningCommands[q] = NoCommand
    BY <1>1, CommandAt DEF RunningCommands
  <1>4. KegsInv /\ KegsInv' /\ Alone(p)
    BY DEF Moving, AtomicInv, Alone
  <1> QED BY <1>2, <1>3, <1>4, HaveIsInstalled DEF KegsInv, SerialInv, Inv

\* Nothing that users see changes, or the command ends.
LEMMA Unseen ==
    ASSUME NEW p \in Procs, Moving(p), UNCHANGED <<installed, store>>, CommandOf(p)' = CommandOf(p)
    PROVE  Promised
  BY MovingCommand DEF Promised, WholeEntries

LEMMA Ended ==
    ASSUME NEW p \in Procs, Moving(p), UNCHANGED <<installed, store>>,
           pc[p] \in Steps \ {"idle"}, pc'[p] = "idle"
    PROVE  Promised
  <1>1. CommandOf(p) # NoCommand
    <2>1. pc[p] \in InstallPhase \cup UninstallSteps \cup LinkPhase \cup CleanPhase
      BY DEF Steps, WaitingSteps, LockedSteps, UnlockedSteps, InstallPhase, InstallSteps,
             UninstallSteps, LinkPhase, RowWaitSteps, LinkSteps, CleanPhase
    <2> QED BY <2>1, CommandAt DEF NoCommand
  <1>2. CommandOf(p)' = NoCommand
    BY NextCommandAt
  <1>3. UNCHANGED <<UsablePackages, WholeEntries>>
    BY MovingCommand DEF WholeEntries
  <1>4. Manager!End(p)
    BY <1>1, <1>2, <1>3, MovingCommand DEF Manager!End
  <1> QED BY <1>4 DEF Promised, Manager!ManagerNext

\* A process keeps to the command it runs, and what that is about.
LEMMA GoesOn ==
    ASSUME NEW p \in Procs, Moving(p), UNCHANGED <<installed, store>>, pc[p] \in Steps,
           \/ pc[p] \in InstallPhase /\ pc'[p] \in InstallPhase /\ plan'[p] = plan[p]
           \/ pc[p] \in UninstallSteps /\ pc'[p] \in UninstallSteps /\ target'[p].name = target[p].name
           \/ pc[p] \in LinkPhase /\ pc'[p] \in LinkPhase
           \/ pc[p] \in CleanPhase /\ pc'[p] \in CleanPhase
           \/ pc[p] # "idle" /\ pc'[p] = "idle"
    PROVE  Promised
  <1>1. CASE pc'[p] = "idle" /\ pc[p] # "idle"
    BY <1>1, Ended
  <1>2. CASE CommandOf(p)' = CommandOf(p)
    BY <1>2, Unseen
  <1> QED BY <1>1, <1>2, CommandAt, NextCommandAt

LEMMA StartPromised ==
    ASSUME NEW p \in Procs, Moving(p), Start(p)
    PROVE  Promised
  <1> USE DEF Start, StartInstall, StartLink, StartUnlink, StartUninstall, StartGc,
              StartDoctor, Begin, Goto
  <1>0. UNCHANGED <<installed, store>> /\ pc[p] = "idle" /\ TypeOK
    BY MovingCommand DEF dbVars, diskVars
  <1>1. UNCHANGED <<UsablePackages, WholeEntries>>
    BY <1>0, MovingCommand DEF WholeEntries
  <1>2. ASSUME NEW c, CommandOf(p)' = c PROVE Manager!Begin(p, c)
    BY <1>0, <1>1, <1>2, MovingCommand DEF Manager!Begin
  <1>3. CASE StartInstall(p)
    <2>1. pc'[p] = "wait_install" /\ plan'[p] \in SUBSET Items
      BY <1>0, <1>3 DEF TypeOK
    <2>2. CommandOf(p)' = Manager!Doing("install", plan'[p], NoName)
      BY <2>1, NextCommandAt DEF InstallPhase, Manager!Doing
    <2> QED BY <1>2, <2>1, <2>2 DEF Promised, Manager!ManagerNext
  <1>4. CASE StartUninstall(p)
    <2>1. pc'[p] = "u_unlink" /\ target'[p].name \in Names
      BY <1>0, <1>4 DEF TypeOK
    <2>2. CommandOf(p)' = Manager!Doing("uninstall", {}, target'[p].name)
      BY <2>1, NextCommandAt DEF UninstallSteps, Manager!Doing
    <2> QED BY <1>2, <2>1, <2>2 DEF Promised, Manager!ManagerNext
  <1>5. CASE StartLink(p) \/ StartUnlink(p)
    <2>1. pc'[p] \in RowWaitSteps
      BY <1>0, <1>5 DEF TypeOK, RowWaitSteps
    <2>2. CommandOf(p)' = Manager!Doing("link", {}, NoName)
      BY <2>1, NextCommandAt DEF LinkPhase, Manager!Doing
    <2> QED BY <1>2, <2>2 DEF Promised, Manager!ManagerNext
  <1>6. CASE StartGc(p) \/ StartDoctor(p)
    <2>1. pc'[p] \in {"gc_next", "d_refs"}
      BY <1>0, <1>6 DEF TypeOK
    <2>2. CommandOf(p)' = Manager!Doing("clean", {}, NoName)
      BY <2>1, NextCommandAt DEF CleanPhase, UnlockedSteps, UninstallSteps, Manager!Doing
    <2> QED BY <1>2, <2>2 DEF Promised, Manager!ManagerNext
  <1> QED BY <1>3, <1>4, <1>5, <1>6

LEMMA AcquirePromised ==
    ASSUME NEW p \in Procs, Moving(p), Acquire(p)
    PROVE  Promised
  <1>0. UNCHANGED <<installed, store>> /\ TypeOK
    BY MovingCommand DEF Acquire, AcquireForInstall, AcquireForLink, dbVars, diskVars
  <1>1. \/ pc[p] = "wait_install" /\ pc'[p] = "prepare" /\ plan' = plan
        \/ pc[p] \in RowWaitSteps /\ pc'[p] \in LinkSteps \cup {"idle"}
    BY <1>0 DEF Acquire, AcquireForInstall, AcquireForLink, Goto, Finish, TypeOK, RowWaitSteps,
                LinkSteps
  <1> QED BY <1>0, <1>1, GoesOn DEF InstallPhase, LinkPhase, RowWaitSteps, Steps, WaitingSteps

\* Bottles come into the store; a keg that is copied is no package yet.
LEMMA PreparePromised ==
    ASSUME NEW p \in Procs, Moving(p), Prepare(p)
    PROVE  Promised
  <1>1. PICK i \in Items :
            \/ EnsureEntry(p, i) \/ MaterializeFromRelocated(p, i) \/ CopyRelocated(p, i)
            \/ Materialize(p, i) \/ CopyStoreEntry(p, i)
    BY DEF Prepare
  <1>2. /\ pc[p] = "prepare" /\ i \in plan[p] /\ UNCHANGED <<installed, pc, plan, target>>
        /\ TypeOK /\ i.key \in Keys
    BY <1>1, MovingCommand, ItemTypes
       DEF EnsureEntry, MaterializeFromRelocated, CopyRelocated, Materialize, CopyStoreEntry,
           Preparing, SetTask, dbVars
  <1>3. CommandOf(p)' = CommandOf(p) /\ CommandOf(p) = [op |-> "install", items |-> plan[p], name |-> NoName]
    BY <1>2, CommandAt, NextCommandAt DEF InstallPhase
  <1>4. CASE UNCHANGED store
    BY <1>2, <1>3, <1>4, Unseen
  <1>5. CASE store' = [store EXCEPT ![i.key] = IF @ = "absent" THEN "whole" ELSE @] /\ store[i.key] = "absent"
    <2>1. WholeEntries' = WholeEntries \cup {i.key}
      BY <1>2, <1>5 DEF WholeEntries, TypeOK
    <2>2. CommandOf(p) # NoCommand
      BY <1>3 DEF NoCommand
    <2>3. Manager!Fetch(p)
      BY <1>2, <1>3, <2>1, <2>2, MovingCommand DEF Manager!Fetch, Manager!Does
    <2> QED BY <2>3 DEF Promised, Manager!ManagerNext
  <1>6. UNCHANGED store \/ (/\ store' = [store EXCEPT ![i.key] = IF @ = "absent" THEN "whole" ELSE @]
                            /\ store[i.key] = "absent")
    BY <1>1, <1>2 DEF EnsureEntry, MaterializeFromRelocated, CopyRelocated, Materialize,
                      CopyStoreEntry, TypeOK
  <1> QED BY <1>4, <1>5, <1>6

\* The item at hand is one of those the install set out for, and its bottle is stored.
LEMMA ItemOfInstall ==
    ASSUME OneBottlePerKeg, NEW p \in Procs, Moving(p), pc[p] \in InstallSteps
    PROVE  \E i \in plan[p] :
              /\ i \in Items /\ i.key \in WholeEntries
              /\ target[p].name = i.name /\ target[p].keg[2] = i.version /\ target[p].key = i.key
  <1>1. PICK i \in plan[p] :
            /\ task[p][i] = "ready"
            /\ target[p] = [name |-> i.name, keg |-> KegOf(i), key |-> i.key]
    BY MovingCommand, CleanParts DEF ItemFits
  <1>2. TaskFits(p, i)
    BY MovingCommand, CleanParts DEF TasksFit
  <1>3. i \in Items /\ i.key \in Keys
    BY MovingCommand, ItemTypes DEF TypeOK
  <1> QED BY <1>1, <1>2, <1>3 DEF TaskFits, WholeEntries, KegOf

\* The install is done with its item: the plan loses it.
LEMMA ItemLeft ==
    ASSUME OneBottlePerKeg, NEW p \in Procs, Moving(p), pc[p] \in InstallSteps, ItemDone(p)
    PROVE  /\ RunningCommands' = Manager!Without(p, target[p].name)
           /\ UNCHANGED <<installed, store>> => Promised
  <1>0. TypeOK /\ CommandOf(p) = [op |-> "install", items |-> plan[p], name |-> NoName]
    BY MovingCommand, CommandAt DEF InstallPhase
  <1>1. pc'[p] = "prepare" /\ plan'[p] = {i \in plan[p] : i.name # target[p].name}
    BY <1>0 DEF ItemDone, Goto, TypeOK
  <1>2. CommandOf(p)' = Manager!Doing("install", plan'[p], NoName)
    BY <1>1, NextCommandAt DEF InstallPhase, Manager!Doing
  <1>3. RunningCommands' = Manager!Without(p, target[p].name)
    <2>1. RunningCommands[p].items = plan[p]
      BY <1>0, MovingCommand
    <2>2. RunningCommands' = [RunningCommands EXCEPT ![p] = CommandOf(p)']
      BY MovingCommand
    <2> QED BY <1>1, <1>2, <2>1, <2>2, Zenon DEF Manager!Without
  <1>4. ASSUME UNCHANGED <<installed, store>> PROVE Promised
    <2>1. PICK i \in plan[p] : target[p].name = i.name
      BY ItemOfInstall
    <2>2. CommandOf(p) # NoCommand
      BY <1>0 DEF NoCommand
    <2>3. UNCHANGED <<UsablePackages, WholeEntries>>
      BY <1>4, MovingCommand DEF WholeEntries
    <2>4. /\ RunningCommands[p].op = "install" /\ RunningCommands[p].items = plan[p]
          /\ RunningCommands[p] # NoCommand
      BY <1>0, <2>2, MovingCommand
    <2>5. RunningCommands' = Manager!Without(p, i.name)
      BY <1>3, <2>1
    <2>6. Manager!Leave(p)
      BY <2>3, <2>4, <2>5, Zenon DEF Manager!Leave, Manager!Does
    <2> QED BY <2>6 DEF Promised, Manager!ManagerNext
  <1> QED BY <1>3, <1>4

\* The row of an item makes it a package.
LEMMA RecordPromised ==
    ASSUME OneBottlePerKeg, NEW p \in Procs, Moving(p), RecordItem(p)
    PROVE  Promised
  <1>0. /\ TypeOK /\ pc[p] = "record" /\ UNCHANGED store
        /\ CommandOf(p) = [op |-> "install", items |-> plan[p], name |-> NoName]
    BY MovingCommand, CommandAt DEF RecordItem, At, diskVars, InstallPhase, InstallSteps
  <1>1. CASE ItemStep(p, "cleanup") /\ UNCHANGED dbVars
    <2>1. pc'[p] = "cleanup" /\ plan' = plan
      BY <1>0, <1>1 DEF ItemStep, Goto, TypeOK
    <2> QED BY <1>0, <1>1, <2>1, GoesOn DEF InstallPhase, InstallSteps, dbVars, Steps, LockedSteps
  <1>2. CASE ~(ItemStep(p, "cleanup") /\ UNCHANGED dbVars)
    <2>1. PICK i \in plan[p] :
              /\ i \in Items /\ i.key \in WholeEntries
              /\ target[p].name = i.name /\ target[p].keg[2] = i.version /\ target[p].key = i.key
      BY <1>0, ItemOfInstall DEF InstallSteps
    <2>2. /\ installed' = [installed EXCEPT ![i.name] = [version |-> i.version, key |-> i.key]]
          /\ ItemStep(p, "link") \/ ItemDone(p)
      BY <1>2, <2>1 DEF RecordItem, RecordInstall
    <2>3. RunningCommands' \in {RunningCommands, Manager!Without(p, i.name)}
      <3>1. CASE ItemDone(p)
        BY <1>0, <2>1, <3>1, ItemLeft DEF InstallSteps
      <3>2. CASE ItemStep(p, "link")
        <4>1. pc'[p] = "link" /\ plan' = plan
          BY <1>0, <3>2 DEF ItemStep, Goto, TypeOK
        <4>2. CommandOf(p)' = CommandOf(p)
          BY <1>0, <4>1, NextCommandAt DEF InstallPhase, InstallSteps
        <4> QED BY <4>2, MovingCommand
      <3> QED BY <2>2, <3>1, <3>2
    <2>4. CommandOf(p) # NoCommand /\ UNCHANGED WholeEntries
      BY <1>0 DEF NoCommand, WholeEntries
    <2>5. Manager!Install(p)
      BY <1>0, <2>1, <2>2, <2>3, <2>4, MovingCommand DEF Manager!Install, Manager!Does
    <2> QED BY <2>5 DEF Promised, Manager!ManagerNext
  <1> QED BY <1>1, <1>2

LEMMA LockedPromised ==
    ASSUME OneBottlePerKeg, NEW p \in Procs, Moving(p), Locked(p)
    PROVE  Promised
  <1>0. TypeOK
    BY MovingCommand
  <1>1. CASE Prepare(p) \/ RecordItem(p)
    BY <1>1, PreparePromised, RecordPromised
  <1>2. CASE NextItem(p) \/ FinishInstall(p)
    <2>1. /\ pc[p] = "prepare" /\ UNCHANGED <<installed, store>>
          /\ pc'[p] = "idle" \/ (pc'[p] = "post_install" /\ plan' = plan)
      BY <1>0, <1>2 DEF NextItem, FinishInstall, Prepared, Finish, Goto, TypeOK, dbVars, diskVars
    <2> QED BY <2>1, GoesOn DEF InstallPhase, InstallSteps, Steps, LockedSteps
  <1>3. CASE PostInstall(p) \/ SaveRelocated(p) \/ CleanupKeg(p) \/ EndCleanup(p)
             \/ LinkItem(p) \/ RecordLinks(p)
    <2>1. /\ pc[p] \in InstallSteps /\ UNCHANGED <<installed, store>>
          /\ ItemDone(p) \/ \E s \in InstallSteps : ItemStep(p, s)
      BY <1>3 DEF PostInstall, SaveRelocated, CleanupKeg, EndCleanup, LinkItem, RecordLinks,
                  RecordLinkedFile, At, InstallSteps, dbVars, diskVars
    <2>2. CASE ItemDone(p)
      BY <2>1, <2>2, ItemLeft
    <2>3. CASE \E s \in InstallSteps : ItemStep(p, s)
      <3>1. pc'[p] \in InstallSteps /\ plan' = plan
        BY <1>0, <2>3 DEF ItemStep, Goto, TypeOK
      <3>2. pc[p] \in Steps
        BY <1>0 DEF TypeOK
      <3> QED BY <2>1, <3>1, <3>2, GoesOn DEF InstallPhase
    <2> QED BY <2>1, <2>2, <2>3
  <1>4. CASE LinkInstalled(p) \/ PersistLinks(p) \/ UnlinkInstalled(p) \/ ClearRows(p)
    <2>1. /\ pc[p] \in LinkSteps /\ UNCHANGED <<installed, store>>
          /\ Finish(p) \/ \E s \in LinkSteps : ItemStep(p, s)
      BY <1>4 DEF LinkInstalled, PersistLinks, UnlinkInstalled, ClearRows, RecordLinkedFile,
                  ClearKegFileRecords, At, LinkSteps, dbVars, diskVars
    <2>2. pc'[p] \in LinkSteps \cup {"idle"}
      BY <1>0, <2>1 DEF ItemStep, Finish, Goto, TypeOK
    <2>3. pc[p] \in Steps /\ pc[p] # "idle"
      BY <1>0, <2>1 DEF TypeOK, LinkSteps
    <2> QED BY <2>1, <2>2, <2>3, GoesOn DEF LinkPhase
  <1> QED BY <1>1, <1>2, <1>3, <1>4 DEF Locked

-----------------------------------------------------------------------------
(* Steps without the lock.                                                 *)

LEMMA UninstallPromised ==
    ASSUME NEW p \in Procs, Moving(p),
           \/ UninstallUnlink(p) \/ UninstallRecord(p)
           \/ UninstallRemoveKeg(p) \/ UninstallKegRemoved(p)
    PROVE  Promised
  <1>0. /\ TypeOK /\ UNCHANGED store /\ pc[p] \in UninstallSteps /\ pc[p] \in Steps
        /\ CommandOf(p) = [op |-> "uninstall", items |-> {}, name |-> target[p].name]
    <2>1. pc[p] \in UninstallSteps /\ UNCHANGED store
      BY DEF UninstallUnlink, UninstallRecord, UninstallRemoveKeg, UninstallKegRemoved, At,
             UninstallSteps, diskVars
    <2> QED BY <2>1, MovingCommand, CommandAt DEF TypeOK
  <1>1. /\ pc'[p] \in UninstallSteps /\ target'[p].name = target[p].name
        \/ pc'[p] = "idle"
    <2>1. CASE UninstallUnlink(p)
      BY <1>0, <2>1 DEF UninstallUnlink, Finish, Goto, TypeOK, UninstallSteps, Targets
    <2>2. CASE ~UninstallUnlink(p)
      BY <1>0, <2>2 DEF UninstallRecord, UninstallRemoveKeg, UninstallKegRemoved, ItemStep,
                        Finish, Goto, TypeOK, UninstallSteps
    <2> QED BY <2>1, <2>2
  <1>2. CASE UNCHANGED installed
    BY <1>0, <1>1, <1>2, GoesOn DEF UninstallSteps
  <1>3. CASE ~UNCHANGED installed
    <2>1. /\ installed' = [installed EXCEPT ![target[p].name] = NoRow]
          /\ ItemStep(p, "u_remove")
      BY <1>3 DEF UninstallUnlink, UninstallRecord, UninstallRemoveKeg, UninstallKegRemoved,
                  RecordUninstall, dbVars
    <2>2. CommandOf(p)' = CommandOf(p) /\ CommandOf(p) # NoCommand
      <3>1. pc'[p] = "u_remove" /\ target' = target
        BY <1>0, <2>1 DEF ItemStep, Goto, TypeOK
      <3> QED BY <1>0, <3>1, NextCommandAt DEF UninstallSteps, NoCommand
    <2>3. UNCHANGED WholeEntries
      BY <1>0 DEF WholeEntries
    <2>4. Manager!Uninstall(p)
      BY <1>0, <2>1, <2>2, <2>3, MovingCommand DEF Manager!Uninstall, Manager!Does
    <2> QED BY <2>4 DEF Promised, Manager!ManagerNext
  <1> QED BY <1>2, <1>3

\* No row uses an entry that starts to go.
LEMMA EntryGoes ==
    ASSUME [Next]_vars, NEW p \in Procs, Moving(p), NEW k \in Keys, NEW s \in {"absent", "partial"},
           store' = [store EXCEPT ![k] = s], UNCHANGED installed,
           pc[p] \in CleanPhase, pc'[p] \in CleanPhase
    PROVE  Promised
  <1>0. /\ TypeOK /\ CommandOf(p) = [op |-> "clean", items |-> {}, name |-> NoName]
        /\ CommandOf(p)' = CommandOf(p)
    BY MovingCommand, CommandAt, NextCommandAt
  <1>1. WholeEntries' = WholeEntries \ {k}
    BY <1>0 DEF WholeEntries, TypeOK
  <1>2. CASE store[k] # "whole"
    <2>1. WholeEntries' = WholeEntries
      BY <1>1, <1>2 DEF WholeEntries
    <2> QED BY <1>0, <2>1, MovingCommand DEF Promised
  <1>3. CASE store[k] = "whole"
    <2>1. SerialInv /\ DbTypeOK /\ RefsCoverInstalls
      BY <1>0, CoveredCovers, TypeParts DEF Moving, AtomicInv, KegsInv, SerialInv
    <2>2. refcount[k] <= 0
      <3>1. store'[k] # "whole"
        BY <1>0 DEF TypeOK
      <3> QED BY <1>3, <2>1, <3>1, SerialRemoves
    <2>3. Users(k) = {}
      <3>1. Cardinality(Users(k)) \in Nat /\ refcount[k] \in Int /\ IsFiniteSet(Users(k))
        BY <2>1, UsersFinite DEF DbTypeOK, Users
      <3>2. Cardinality(Users(k)) = 0
        BY <2>1, <2>2, <3>1 DEF RefsCoverInstalls
      <3> QED BY <3>1, <3>2, FS_EmptySet
    <2>4. \A n \in Names : installed[n] # NoRow => installed[n].key # k
      BY <2>3 DEF Users, UsersIn
    <2>5. k \in WholeEntries /\ CommandOf(p) # NoCommand
      BY <1>0, <1>3 DEF WholeEntries, NoCommand
    <2>6. Manager!Remove(p)
      BY <1>0, <1>1, <2>4, <2>5, MovingCommand DEF Manager!Remove, Manager!Does
    <2> QED BY <2>6 DEF Promised, Manager!ManagerNext
  <1> QED BY <1>2, <1>3

LEMMA CleanPromised ==
    ASSUME WholeDirectories, [Next]_vars, NEW p \in Procs, Moving(p),
           Unlocked(p), pc[p] \in CleanPhase
    PROVE  Promised
  <1>0. TypeOK /\ pc[p] \in Steps /\ pc[p] # "idle"
    BY MovingCommand DEF CleanPhase, UnlockedSteps, Steps
  <1>1. CASE GcRemoveEntry(p) \/ RepairRemoveEntry(p)
    <2>1. PICK k \in todo[p] :
              /\ \/ store' = [store EXCEPT ![k] = "partial"]
                 \/ UNCHANGED store
              /\ UNCHANGED installed
              /\ pc'[p] \in {"gc_ref", "gc_removed", "r_store", "r_store_removed"}
      BY <1>0, <1>1 DEF GcRemoveEntry, RepairRemoveEntry, Goto, At, TypeOK, dbVars
    <2>2. pc'[p] \in CleanPhase /\ k \in Keys
      BY <1>0, <2>1 DEF CleanPhase, UnlockedSteps, UninstallSteps, TypeOK
    <2> QED BY <1>0, <2>1, <2>2, EntryGoes, GoesOn
  <1>2. CASE GcEntryRemoved(p) \/ RepairEntryRemoved(p)
    <2>1. /\ store' = [store EXCEPT ![target[p].key] = "absent"] /\ UNCHANGED installed
          /\ pc'[p] \in {"gc_ref", "r_store"} /\ pc[p] \in {"gc_removed", "r_store_removed"}
      BY <1>0, <1>2 DEF GcEntryRemoved, RepairEntryRemoved, ItemStep, Goto, At, TypeOK, dbVars,
                        Fails, WholeDirectories
    <2>2. ReadsFit(p)
      BY DEF Moving, AtomicInv, KegsInv, SerialInv
    <2>3. pc'[p] \in CleanPhase /\ target[p].key \in Keys
      BY <2>1, <2>2 DEF CleanPhase, UnlockedSteps, UninstallSteps, ReadsFit, GcSteps
    <2> QED BY <2>1, <2>3, EntryGoes
  <1>3. CASE RepairMissing(p)
    <2>1. report[p].missing = {} /\ UNCHANGED store
      BY <1>3 DEF Moving, AtomicInv, NoneMissing, RepairMissing, diskVars
    <2> QED BY <1>3, <2>1 DEF RepairMissing
  <1>4. CASE GcDeleteRef(p) \/ FinishGc(p) \/ DoctorReadRefs(p) \/ DoctorReadDisk(p)
    <2>1. UNCHANGED <<installed, store>> /\ pc'[p] \in {"gc_next", "d_disk", "repair", "idle"}
      BY <1>0, <1>4 DEF GcDeleteRef, DeleteStoreRef, FinishGc, DoctorReadRefs, DoctorReadDisk,
                        ItemStep, Finish, Goto, TypeOK, dbVars, diskVars
    <2> QED BY <1>0, <2>1, GoesOn DEF CleanPhase, UnlockedSteps, UninstallSteps
  <1>5. CASE RepairUnlinkKeg(p) \/ RepairRemoveKeg(p) \/ RepairKegRemoved(p)
    <2>1. /\ UNCHANGED <<installed, store>>
          /\ pc'[p] \in {"r_keg", "r_keg_removed", "repair", "idle"}
      BY <1>0, <1>5 DEF RepairUnlinkKeg, RepairRemoveKeg, RepairKegRemoved, ItemStep, Finish,
                        Goto, TypeOK, dbVars, diskVars
    <2> QED BY <1>0, <2>1, GoesOn DEF CleanPhase, UnlockedSteps, UninstallSteps
  <1>6. CASE \/ RepairListInstalled(p) \/ RepairStoreRefs(p) \/ RepairLinks(p) \/ RepairPrune(p)
    <2>1. /\ UNCHANGED <<installed, store>>
          /\ pc'[p] \in {"r_refs", "r_store", "r_prune", "idle"}
      BY <1>0, <1>6 DEF RepairListInstalled, RepairStoreRefs, ReplaceStoreRefs, RepairLinks,
                        RepairPrune, PruneStaleKegFileRecords, ItemStep, Finish, Goto, TypeOK,
                        dbVars, diskVars
    <2> QED BY <1>0, <2>1, GoesOn DEF CleanPhase, UnlockedSteps, UninstallSteps
  <1>7. CASE \/ UninstallUnlink(p) \/ UninstallRecord(p)
             \/ UninstallRemoveKeg(p) \/ UninstallKegRemoved(p)
    BY <1>7 DEF UninstallUnlink, UninstallRecord, UninstallRemoveKeg, UninstallKegRemoved, At,
                CleanPhase, UninstallSteps
  <1> QED BY <1>1, <1>2, <1>3, <1>4, <1>5, <1>6, <1>7 DEF Unlocked

LEMMA StepPromised ==
    ASSUME OneBottlePerKeg, WholeDirectories, [Next]_vars, NEW p \in Procs, Moving(p),
           Start(p) \/ Acquire(p) \/ Locked(p) \/ Unlocked(p) \/ Crash(p)
    PROVE  Promised
  <1>1. ~Crash(p)
    BY DEF Crash, Fails, WholeDirectories
  <1>2. CASE Unlocked(p)
    <2>1. pc[p] \in UnlockedSteps
      BY <1>2 DEF Unlocked, UnlockedSteps, At, UninstallUnlink, UninstallRecord,
                  UninstallRemoveKeg, UninstallKegRemoved, GcRemoveEntry, GcEntryRemoved,
                  GcDeleteRef, FinishGc, DoctorReadRefs, DoctorReadDisk, RepairUnlinkKeg,
                  RepairRemoveKeg, RepairKegRemoved, RepairMissing, RepairListInstalled,
                  RepairStoreRefs, RepairRemoveEntry, RepairEntryRemoved, RepairLinks, RepairPrune
    <2>2. CASE \/ UninstallUnlink(p) \/ UninstallRecord(p)
               \/ UninstallRemoveKeg(p) \/ UninstallKegRemoved(p)
      BY <2>2, UninstallPromised
    <2>3. CASE pc[p] \in CleanPhase
      BY <1>2, <2>3, CleanPromised
    <2>4. CASE pc[p] \in UninstallSteps
      BY <1>2, <2>2, <2>4
         DEF Unlocked, UninstallSteps, At, GcRemoveEntry, GcEntryRemoved, GcDeleteRef, FinishGc,
             DoctorReadRefs, DoctorReadDisk, RepairUnlinkKeg, RepairRemoveKeg, RepairKegRemoved,
             RepairMissing, RepairListInstalled, RepairStoreRefs, RepairRemoveEntry,
             RepairEntryRemoved, RepairLinks, RepairPrune
    <2> QED BY <2>1, <2>3, <2>4 DEF CleanPhase
  <1> QED BY <1>1, <1>2, StartPromised, AcquirePromised, LockedPromised

LEMMA NoneMissingNext ==
    ASSUME NEW p \in Procs, KegsInv, Clean(p), NoneMissing,
           Start(p) \/ Acquire(p) \/ Locked(p) \/ Unlocked(p) \/ Crash(p)
    PROVE  NoneMissing'
  <1>0. TypeOK /\ report \in [Procs -> Reports] /\ NoReport.missing = {}
    BY DEF KegsInv, SerialInv, Inv, TypeOK, NoReport
  <1>1. CASE UNCHANGED report
    BY <1>1 DEF NoneMissing
  <1>2. CASE report' = [report EXCEPT ![p] = NoReport]
    BY <1>0, <1>2 DEF NoneMissing
  <1>3. CASE DoctorReadDisk(p)
    <2>1. pc[p] = "d_disk" /\ seen[p] = installed
      BY <1>3, CleanParts DEF DoctorReadDisk, At, OrphansFit
    <2>2. MissingKegs(installed) = {}
      <3>1. \A n \in Names : installed[n] # NoRow => cellar[KegOfRow(n)] # NoContent
        <4>1. \A k : [key |-> k, whole |-> TRUE] # NoContent
          BY DEF NoContent
        <4> QED BY <4>1 DEF KegsInv, RowsFit, RecordMatchesKeg
      <3> QED BY <3>1 DEF MissingKegs, KegExists, KegOfRow
    <2>3. \/ report' = [report EXCEPT ![p] = NoReport]
          \/ \E r : report' = [report EXCEPT ![p] = r] /\ r.missing = {}
      BY <1>3, <2>1, <2>2 DEF DoctorReadDisk, Finish
    <2> QED BY <1>0, <1>2, <2>3 DEF NoneMissing
  <1>4. CASE DoctorReadRefs(p) \/ RepairUnlinkKeg(p)
    <2>1. \A q \in Procs : report'[q].missing = report[q].missing
      BY <1>0, <1>4 DEF DoctorReadRefs, RepairUnlinkKeg, Reports
    <2> QED BY <2>1 DEF NoneMissing
  <1>5. CASE RepairMissing(p)
    BY <1>5 DEF RepairMissing, NoneMissing
  <1>6. CASE Start(p) \/ Acquire(p) \/ Crash(p)
    BY <1>1, <1>2, <1>6
       DEF Start, StartInstall, StartLink, StartUnlink, StartUninstall, StartGc, StartDoctor,
           Acquire, AcquireForInstall, AcquireForLink, Crash, Finish
  <1>7. CASE Locked(p)
    BY <1>1, <1>2, <1>7
       DEF Locked, Prepare, EnsureEntry, MaterializeFromRelocated, CopyRelocated, Materialize,
           CopyStoreEntry, SetTask, NextItem, FinishInstall, PostInstall, SaveRelocated, RecordItem,
           CleanupKeg, EndCleanup, LinkItem, RecordLinks, LinkInstalled, PersistLinks,
           UnlinkInstalled, ClearRows, ItemStep, ItemDone, Finish
  <1>8. CASE /\ Unlocked(p)
             /\ ~(DoctorReadDisk(p) \/ DoctorReadRefs(p) \/ RepairUnlinkKeg(p) \/ RepairMissing(p))
    BY <1>1, <1>2, <1>8
       DEF Unlocked, UninstallUnlink, UninstallRecord, UninstallRemoveKeg, UninstallKegRemoved,
           GcRemoveEntry, GcEntryRemoved, GcDeleteRef, FinishGc, RepairRemoveKeg, RepairKegRemoved,
           RepairListInstalled, RepairStoreRefs, RepairRemoveEntry, RepairEntryRemoved, RepairLinks,
           RepairPrune, ItemStep, Finish
  <1> QED BY <1>3, <1>4, <1>5, <1>6, <1>7, <1>8

LEMMA AtomicInit == Init => AtomicInv
  BY KegsInit DEF Init, AtomicInv, NoneMissing, NoReport

LEMMA AtomicNext ==
    ASSUME ~Overlap, OneBottlePerKeg, WholeDirectories, AtomicInv, [Next]_vars
    PROVE  AtomicInv' /\ Promised
  <1>0. KegsInv /\ KegsInv' /\ SerialInv /\ TypeOK
    BY KegsNext DEF AtomicInv, KegsInv, SerialInv, Inv
  <1>1. CASE UNCHANGED vars
    <2>1. UNCHANGED <<installed, cellar, store, pc, plan, target, report>>
      BY <1>1 DEF vars, dbVars, diskVars, localVars
    <2>2. UNCHANGED RunningCommands
      BY <2>1 DEF RunningCommands, CommandOf
    <2>3. UNCHANGED <<UsablePackages, WholeEntries>>
      BY <1>0, <2>1, HaveIsInstalled DEF WholeEntries
    <2> QED BY <1>0, <2>1, <2>2, <2>3 DEF AtomicInv, NoneMissing, Promised
  <1>2. ASSUME NEW p \in Procs,
               Start(p) \/ Acquire(p) \/ Locked(p) \/ Unlocked(p) \/ Crash(p)
        PROVE  AtomicInv' /\ Promised
    <2>1. \A q \in Procs \ {p} : pc'[q] = "idle" /\ pc[q] = "idle"
      BY <1>0, <1>2, OthersIdle, StepMoves DEF SerialInv, Stays, TypeOK
    <2>2. Moving(p) /\ Clean(p)
      BY <1>0, <2>1 DEF Moving, KegsInv, Alone
    <2>3. NoneMissing'
      BY <1>0, <1>2, <2>2, NoneMissingNext DEF AtomicInv
    <2> QED BY <1>0, <1>2, <2>2, <2>3, StepPromised DEF AtomicInv
  <1> QED BY <1>1, <1>2 DEF Next

\* When commands do not overlap, no two bottles share a keg directory, and no copy or
\* removal stops half way, each command is atomic to its users: packages appear and go
\* as a whole and by their own install or uninstall only, whatever fails, and the store
\* keeps the bottle of each.
THEOREM CommandsRefine ==
    ASSUME ~Overlap, OneBottlePerKeg, WholeDirectories
    PROVE  Spec => CommandsAreAtomic /\ []Manager!BottlesKept
  <1>1. Init => Manager!ManagerInit
    <2> SUFFICES ASSUME Init PROVE Manager!ManagerInit
      OBVIOUS
    <2>1. UsablePackages = [n \in Names |-> NoRow]
      BY DEF Init, DbInit, UsablePackages, Usable
    <2>2. WholeEntries = {} /\ RunningCommands = [p \in Procs |-> NoCommand]
      BY DEF Init, WholeEntries, RunningCommands, CommandOf
    <2> QED BY <2>1, <2>2 DEF Manager!ManagerInit
  <1>2. Init => AtomicInv
    BY AtomicInit
  <1>3. AtomicInv /\ [Next]_vars => AtomicInv' /\ [Manager!ManagerNext]_(Manager!managerVars)
    BY AtomicNext DEF Promised, Manager!managerVars
  <1>4. Manager!ManagerInit => Manager!BottlesKept
    BY DEF Manager!ManagerInit, Manager!BottlesKept
  <1>5. ASSUME Manager!BottlesKept, [Manager!ManagerNext]_(Manager!managerVars)
        PROVE  Manager!BottlesKept'
    <2>1. UsablePackages = [n \in Names |-> UsablePackages[n]]
      BY DEF UsablePackages
    <2> USE <1>5 DEF Manager!BottlesKept
    <2>2. CASE UNCHANGED Manager!managerVars
      BY <2>2 DEF Manager!managerVars
    <2>3. ASSUME NEW c \in Procs, UNCHANGED <<UsablePackages, WholeEntries>>
          PROVE  Manager!BottlesKept'
      BY <2>3
    <2>4. ASSUME NEW c \in Procs, Manager!Fetch(c)
          PROVE  Manager!BottlesKept'
      BY <2>4 DEF Manager!Fetch
    <2>5. ASSUME NEW c \in Procs, Manager!Install(c)
          PROVE  Manager!BottlesKept'
      <3>1. PICK i \in RunningCommands[c].items :
                /\ i.key \in WholeEntries /\ UNCHANGED WholeEntries
                /\ UsablePackages' = [UsablePackages EXCEPT ![i.name] = [version |-> i.version, key |-> i.key]]
        BY <2>5 DEF Manager!Install
      <3>2. \A n \in Names : \/ UsablePackages'[n] = UsablePackages[n]
                             \/ UsablePackages'[n] = [version |-> i.version, key |-> i.key]
        BY <2>1, <3>1
      <3> QED BY <3>1, <3>2
    <2>6. ASSUME NEW c \in Procs, Manager!Uninstall(c)
          PROVE  Manager!BottlesKept'
      <3>1. \A n \in Names : UsablePackages'[n] \in {UsablePackages[n], NoRow}
        BY <2>1, <2>6 DEF Manager!Uninstall
      <3> QED BY <2>6, <3>1 DEF Manager!Uninstall
    <2>7. ASSUME NEW c \in Procs, Manager!Remove(c)
          PROVE  Manager!BottlesKept'
      BY <2>7 DEF Manager!Remove
    <2> QED BY <2>2, <2>3, <2>4, <2>5, <2>6, <2>7, Zenon
            DEF Manager!ManagerNext, Manager!Begin, Manager!Leave, Manager!End
  <1> QED BY <1>1, <1>2, <1>3, <1>4, <1>5, PTL DEF Spec, CommandsAreAtomic, Manager!ManagerSpec
=============================================================================
