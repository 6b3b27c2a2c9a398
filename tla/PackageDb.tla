----------------------------- MODULE PackageDb -----------------------------
(***************************************************************************)
(* The SQLite package database of zb_io/src/storage/db.rs: the tables      *)
(* installed_kegs, store_refs and keg_files, and one action per committed  *)
(* transaction.  A transaction that fails or is dropped is rolled back and *)
(* is no action at all.                                                    *)
(*                                                                         *)
(* The linked files of a formula are abstracted to one representative      *)
(* path, the same in every version, so keg_files holds at most one row per *)
(* name (its primary key is the name and the linked path).                 *)
(***************************************************************************)
EXTENDS Integers, FiniteSets

CONSTANTS
    Names,        \* package names, the primary key of installed_kegs
    Versions,     \* effective versions of formulas
    Keys,         \* store keys (bottle digests)
    NoVersion,    \* stands for "no version"
    NoKey         \* stands for "no store key"

ASSUME DbAssumption ==
    /\ IsFiniteSet(Names)
    /\ NoVersion \notin Versions
    /\ NoKey \notin Keys

VARIABLES
    installed,    \* installed_kegs: name |-> [version, key], or NoRow
    refKeys,      \* the primary keys present in store_refs
    refcount,     \* store_refs.refcount, 0 where there is no row
    kegFiles      \* keg_files: name |-> version of its row, or NoVersion

dbVars == <<installed, refKeys, refcount, kegFiles>>

Rows  == [version : Versions, key : Keys]
NoRow == [version |-> NoVersion, key |-> NoKey]

DbTypeOK ==
    /\ installed \in [Names -> Rows \cup {NoRow}]
    /\ refKeys \in SUBSET Keys
    /\ refcount \in [Keys -> Int]
    /\ kegFiles \in [Names -> Versions \cup {NoVersion}]

DbInit ==
    /\ installed = [n \in Names |-> NoRow]
    /\ refKeys = {}
    /\ refcount = [k \in Keys |-> 0]
    /\ kegFiles = [n \in Names |-> NoVersion]

-----------------------------------------------------------------------------
(* Queries.                                                                *)

\* The names whose row in the table `inst` holds store key k.
UsersIn(inst, k) == {n \in Names : inst[n].key = k}

Users(k) == UsersIn(installed, k)

\* A plausible bug: < 2 for <= 0.
UnreferencedOffByOne == {k \in refKeys : refcount[k] <= 1}

\* get_unreferenced_store_keys: SELECT ... WHERE refcount <= 0.
UnreferencedStoreKeys == {k \in refKeys : refcount[k] <= 0}

\* The names count_stale_keg_file_records counts: a row of keg_files with no
\* (name, version) in installed_kegs.
StaleKegFiles ==
    {n \in Names : kegFiles[n] # NoVersion /\ installed[n].version # kegFiles[n]}

-----------------------------------------------------------------------------
(* Transactions.                                                           *)

\* Plausible bugs of the transactions, for the mutants of PROJECT.json.
RecordInstallLeaksPrevious(n, v, k) ==
    /\ installed' = [installed EXCEPT ![n] = [version |-> v, key |-> k]]
    /\ refKeys' = refKeys \cup {k}
    /\ refcount' = IF installed[n].key = k THEN refcount
                   ELSE [refcount EXCEPT ![k] = @ + 1]
    /\ UNCHANGED kegFiles

\* A plausible bug: the old key is released although it is the new one.
RecordInstallAlwaysReleases(n, v, k) ==
    LET prev == installed[n].key IN
    /\ installed' = [installed EXCEPT ![n] = [version |-> v, key |-> k]]
    /\ refKeys' = refKeys \cup {k}
    /\ refcount' = [x \in Keys |->
           refcount[x] + (IF x = k /\ prev # k THEN 1 ELSE 0)
                       - (IF x = prev /\ x \in refKeys THEN 1 ELSE 0)]
    /\ UNCHANGED kegFiles

\* record_install: the row is upserted; when its store key changes, the
\* previous key loses a reference (UPDATE: no effect without a row) and the
\* new key gains one (upsert).
RecordInstall(n, v, k) ==
    LET prev == installed[n].key IN
    /\ installed' = [installed EXCEPT ![n] = [version |-> v, key |-> k]]
    /\ IF prev = k
       THEN UNCHANGED <<refKeys, refcount>>
       ELSE /\ refKeys' = refKeys \cup {k}
            /\ refcount' = [x \in Keys |->
                   IF x = k THEN refcount[x] + 1
                   ELSE IF x = prev /\ x \in refKeys THEN refcount[x] - 1
                   ELSE refcount[x]]
    /\ UNCHANGED kegFiles

\* record_uninstall: delete the row and its keg_files, release its store key.
RecordUninstall(n) ==
    LET key == installed[n].key IN
    /\ installed' = [installed EXCEPT ![n] = NoRow]
    /\ kegFiles' = [kegFiles EXCEPT ![n] = NoVersion]
    /\ refcount' = [x \in Keys |->
           IF x = key /\ x \in refKeys THEN refcount[x] - 1 ELSE refcount[x]]
    /\ UNCHANGED refKeys

\* delete_installed_record: the row and its keg_files go, the store
\* reference stays (repair recounts the references afterwards).
DeleteInstalledRecord(n) ==
    /\ installed' = [installed EXCEPT ![n] = NoRow]
    /\ kegFiles' = [kegFiles EXCEPT ![n] = NoVersion]
    /\ UNCHANGED <<refKeys, refcount>>

\* A plausible bug: the columns change places.
RecordLinkedFileSwapsColumns(n, v) ==
    /\ kegFiles' = [kegFiles EXCEPT ![n] = n]
    /\ UNCHANGED <<installed, refKeys, refcount>>

\* record_linked_file: INSERT OR REPLACE of the representative path.
RecordLinkedFile(n, v) ==
    /\ kegFiles' = [kegFiles EXCEPT ![n] = v]
    /\ UNCHANGED <<installed, refKeys, refcount>>

ClearKegFileRecords(n) ==
    /\ kegFiles' = [kegFiles EXCEPT ![n] = NoVersion]
    /\ UNCHANGED <<installed, refKeys, refcount>>

\* delete_store_ref: an unconditional DELETE, whatever the count is now.
DeleteStoreRef(k) ==
    /\ refKeys' = refKeys \ {k}
    /\ refcount' = [refcount EXCEPT ![k] = 0]
    /\ UNCHANGED <<installed, kegFiles>>

\* A plausible bug: keys without packages keep their rows.
ReplaceStoreRefsUpserts(inst) ==
    LET used == {k \in Keys : UsersIn(inst, k) # {}} IN
    /\ refKeys' = refKeys \cup used
    /\ refcount' = [k \in Keys |->
           IF k \in used THEN Cardinality(UsersIn(inst, k)) ELSE refcount[k]]
    /\ UNCHANGED <<installed, kegFiles>>

\* replace_store_refs with the counts repair derives from a list of
\* installed rows: keys without a user lose their row.
ReplaceStoreRefs(inst) ==
    /\ refKeys' = {k \in Keys : UsersIn(inst, k) # {}}
    /\ refcount' = [k \in Keys |-> Cardinality(UsersIn(inst, k))]
    /\ UNCHANGED <<installed, kegFiles>>

PruneStaleKegFileRecords ==
    /\ kegFiles' = [n \in Names |->
                       IF n \in StaleKegFiles THEN NoVersion ELSE kegFiles[n]]
    /\ UNCHANGED <<installed, refKeys, refcount>>

-----------------------------------------------------------------------------
(* The database alone: its transactions in any order, where a reference is *)
(* deleted in the same step that found it unreferenced and a recount uses  *)
(* the rows of that step.  The interleavings that separate the two are in  *)
(* module Installer.                                                       *)

DbNext ==
    \/ \E n \in Names, v \in Versions, k \in Keys : RecordInstall(n, v, k)
    \/ \E n \in Names : RecordUninstall(n)
    \/ \E n \in Names :
          installed[n] # NoRow /\ RecordLinkedFile(n, installed[n].version)
    \/ \E n \in Names : ClearKegFileRecords(n)
    \/ \E k \in UnreferencedStoreKeys : DeleteStoreRef(k)
    \/ ReplaceStoreRefs(installed)
    \/ PruneStaleKegFileRecords

DbSpec == DbInit /\ [][DbNext]_dbVars

\* Every store key is counted exactly as often as installed rows use it: the
\* upsert of record_install, with its two reference updates, and
\* record_uninstall never leak and never lose a reference.
RefsExact == \A k \in Keys : refcount[k] = Cardinality(Users(k))

\* A key in use has its row in store_refs, and a key without a row counts 0:
\* an UPDATE of the transactions always finds the row it means to change.
UsedKeysHaveRows ==
    \A k \in Keys : k \notin refKeys => Users(k) = {} /\ refcount[k] = 0

=============================================================================
