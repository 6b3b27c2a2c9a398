----------------------------- MODULE Installer -----------------------------
(***************************************************************************)
(* Processes of the zb command line that share one zerobrew root: each     *)
(* runs install, link, unlink, uninstall, gc or doctor --repair, one step  *)
(* at a time, over the package database, the store, the relocated cache,   *)
(* the cellar and the prefix links.  Any process can crash between two     *)
(* steps.  Formulas only: casks and source builds are not in this module.  *)
(*                                                                         *)
(* install, link and unlink hold locks/install.lock; uninstall, gc and     *)
(* doctor take no lock, and a plan is computed before the lock is taken.   *)
(*                                                                         *)
(* One file stands for the linkable files of a keg: the last one a copy    *)
(* writes and the first one a removal deletes, so a keg directory that is  *)
(* not whole lacks it.  Its link in the prefix has the same path in every  *)
(* version of a token.                                                     *)
(***************************************************************************)
EXTENDS PackageDb

CONSTANTS
    Procs,        \* processes
    Tokens,       \* last path component of a name: the cellar directory
    TokenOf,      \* [Names -> Tokens], formula_token
    TapNames,     \* names with a '/': never looked up in the cellar
    Items,        \* the bottles the API ever offers: [name, version, key]
    NoName,       \* stands for "no name"
    NoProc,       \* stands for "no process"
    Commands,     \* [Procs -> SUBSET CommandKinds], what each process runs
    Overlap,      \* may a command start while another process runs one?
    Faults,       \* which steps may fail, see FaultKinds
    MaxCommands   \* bound on the number of commands started

CommandKinds == {"install", "link", "unlink", "uninstall", "gc", "doctor"}
FaultKinds   == {"fetch", "copy", "remove", "post_install", "save", "db",
                 "link", "crash"}

ASSUME InstallerAssumption ==
    /\ TokenOf \in [Names -> Tokens]
    /\ TapNames \subseteq Names
    /\ \A m, n \in Names \ TapNames : TokenOf[m] = TokenOf[n] => m = n
    /\ Items \subseteq [name : Names, version : Versions, key : Keys]
    /\ NoName \notin Names
    /\ NoProc \notin Procs
    /\ Commands \in [Procs -> SUBSET CommandKinds]
    /\ Overlap \in BOOLEAN
    /\ Faults \subseteq FaultKinds
    /\ MaxCommands \in Nat

VARIABLES
    (* the disk *)
    store,        \* store/<key>: "absent", "partial" or "whole"
    relocated,    \* store-relocated/<cache key>: a content
    cellar,       \* Cellar/<token>/<version>: a content
    linked,       \* version the representative link of a token points to
    installLock,  \* holder of locks/install.lock
    (* the processes *)
    pc,           \* what each process does next
    plan,         \* the items an install has not finished yet
    task,         \* the state of an install's prepare task for each item
    doLink,       \* install: link the kegs?
    target,       \* the name, keg and store key a process is at
    todo,         \* gc, repair: store keys still to be removed
    seen,         \* doctor, repair: rows read from the database
    report,       \* doctor: what repair is going to act on
    (* bookkeeping of the model *)
    started,      \* commands started, at most MaxCommands
    repaired      \* doctor --repair runs completed since anything else ran

diskVars == <<store, relocated, cellar, linked>>
localVars == <<plan, task, doLink, target, todo, seen, report>>
bookVars == <<started, repaired>>
vars == <<dbVars, diskVars, installLock, pc, localVars, bookVars>>

Kegs == Tokens \X Versions
NoKeg == <<>>
KegOf(i) == <<TokenOf[i.name], i.version>>
KegOfRow(n) == <<TokenOf[n], installed[n].version>>

\* The relocated cache is keyed by the store key, the formula's own name
\* (its token) and the version.
CacheKey(i) == <<KegOf(i), i.key>>
CacheKeys == {CacheKey(i) : i \in Items}

\* What a keg directory or a relocated entry holds: the bottle its files come
\* from and whether all of them are there.
Contents  == [key : Keys, whole : BOOLEAN]
NoContent == [key |-> NoKey, whole |-> FALSE]
Partial(k) == [key |-> k, whole |-> FALSE]

Targets  == [name : Names \cup {NoName}, keg : Kegs \cup {NoKeg},
             key : Keys \cup {NoKey}]
NoTarget == [name |-> NoName, keg |-> NoKeg, key |-> NoKey]

Reports  == [kegs : SUBSET Kegs, missing : SUBSET Names, links : SUBSET Tokens,
             recount : BOOLEAN, prune : BOOLEAN]
NoReport == [kegs |-> {}, missing |-> {}, links |-> {},
             recount |-> FALSE, prune |-> FALSE]

NoSeen == [n \in Names |-> NoRow]

TaskStates == {"none", "fetch", "stored", "raw", "copy_cached", "copy_raw",
               "ready", "failed"}
LockedSteps == {"prepare", "post_install", "save", "record", "cleanup",
                "cleaned", "link", "rows", "link_keg", "link_rows",
                "unlink_keg", "clear_rows"}
WaitingSteps == {"wait_install", "wait_link", "wait_unlink"}
UnlockedSteps == {"u_unlink", "u_record", "u_remove", "u_removed",
                  "gc_next", "gc_removed", "gc_ref", "d_refs", "d_disk",
                  "repair", "r_keg", "r_keg_removed", "r_refs", "r_store",
                  "r_store_removed", "r_prune"}
Steps == {"idle"} \cup WaitingSteps \cup LockedSteps \cup UnlockedSteps

TypeOK ==
    /\ DbTypeOK
    /\ store \in [Keys -> {"absent", "partial", "whole"}]
    /\ relocated \in [CacheKeys -> Contents \cup {NoContent}]
    /\ cellar \in [Kegs -> Contents \cup {NoContent}]
    /\ linked \in [Tokens -> Versions \cup {NoVersion}]
    /\ installLock \in Procs \cup {NoProc}
    /\ pc \in [Procs -> Steps]
    /\ plan \in [Procs -> SUBSET Items]
    /\ task \in [Procs -> [Items -> TaskStates]]
    /\ doLink \in [Procs -> BOOLEAN]
    /\ target \in [Procs -> Targets]
    /\ todo \in [Procs -> SUBSET Keys]
    /\ seen \in [Procs -> [Names -> Rows \cup {NoRow}]]
    /\ report \in [Procs -> Reports]
    /\ started \in Nat
    /\ repaired \in 0..2

Init ==
    /\ DbInit
    /\ store = [k \in Keys |-> "absent"]
    /\ relocated = [c \in CacheKeys |-> NoContent]
    /\ cellar = [g \in Kegs |-> NoContent]
    /\ linked = [t \in Tokens |-> NoVersion]
    /\ installLock = NoProc
    /\ pc = [p \in Procs |-> "idle"]
    /\ plan = [p \in Procs |-> {}]
    /\ task = [p \in Procs |-> [i \in Items |-> "none"]]
    /\ doLink = [p \in Procs |-> FALSE]
    /\ target = [p \in Procs |-> NoTarget]
    /\ todo = [p \in Procs |-> {}]
    /\ seen = [p \in Procs |-> NoSeen]
    /\ report = [p \in Procs |-> NoReport]
    /\ started = 0
    /\ repaired = 0

-----------------------------------------------------------------------------
(* Steps of a process.                                                     *)

\* Process p goes to step s and keeps its local state.
Goto(p, s) == pc' = [pc EXCEPT ![p] = s]

At(p, s) == pc[p] = s

\* Process p ends its command: its local state is gone.
Finish(p) ==
    /\ Goto(p, "idle")
    /\ plan' = [plan EXCEPT ![p] = {}]
    /\ task' = [task EXCEPT ![p] = [i \in Items |-> "none"]]
    /\ doLink' = [doLink EXCEPT ![p] = FALSE]
    /\ target' = [target EXCEPT ![p] = NoTarget]
    /\ todo' = [todo EXCEPT ![p] = {}]
    /\ seen' = [seen EXCEPT ![p] = NoSeen]
    /\ report' = [report EXCEPT ![p] = NoReport]

\* The guard `_lock` is dropped.
Release == installLock' = NoProc

\* Process p starts a command; the model counts it.
Begin(p, c) ==
    /\ pc[p] = "idle"
    /\ c \in Commands[p]
    /\ started < MaxCommands
    /\ Overlap \/ \A q \in Procs : pc[q] = "idle"
    /\ started' = started + 1
    /\ repaired' = IF c = "doctor" THEN repaired ELSE 0

Fails(kind) == kind \in Faults

KegExists(g) == cellar[g] # NoContent

\* unlink_keg walks the keg directory: without the file it finds no link.
UnlinkKeg(g) ==
    linked' = IF cellar[g].whole /\ linked[g[1]] = g[2]
              THEN [linked EXCEPT ![g[1]] = NoVersion] ELSE linked

\* link_keg: check_conflicts finds the link of another version.
LinkConflict(g) == cellar[g].whole /\ linked[g[1]] \notin {NoVersion, g[2]}

\* remove_dir_all in two steps: the directory is partly gone, then gone.
StartRemoveKeg(g) == cellar' = [cellar EXCEPT ![g] = Partial(@.key)]
EndRemoveKeg(g)   == cellar' = [cellar EXCEPT ![g] = NoContent]

-----------------------------------------------------------------------------
(* install: the plan, the lock, the prepare tasks.                         *)

\* installed_formula_is_current: a row, its keg on disk, same version and key.
InstalledIsCurrent(i) ==
    /\ installed[i.name] = [version |-> i.version, key |-> i.key]
    /\ KegExists(KegOf(i))

\* plan_with_behavior, before the lock is taken: the packages asked for, with
\* their dependencies, that are not current.  The API offers one item a name.
StartInstall(p) ==
    /\ Begin(p, "install")
    /\ \E items \in SUBSET {i \in Items : ~InstalledIsCurrent(i)} \ {{}} :
          /\ \A i, j \in items : i.name = j.name => i = j
          /\ plan' = [plan EXCEPT ![p] = items]
    /\ \E link \in BOOLEAN : doLink' = [doLink EXCEPT ![p] = link]
    /\ Goto(p, "wait_install")
    /\ UNCHANGED <<dbVars, diskVars, installLock, task, target, todo, seen,
                   report>>

\* A plausible bug: no lock.
AcquireIgnoresHolder(p) ==
    /\ pc[p] = "wait_install"
    /\ installLock' = p
    /\ task' = [task EXCEPT ![p] =
           [i \in Items |-> IF i \in plan[p] THEN "fetch" ELSE "none"]]
    /\ Goto(p, "prepare")
    /\ UNCHANGED <<dbVars, diskVars, plan, doLink, target, todo, seen, report,
                   bookVars>>

\* execute_with_progress takes the lock and starts every download.  The plan
\* is not computed again.
AcquireForInstall(p) ==
    /\ pc[p] = "wait_install"
    /\ installLock = NoProc
    /\ installLock' = p
    /\ task' = [task EXCEPT ![p] =
           [i \in Items |-> IF i \in plan[p] THEN "fetch" ELSE "none"]]
    /\ Goto(p, "prepare")
    /\ UNCHANGED <<dbVars, diskVars, plan, doLink, target, todo, seen, report,
                   bookVars>>

Preparing(p, i, s) == pc[p] = "prepare" /\ i \in plan[p] /\ task[p][i] = s

SetTask(p, i, s) ==
    /\ task' = [task EXCEPT ![p][i] = s]
    /\ UNCHANGED <<dbVars, relocated, linked, installLock, pc, plan, doLink,
                   target, todo, seen, report, bookVars>>

\* Download and ensure_entry.  An entry that exists is taken as it is; a new
\* one appears whole (extraction to a temporary directory, then rename).
EnsureEntry(p, i) ==
    /\ Preparing(p, i, "fetch")
    /\ \/ /\ store' = [store EXCEPT ![i.key] = IF @ = "absent" THEN "whole" ELSE @]
          /\ SetTask(p, i, "stored")
       \/ /\ Fails("fetch")
          /\ SetTask(p, i, "failed")
          /\ UNCHANGED store
    /\ UNCHANGED cellar

\* The relocated cache has an entry: materialize_from_relocated takes an
\* existing keg as it is or starts copying.
MaterializeFromRelocated(p, i) ==
    LET g == KegOf(i)  entry == relocated[CacheKey(i)] IN
    /\ Preparing(p, i, "stored")
    /\ entry # NoContent
    /\ IF KegExists(g)
       THEN SetTask(p, i, "ready") /\ UNCHANGED cellar
       ELSE /\ cellar' = [cellar EXCEPT ![g] = Partial(entry.key)]
            /\ SetTask(p, i, "copy_cached")
    /\ UNCHANGED store

\* The copy of the relocated entry ends, or fails and its keg is removed.  A
\* keg directory somebody removed meanwhile is recreated with what is left
\* to copy, or the copy fails.
CopyRelocated(p, i) ==
    LET g == KegOf(i)  entry == relocated[CacheKey(i)] IN
    /\ Preparing(p, i, "copy_cached")
    /\ \/ /\ cellar' = [cellar EXCEPT ![g] = entry]
          /\ SetTask(p, i, "ready")
       \/ /\ ~KegExists(g)
          /\ cellar' = [cellar EXCEPT ![g] = Partial(entry.key)]
          /\ SetTask(p, i, "ready")
       \/ /\ Fails("copy") \/ ~KegExists(g)
          /\ EndRemoveKeg(g)
          /\ SetTask(p, i, "raw")
    /\ UNCHANGED store

\* materialize: an existing keg is taken as it is; otherwise the copy of the
\* store entry starts.  Without an entry it fails and leaves an empty keg.
Materialize(p, i) ==
    LET g == KegOf(i) IN
    /\ \/ Preparing(p, i, "stored") /\ relocated[CacheKey(i)] = NoContent
       \/ Preparing(p, i, "raw")
    /\ IF KegExists(g)
       THEN SetTask(p, i, "ready") /\ UNCHANGED cellar
       ELSE /\ cellar' = [cellar EXCEPT ![g] = Partial(i.key)]
            /\ SetTask(p, i, IF store[i.key] = "absent" THEN "failed"
                                                        ELSE "copy_raw")
    /\ UNCHANGED store

\* The copy and the placeholder patching end, or fail and leave what they
\* wrote: materialize removes nothing.
CopyStoreEntry(p, i) ==
    LET g == KegOf(i) IN
    /\ Preparing(p, i, "copy_raw")
    /\ \/ /\ store[i.key] = "whole"
          /\ cellar' = [cellar EXCEPT ![g] = [key |-> i.key, whole |-> TRUE]]
          /\ SetTask(p, i, "ready")
       \/ /\ store[i.key] = "partial" \/ ~KegExists(g)
          /\ cellar' = [cellar EXCEPT ![g] = Partial(i.key)]
          /\ SetTask(p, i, "ready")
       \/ /\ Fails("copy") \/ store[i.key] # "whole" \/ ~KegExists(g)
          /\ cellar' = [cellar EXCEPT ![g] = Partial(i.key)]
          /\ SetTask(p, i, "failed")
    /\ UNCHANGED store

Prepared(p) ==
    pc[p] = "prepare" /\ \A i \in plan[p] : task[p][i] \in {"ready", "failed"}

-----------------------------------------------------------------------------
(* install: the prepared items are finalized one after the other.          *)

\* The loop of execute_with_progress takes a prepared item.
NextItem(p) ==
    /\ Prepared(p)
    /\ \E i \in plan[p] :
          /\ task[p][i] = "ready"
          /\ target' = [target EXCEPT ![p] =
                 [name |-> i.name, keg |-> KegOf(i), key |-> i.key]]
    /\ Goto(p, "post_install")
    /\ UNCHANGED <<dbVars, diskVars, installLock, plan, task, doLink, todo,
                   seen, report, bookVars>>

\* A plausible bug: the lock outlives a failed install.
FinishInstallKeepsLock(p) ==
    /\ Prepared(p)
    /\ \A i \in plan[p] : task[p][i] = "failed"
    /\ Finish(p)
    /\ UNCHANGED <<dbVars, diskVars, installLock, bookVars>>

\* No prepared item is left: the command returns, its lock is released.
FinishInstall(p) ==
    /\ Prepared(p)
    /\ \A i \in plan[p] : task[p][i] = "failed"
    /\ Finish(p)
    /\ Release
    /\ UNCHANGED <<dbVars, diskVars, bookVars>>

\* The next step of the item, or the next item: the item is done, well or not.
ItemStep(p, s) ==
    /\ Goto(p, s)
    /\ UNCHANGED <<plan, task, doLink, target, todo, seen, report>>
ItemDone(p) ==
    /\ Goto(p, "prepare")
    /\ plan' = [plan EXCEPT ![p] = {i \in @ : i.name # target[p].name}]
    /\ task' = [task EXCEPT ![p] =
           [i \in Items |-> IF i.name = target[p].name THEN "none" ELSE @[i]]]
    /\ target' = [target EXCEPT ![p] = NoTarget]
    /\ UNCHANGED <<doLink, todo, seen, report>>

\* run_builtin_post_install; on an error the keg is cleaned up.
PostInstall(p) ==
    /\ At(p, "post_install")
    /\ \/ ItemStep(p, "save")
       \/ Fails("post_install") /\ ItemStep(p, "cleanup")
    /\ UNCHANGED <<dbVars, diskVars, installLock, bookVars>>

\* save_relocated_entry: an existing entry stays; a failure is only a warning.
SaveRelocated(p) ==
    LET g == target[p].keg  c == <<g, target[p].key>> IN
    /\ At(p, "save")
    /\ \/ relocated' = IF relocated[c] = NoContent
                       THEN [relocated EXCEPT ![c] = cellar[g]] ELSE relocated
       \/ Fails("save") /\ UNCHANGED relocated
    /\ ItemStep(p, "record")
    /\ UNCHANGED <<dbVars, store, cellar, linked, installLock, bookVars>>

\* The record_install transaction; on an error the keg is cleaned up.
RecordItem(p) ==
    LET i == target[p] IN
    /\ At(p, "record")
    /\ \/ /\ RecordInstall(i.name, i.keg[2], i.key)
          /\ IF doLink[p] THEN ItemStep(p, "link") ELSE ItemDone(p)
       \/ /\ Fails("db")
          /\ ItemStep(p, "cleanup")
          /\ UNCHANGED dbVars
    /\ UNCHANGED <<diskVars, installLock, bookVars>>

\* cleanup_materialized: remove_keg, whose failure is only a warning.
CleanupKeg(p) ==
    /\ At(p, "cleanup")
    /\ IF KegExists(target[p].keg)
       THEN StartRemoveKeg(target[p].keg) /\ ItemStep(p, "cleaned")
       ELSE UNCHANGED cellar /\ ItemDone(p)
    /\ UNCHANGED <<dbVars, store, relocated, linked, installLock, bookVars>>

EndCleanup(p) ==
    /\ At(p, "cleaned")
    /\ \/ EndRemoveKeg(target[p].keg)
       \/ Fails("remove") /\ UNCHANGED cellar
    /\ ItemDone(p)
    /\ UNCHANGED <<dbVars, store, relocated, linked, installLock, bookVars>>

\* link_keg of a finalized item; on an error its links are removed again, and
\* its row stays.
LinkItem(p) ==
    LET g == target[p].keg IN
    /\ At(p, "link")
    /\ \/ /\ ~LinkConflict(g)
          /\ IF cellar[g].whole
             THEN linked' = [linked EXCEPT ![g[1]] = g[2]] /\ ItemStep(p, "rows")
             ELSE UNCHANGED linked /\ ItemDone(p)
       \/ /\ LinkConflict(g) \/ Fails("link")
          /\ UnlinkKeg(g)
          /\ ItemDone(p)
    /\ UNCHANGED <<dbVars, store, relocated, cellar, installLock, bookVars>>

\* record_linked_files: an error is swallowed.
RecordLinks(p) ==
    /\ At(p, "rows")
    /\ \/ RecordLinkedFile(target[p].name, target[p].keg[2])
       \/ Fails("db") /\ UNCHANGED dbVars
    /\ ItemDone(p)
    /\ UNCHANGED <<diskVars, installLock, bookVars>>

-----------------------------------------------------------------------------
(* link and unlink, under the lock.                                        *)

TargetRow(p, n) ==
    target' = [target EXCEPT ![p] =
        [name |-> n, keg |-> KegOfRow(n), key |-> installed[n].key]]

StartLink(p) ==
    /\ Begin(p, "link")
    /\ \E n \in Names : target' = [target EXCEPT ![p] = [NoTarget EXCEPT !.name = n]]
    /\ Goto(p, "wait_link")
    /\ UNCHANGED <<dbVars, diskVars, installLock, plan, task, doLink, todo,
                   seen, report>>

StartUnlink(p) ==
    /\ Begin(p, "unlink")
    /\ \E n \in Names : target' = [target EXCEPT ![p] = [NoTarget EXCEPT !.name = n]]
    /\ Goto(p, "wait_unlink")
    /\ UNCHANGED <<dbVars, diskVars, installLock, plan, task, doLink, todo,
                   seen, report>>

\* link_installed and unlink_installed: the lock, then the row; without a row
\* the command ends with NotInstalled.
AcquireForLink(p) ==
    LET n == target[p].name IN
    /\ pc[p] \in {"wait_link", "wait_unlink"}
    /\ installLock = NoProc
    /\ IF installed[n] = NoRow
       THEN Finish(p) /\ UNCHANGED installLock
       ELSE /\ installLock' = p
            /\ Goto(p, IF pc[p] = "wait_link" THEN "link_keg" ELSE "unlink_keg")
            /\ TargetRow(p, n)
            /\ UNCHANGED <<plan, task, doLink, todo, seen, report>>
    /\ UNCHANGED <<dbVars, diskVars, bookVars>>

\* link_keg of link_installed.  After an error nothing is rolled back; the
\* representative file is linked last, so a failed link did not make it.
LinkInstalled(p) ==
    LET g == target[p].keg IN
    /\ At(p, "link_keg")
    /\ \/ /\ ~LinkConflict(g)
          /\ IF cellar[g].whole
             THEN linked' = [linked EXCEPT ![g[1]] = g[2]] /\ ItemStep(p, "link_rows")
             ELSE UNCHANGED linked /\ ItemStep(p, "clear_rows")
          /\ UNCHANGED installLock
       \/ /\ LinkConflict(g) \/ Fails("link")
          /\ Finish(p) /\ Release
          /\ UNCHANGED linked
    /\ UNCHANGED <<dbVars, store, relocated, cellar, bookVars>>

\* persist_linked_files: one transaction clears and records the rows; when it
\* fails the links are removed again.
PersistLinks(p) ==
    /\ At(p, "link_rows")
    /\ \/ /\ RecordLinkedFile(target[p].name, target[p].keg[2])
          /\ UNCHANGED linked
       \/ /\ Fails("db")
          /\ UnlinkKeg(target[p].keg)
          /\ UNCHANGED dbVars
    /\ Finish(p) /\ Release
    /\ UNCHANGED <<store, relocated, cellar, bookVars>>

UnlinkInstalled(p) ==
    /\ At(p, "unlink_keg")
    /\ \/ UnlinkKeg(target[p].keg) /\ ItemStep(p, "clear_rows") /\ UNCHANGED installLock
       \/ Fails("link") /\ UNCHANGED linked /\ Finish(p) /\ Release
    /\ UNCHANGED <<dbVars, store, relocated, cellar, bookVars>>

\* The rows of an unlinked keg, or of one with no file to link, are cleared.
ClearRows(p) ==
    /\ At(p, "clear_rows")
    /\ \/ ClearKegFileRecords(target[p].name)
       \/ Fails("db") /\ UNCHANGED dbVars
    /\ Finish(p) /\ Release
    /\ UNCHANGED <<diskVars, bookVars>>

-----------------------------------------------------------------------------
(* uninstall, without the lock.                                            *)

\* A cellar directory that get_installed falls back to for name n: the name
\* is no tap name, and no row has the token.
FallbackKegs(n) ==
    IF n \in TapNames \/ \E m \in Names : /\ installed[m] # NoRow
                                          /\ TokenOf[m] = TokenOf[n]
    THEN {} ELSE {g \in Kegs : g[1] = TokenOf[n] /\ KegExists(g)}

\* get_installed: the row, or else any keg of the token in the cellar.
StartUninstall(p) ==
    /\ Begin(p, "uninstall")
    /\ \E n \in Names :
          \E g \in IF installed[n] # NoRow THEN {KegOfRow(n)} ELSE FallbackKegs(n) :
             target' = [target EXCEPT ![p] = [name |-> n, keg |-> g, key |-> NoKey]]
    /\ Goto(p, "u_unlink")
    /\ UNCHANGED <<dbVars, diskVars, installLock, plan, task, doLink, todo,
                   seen, report>>

\* database_record_exists is read a second time (the key stands for it);
\* unlink_keg follows.
UninstallUnlink(p) ==
    /\ At(p, "u_unlink")
    /\ \/ /\ UnlinkKeg(target[p].keg)
          /\ target' = [target EXCEPT ![p].key = installed[target[p].name].key]
          /\ Goto(p, "u_record")
          /\ UNCHANGED <<plan, task, doLink, todo, seen, report>>
       \/ /\ Fails("link")
          /\ Finish(p)
          /\ UNCHANGED linked
    /\ UNCHANGED <<dbVars, store, relocated, cellar, installLock, bookVars>>

\* A plausible bug: the keg is removed whatever the database says.
UninstallIgnoresDbError(p) ==
    /\ At(p, "u_record")
    /\ \/ /\ IF target[p].key # NoKey
             THEN RecordUninstall(target[p].name) ELSE UNCHANGED dbVars
       \/ Fails("db") /\ UNCHANGED dbVars
    /\ ItemStep(p, "u_remove")
    /\ UNCHANGED <<diskVars, installLock, bookVars>>

\* The record_uninstall transaction, when there was a row.
UninstallRecord(p) ==
    /\ At(p, "u_record")
    /\ \/ /\ IF target[p].key # NoKey
             THEN RecordUninstall(target[p].name) ELSE UNCHANGED dbVars
          /\ ItemStep(p, "u_remove")
       \/ /\ Fails("db")
          /\ Finish(p)
          /\ UNCHANGED dbVars
    /\ UNCHANGED <<diskVars, installLock, bookVars>>

UninstallRemoveKeg(p) ==
    LET g == target[p].keg IN
    /\ At(p, "u_remove")
    /\ IF KegExists(g) THEN StartRemoveKeg(g) /\ ItemStep(p, "u_removed")
                       ELSE Finish(p) /\ UNCHANGED cellar
    /\ UNCHANGED <<dbVars, store, relocated, linked, installLock, bookVars>>

UninstallKegRemoved(p) ==
    /\ At(p, "u_removed")
    /\ \/ EndRemoveKeg(target[p].keg)
       \/ Fails("remove") /\ UNCHANGED cellar
    /\ Finish(p)
    /\ UNCHANGED <<dbVars, store, relocated, linked, installLock, bookVars>>

-----------------------------------------------------------------------------
(* gc, without the lock.                                                   *)

\* get_unreferenced_store_keys is read once, before any key is removed.
StartGc(p) ==
    /\ Begin(p, "gc")
    /\ todo' = [todo EXCEPT ![p] = UnreferencedStoreKeys]
    /\ Goto(p, "gc_next")
    /\ UNCHANGED <<dbVars, diskVars, installLock, plan, task, doLink, target,
                   seen, report>>

\* remove_entry of the next key; an entry that is gone needs no removal.
GcRemoveEntry(p) ==
    /\ At(p, "gc_next")
    /\ \E k \in todo[p] :
          /\ target' = [target EXCEPT ![p] = [NoTarget EXCEPT !.key = k]]
          /\ todo' = [todo EXCEPT ![p] = @ \ {k}]
          /\ IF store[k] = "absent"
             THEN Goto(p, "gc_ref") /\ UNCHANGED store
             ELSE /\ Goto(p, "gc_removed")
                  /\ store' = [store EXCEPT ![k] = "partial"]
    /\ UNCHANGED <<dbVars, relocated, cellar, linked, installLock, plan, task,
                   doLink, seen, report, bookVars>>

GcEntryRemoved(p) ==
    /\ At(p, "gc_removed")
    /\ \/ /\ store' = [store EXCEPT ![target[p].key] = "absent"]
          /\ ItemStep(p, "gc_ref")
       \/ /\ Fails("remove")
          /\ Finish(p)
          /\ UNCHANGED store
    /\ UNCHANGED <<dbVars, relocated, cellar, linked, installLock, bookVars>>

\* delete_store_ref of the key removed, whatever its count is now.
GcDeleteRef(p) ==
    /\ At(p, "gc_ref")
    /\ \/ /\ DeleteStoreRef(target[p].key)
          /\ ItemStep(p, "gc_next")
       \/ /\ Fails("db")
          /\ Finish(p)
          /\ UNCHANGED dbVars
    /\ UNCHANGED <<diskVars, installLock, bookVars>>

FinishGc(p) ==
    /\ At(p, "gc_next")
    /\ todo[p] = {}
    /\ Finish(p)
    /\ UNCHANGED <<dbVars, diskVars, installLock, bookVars>>

-----------------------------------------------------------------------------
(* doctor --repair, without the lock: the report is built from separate    *)
(* reads of the database and the disk, and repair acts on it afterwards.   *)

\* list_installed.
StartDoctor(p) ==
    /\ Begin(p, "doctor")
    /\ seen' = [seen EXCEPT ![p] = installed]
    /\ Goto(p, "d_refs")
    /\ UNCHANGED <<dbVars, diskVars, installLock, plan, task, doLink, target,
                   todo, report>>

\* list_store_refs: a count the rows seen do not explain makes the references
\* stale.  todo holds the keys read.
DoctorReadRefs(p) ==
    /\ At(p, "d_refs")
    /\ todo' = [todo EXCEPT ![p] = refKeys]
    /\ report' = [report EXCEPT ![p].recount =
           \E k \in refKeys : refcount[k] # Cardinality(UsersIn(seen[p], k))]
    /\ Goto(p, "d_disk")
    /\ UNCHANGED <<dbVars, diskVars, installLock, plan, task, doLink, target,
                   seen, bookVars>>

\* What doctor reports about the rows inst, the keys refs of store_refs, and
\* the disk, where `recount` says that a count is stale.
Tracked(inst)     == {TokenOf[n] : n \in {m \in Names : inst[m] # NoRow}}
OrphanKegs(inst)  == {g \in Kegs : KegExists(g) /\ g[1] \notin Tracked(inst)}
MissingKegs(inst) == {n \in Names : /\ inst[n] # NoRow
                                    /\ ~KegExists(<<TokenOf[n], inst[n].version>>)}
OrphanEntries(inst, refs) ==
    {k \in Keys : store[k] # "absent" /\ k \notin refs /\ UsersIn(inst, k) = {}}
BrokenLinks(inst) ==
    {t \in Tokens :
        /\ linked[t] # NoVersion
        /\ ~cellar[<<t, linked[t]>>].whole
        /\ \E n \in Names : /\ TokenOf[n] = t
                            /\ inst[n] # NoRow
                            /\ kegFiles[n] = inst[n].version}

\* The entries on disk, the kegs, the links and the records of keg_files.
DoctorReadDisk(p) ==
    LET inst == seen[p]
        found == [kegs    |-> OrphanKegs(inst),
                  missing |-> MissingKegs(inst),
                  links   |-> BrokenLinks(inst),
                  recount |-> \/ report[p].recount
                              \/ \E k \in todo[p] : store[k] = "absent"
                              \/ MissingKegs(inst) # {},
                  prune   |-> StaleKegFiles # {}]
        entries == OrphanEntries(inst, todo[p])
    IN
    /\ At(p, "d_disk")
    /\ IF found = NoReport /\ entries = {}
       THEN Finish(p) /\ repaired' = IF repaired = 2 THEN 2 ELSE repaired + 1
       ELSE /\ report' = [report EXCEPT ![p] = found]
            /\ todo' = [todo EXCEPT ![p] = entries]
            /\ Goto(p, "repair")
            /\ UNCHANGED <<plan, task, doLink, target, seen, repaired>>
    /\ UNCHANGED <<dbVars, diskVars, installLock, started>>

\* Orphaned kegs: unlink_keg, whose failure is ignored, then remove_keg.
RepairUnlinkKeg(p) ==
    /\ At(p, "repair")
    /\ \E g \in report[p].kegs :
          /\ UnlinkKeg(g) \/ (Fails("link") /\ UNCHANGED linked)
          /\ target' = [target EXCEPT ![p] = [NoTarget EXCEPT !.keg = g]]
          /\ report' = [report EXCEPT ![p].kegs = @ \ {g}]
    /\ Goto(p, "r_keg")
    /\ UNCHANGED <<dbVars, store, relocated, cellar, installLock, plan, task,
                   doLink, todo, seen, bookVars>>

RepairRemoveKeg(p) ==
    LET g == target[p].keg IN
    /\ At(p, "r_keg")
    /\ IF KegExists(g) THEN StartRemoveKeg(g) /\ ItemStep(p, "r_keg_removed")
                       ELSE ItemStep(p, "repair") /\ UNCHANGED cellar
    /\ UNCHANGED <<dbVars, store, relocated, linked, installLock, bookVars>>

RepairKegRemoved(p) ==
    /\ At(p, "r_keg_removed")
    /\ \/ EndRemoveKeg(target[p].keg) /\ ItemStep(p, "repair")
       \/ Fails("remove") /\ UNCHANGED cellar /\ Finish(p)
    /\ UNCHANGED <<dbVars, store, relocated, linked, installLock, bookVars>>

\* Rows whose keg is missing: one delete_installed_record transaction each.
RepairMissing(p) ==
    /\ At(p, "repair")
    /\ report[p].kegs = {}
    /\ report[p].missing # {}
    /\ \/ \E n \in report[p].missing :
             /\ DeleteInstalledRecord(n)
             /\ report' = [report EXCEPT ![p].missing = @ \ {n}]
             /\ UNCHANGED <<pc, plan, task, doLink, target, todo, seen>>
       \/ Fails("db") /\ Finish(p) /\ UNCHANGED dbVars
    /\ UNCHANGED <<diskVars, installLock, bookVars>>

\* needs_refcount_recompute: the rows are listed again, for new counts.  When
\* the query fails repair ends here.
RepairListInstalled(p) ==
    /\ At(p, "repair")
    /\ report[p].kegs = {} /\ report[p].missing = {}
    /\ \/ /\ IF report[p].recount
             THEN Goto(p, "r_refs") /\ seen' = [seen EXCEPT ![p] = installed]
             ELSE Goto(p, "r_store") /\ UNCHANGED seen
          /\ UNCHANGED <<plan, task, doLink, target, todo, report>>
       \/ report[p].recount /\ Fails("db") /\ Finish(p)
    /\ UNCHANGED <<dbVars, diskVars, installLock, bookVars>>

\* The replace_store_refs transaction, with the rows listed before it.
RepairStoreRefs(p) ==
    /\ At(p, "r_refs")
    /\ \/ ReplaceStoreRefs(seen[p]) /\ ItemStep(p, "r_store")
       \/ Fails("db") /\ UNCHANGED dbVars /\ Finish(p)
    /\ UNCHANGED <<diskVars, installLock, bookVars>>

\* remove_entry of each orphaned store entry of the report.
RepairRemoveEntry(p) ==
    /\ At(p, "r_store")
    /\ \E k \in todo[p] :
          /\ todo' = [todo EXCEPT ![p] = @ \ {k}]
          /\ IF store[k] = "absent"
             THEN UNCHANGED <<store, pc, target>>
             ELSE /\ store' = [store EXCEPT ![k] = "partial"]
                  /\ target' = [target EXCEPT ![p] = [NoTarget EXCEPT !.key = k]]
                  /\ Goto(p, "r_store_removed")
    /\ UNCHANGED <<dbVars, relocated, cellar, linked, installLock, plan, task,
                   doLink, seen, report, bookVars>>

RepairEntryRemoved(p) ==
    /\ At(p, "r_store_removed")
    /\ \/ /\ store' = [store EXCEPT ![target[p].key] = "absent"]
          /\ ItemStep(p, "r_store")
       \/ /\ Fails("remove")
          /\ Finish(p)
          /\ UNCHANGED store
    /\ UNCHANGED <<dbVars, relocated, cellar, linked, installLock, bookVars>>

\* The broken links of the report are deleted, wherever they point to now.
RepairLinks(p) ==
    /\ At(p, "r_store")
    /\ todo[p] = {}
    /\ linked' = [t \in Tokens |->
                     IF t \in report[p].links THEN NoVersion ELSE linked[t]]
    /\ ItemStep(p, "r_prune")
    /\ UNCHANGED <<dbVars, store, relocated, cellar, installLock, bookVars>>

\* prune_stale_keg_file_records, if the report counted one; repair is done.
RepairPrune(p) ==
    /\ At(p, "r_prune")
    /\ \/ /\ IF report[p].prune THEN PruneStaleKegFileRecords
                                ELSE UNCHANGED dbVars
          /\ repaired' = IF repaired = 2 THEN 2 ELSE repaired + 1
       \/ /\ report[p].prune /\ Fails("db")
          /\ UNCHANGED <<dbVars, repaired>>
    /\ Finish(p)
    /\ UNCHANGED <<diskVars, installLock, started>>

-----------------------------------------------------------------------------
(* Crashes, and the specification.                                         *)

\* The process dies between two steps: the disk and the database stay as they
\* are, the kernel drops its lock.
Crash(p) ==
    /\ Fails("crash")
    /\ pc[p] # "idle"
    /\ Finish(p)
    /\ IF installLock = p THEN Release ELSE UNCHANGED installLock
    /\ repaired' = 0
    /\ UNCHANGED <<dbVars, diskVars, started>>

Start(p) ==
    \/ StartInstall(p)
    \/ StartLink(p)
    \/ StartUnlink(p)
    \/ StartUninstall(p)
    \/ StartGc(p)
    \/ StartDoctor(p)

Acquire(p) ==
    \/ AcquireForInstall(p)
    \/ AcquireForLink(p)

Prepare(p) ==
    \E i \in Items :
        \/ EnsureEntry(p, i)
        \/ MaterializeFromRelocated(p, i)
        \/ CopyRelocated(p, i)
        \/ Materialize(p, i)
        \/ CopyStoreEntry(p, i)

Locked(p) ==
    \/ Prepare(p)
    \/ NextItem(p)
    \/ FinishInstall(p)
    \/ PostInstall(p)
    \/ SaveRelocated(p)
    \/ RecordItem(p)
    \/ CleanupKeg(p)
    \/ EndCleanup(p)
    \/ LinkItem(p)
    \/ RecordLinks(p)
    \/ LinkInstalled(p)
    \/ PersistLinks(p)
    \/ UnlinkInstalled(p)
    \/ ClearRows(p)

Unlocked(p) ==
    \/ UninstallUnlink(p)
    \/ UninstallRecord(p)
    \/ UninstallRemoveKeg(p)
    \/ UninstallKegRemoved(p)
    \/ GcRemoveEntry(p)
    \/ GcEntryRemoved(p)
    \/ GcDeleteRef(p)
    \/ FinishGc(p)
    \/ DoctorReadRefs(p)
    \/ DoctorReadDisk(p)
    \/ RepairUnlinkKeg(p)
    \/ RepairRemoveKeg(p)
    \/ RepairKegRemoved(p)
    \/ RepairMissing(p)
    \/ RepairListInstalled(p)
    \/ RepairStoreRefs(p)
    \/ RepairRemoveEntry(p)
    \/ RepairEntryRemoved(p)
    \/ RepairLinks(p)
    \/ RepairPrune(p)

Next == \E p \in Procs :
            Start(p) \/ Acquire(p) \/ Locked(p) \/ Unlocked(p) \/ Crash(p)

Spec == Init /\ [][Next]_vars

\* The operating system runs every started process; flock eventually wakes a
\* waiter of a lock that keeps being released.
Fairness == \A p \in Procs : /\ WF_vars(Locked(p) \/ Unlocked(p))
                             /\ SF_vars(Acquire(p))

LiveSpec == Spec /\ Fairness

-----------------------------------------------------------------------------
(* Properties.                                                             *)

\* The count of a store key is never below the number of installed rows that
\* use it, at any step of any command, whatever fails or crashes: the premise
\* on which gc deletes store entries.
RefsCoverInstalls == \A k \in Keys : refcount[k] >= Cardinality(Users(k))

\* A store entry starts to be removed only while its count is 0: the contract
\* of Store::remove_entry, which neither gc nor repair checks at the removal.
RemoveOnlyUnreferenced ==
    [][\A k \in Keys :
          store[k] = "whole" /\ store'[k] # "whole" => refcount[k] <= 0]_vars

\* A row of installed_kegs describes what is on disk: the keg of its version
\* is there, whole, and made of the bottle whose digest the row records.
RecordMatchesKeg ==
    \A n \in Names : installed[n] # NoRow =>
        cellar[KegOfRow(n)] = [key |-> installed[n].key, whole |-> TRUE]

\* Linking the keg of an install makes its version the linked one: a new
\* version replaces the links of the version it upgrades.
LinkingSucceeds ==
    [][\A p \in Procs : pc[p] = "link" /\ pc'[p] # "link" =>
          linked'[target[p].keg[1]] = target[p].keg[2]]_vars

\* What doctor would report now is nothing.
Healthy ==
    /\ OrphanKegs(installed) = {} /\ MissingKegs(installed) = {}
    /\ BrokenLinks(installed) = {} /\ StaleKegFiles = {}
    /\ OrphanEntries(installed, refKeys) = {}
    /\ \A k \in refKeys : /\ refcount[k] = Cardinality(Users(k))
                          /\ store[k] # "absent"

Quiet == \A p \in Procs : pc[p] = "idle"

\* Whatever failures and crashes left behind, two completed doctor --repair
\* runs with nothing in between leave nothing to report.
RepairConverges == Quiet /\ repaired = 2 => Healthy

\* Only the holder of locks/install.lock is at a step of install, link or
\* unlink, and every way out of such a step gives the lock back.
LockHeld == \A p \in Procs : pc[p] \in LockedSteps <=> installLock = p

\* A command that waits for the lock gets it and comes to its end.
WaitersFinish == \A p \in Procs : pc[p] \in WaitingSteps ~> pc[p] = "idle"

-----------------------------------------------------------------------------
(* The package manager that users see.                                     *)

\* A package is there if its row has a whole keg of its bottle.
Usable(n) == /\ installed[n] # NoRow
             /\ cellar[KegOfRow(n)] = [key |-> installed[n].key, whole |-> TRUE]
UsablePackages == [n \in Names |-> IF Usable(n) THEN installed[n] ELSE NoRow]

WholeEntries == {k \in Keys : store[k] = "whole"}

NoCommand == [op |-> "none", items |-> {}, name |-> NoName]

CommandOf(p) ==
    CASE pc[p] = "idle" -> NoCommand
      [] pc[p] \in {"wait_install", "prepare", "post_install", "save", "record",
                    "cleanup", "cleaned", "link", "rows"} ->
           [op |-> "install", items |-> plan[p], name |-> NoName]
      [] pc[p] \in {"u_unlink", "u_record", "u_remove", "u_removed"} ->
           [op |-> "uninstall", items |-> {}, name |-> target[p].name]
      [] pc[p] \in {"wait_link", "wait_unlink", "link_keg", "link_rows",
                    "unlink_keg", "clear_rows"} ->
           [op |-> "link", items |-> {}, name |-> NoName]
      [] OTHER -> [op |-> "clean", items |-> {}, name |-> NoName]

RunningCommands == [p \in Procs |-> CommandOf(p)]

Manager == INSTANCE PackageManager WITH
    Clients   <- Procs,
    Packages  <- Names,
    Bottles   <- Items,
    Nothing   <- NoRow,
    NoPackage <- NoName,
    Idle      <- NoCommand,
    have      <- UsablePackages,
    entries   <- WholeEntries,
    doing     <- RunningCommands

\* Commands that run one after the other look atomic, though each changes the
\* database, the cellar and the store in separate steps that may fail: a package
\* appears and goes at one instant, by its own install or uninstall (gc, repair,
\* link and what fails leave it alone), and gc and repair never remove its bottle.
CommandsAreAtomic == Manager!ManagerSpec
=============================================================================
