# A verification of zerobrew

zerobrew is a package manager in the manner of Homebrew. It downloads bottles (built
packages), unpacks each into a content-addressed *store*, copies it to a *keg* in the
cellar, records the installation in SQLite, and links the files of the keg into the
prefix. This directory holds TLA+ models of that program, the TLC runs that check them
on small instances, and TLAPS proofs of the properties that matter most.

## The system

| Component | State | Operations | What makes it correct |
|---|---|---|---|
| package database, `storage/db.rs` | tables `installed_kegs`, `store_refs`, `keg_files` | `record_install`, `record_uninstall`, `record_linked_file`, `replace_store_refs`, ... | a store key is counted as often as rows use it |
| store, `storage/store.rs` | `store/<key>`, `store-relocated/<cache key>`, one lock file a key | `ensure_entry`, `save_relocated_entry`, `remove_entry` | an entry appears whole, and goes only when its count is 0 |
| cellar, `cellar/materialize.rs`, `fs_copy.rs` | `Cellar/<token>/<version>` | `materialize`, `materialize_from_relocated`, `remove_keg` | a recorded keg is there, whole, from the bottle recorded |
| linker, `cellar/link.rs` | symlinks in the prefix | `check_conflicts`, `link_keg`, `unlink_keg`, opt links | never overwrites another keg's link; undoes what it did |
| installer, `installer/install/*` | `locks/install.lock`, the plan of a command | install, link, unlink, uninstall, gc, doctor, repair | commands leave disk and database in agreement, also after failures |
| source builds, `install/source.rs`, `build/*` | a backup of the previous keg | `install_from_source` | a failed build brings the old keg back |
| casks, `install/bottle.rs`, `installer/cask.rs` | staged and moved artifacts | install, rollback, uninstall | a failed install removes what it made and nothing else |
| downloads, `network/download/*`, `storage/blob.rs` | blob cache, token cache, in-flight map | racing, chunks, deduplication, token refresh | only a verified blob is committed; every request ends |
| API client, `network/api.rs`, `cache.rs` | cached bodies with their ETags | conditional requests | a body that cannot be parsed is not served forever |
| resolution, `zb_core/src/formula/*` | none | closure, order, bottle choice | dependencies first, each once, cycles refused |
| taps, `network/tap_formula.rs`, `tap_cask.rs` | none | reading Ruby text line by line | what is read is what Ruby would make of it here |
| relocation, `cellar/materialize.rs`, `extraction/patch/*` | files of a fresh keg | parallel patchers, temporary files | an answer that is no error means each file is patched |
| command line, `zb_cli/*` | none of its own | one installer call or a loop over packages | a failure of one package does not lose another |
| init and reset, `init.rs`, `commands/reset.rs` | a managed block in the shell's configuration | insert, replace, remove the directories | the user's lines stay, the last settings win |

A command is one process. Processes share the directories and the database and nothing
else; they meet at `locks/install.lock` (install, link, unlink), at the lock files of
the store, and in SQLite transactions. Inside an install, one tokio task per bottle
downloads, unpacks and copies; the items are then finalized one after the other.

What is hard here: `uninstall`, `gc` and `doctor --repair` take no install lock; an
install computes its plan before it has the lock; a directory that exists is taken as
finished, whoever is still writing or removing it; `repair` acts on a report built
before; any process can die between two steps; and each error path has its own cleanup.
`PROJECT.json` lists these hazards at their lines.

## Modules

| Module | Models |
|---|---|
| `PackageDb` | `storage/db.rs`: the three tables and one action per committed transaction |
| `DbOpen` | opening the database: several processes migrate its schema at once |
| `StoreLock` | `storage/store.rs`: entries, lock files as inodes, temporary directories, renames |
| `AtomicStore` | what the store promises: a set of entries, each call at one instant. `StoreLock` implements it |
| `Installer` | install, link, unlink, uninstall, gc and doctor --repair as processes over `PackageDb`, the store, the relocated cache, the cellar, the links and the lock; it extends `PackageDb`, whose transactions are conjuncts of its actions |
| `PackageManager` | what the installer promises while commands do not overlap: packages that are there or not, each change of them at one instant. `Installer` implements it |
| `Plan` | from the names of a request to the packages to install, in order |
| `Linker` | `cellar/link.rs`: trees of files, directories taken apart and merged, opt links |
| `Relocate` | the patchers that run in parallel over a copied keg |
| `SourceBuild` | `install/source.rs`: backup, build, restore, row, links |
| `CaskInstall` | staging, moving and linking a cask's artifacts, the guard, uninstall |
| `CaskDeps` | casks that depend on casks and formulas |
| `CaskDocument` | `installer/cask.rs`: a cask's JSON into what is staged |
| `Download` | the downloads of one install: deduplication, chunked attempts, racing connections, permits, blob cache, unpacking with its retries |
| `ChunkedFile` | one chunked download: ranges, writes at offsets, the ordered hash |
| `TokenCache` | `network/download/auth.rs`: tokens and the retries around them |
| `ApiClient` | conditional requests of two processes over one cache, aliases, Ruby files |
| `FormulaIndex` | the bulk index: aliases, search, suggestions |
| `TapLookup` | where the file of a tap is looked for |
| `TapSource` | the readers of Ruby text, against what Ruby would collect |
| `Commands` | the commands that go through several packages, migrate included |
| `ShellInit` | init, the initialization other commands make up for, reset |
| `MCStorage`, `MCInstaller`, `MCDownload`, `MCNetwork`, `MCPackages`, `MCCommands` | instances for TLC |
| `StoreLock_proofs`, `Installer_proofs`, `Download_proofs`, `Network_proofs`, `Packages_proofs`, `TapText_proofs`, `TapSource_proofs`, `Commands_proofs` | theorems and their proofs |

Components that meet in the code are composed where their interleavings matter:
`Installer` is the composition of the database, the store, the caches, the cellar, the
links and the lock. The others each stand for themselves and share no variable, so that
a product of them would only multiply states. `MCStorage`, `MCNetwork`, `MCPackages` and
`MCCommands` are therefore *sums*: `active` chooses one component at the start, which
takes all steps, while the others rest in an initial state.

### PackageDb

`installed[n]` is the row of name `n` (its version and store key) or `NoRow`. `refKeys`
holds the primary keys of `store_refs` and `refcount` their counts; the two are separate
because a row with count 0 is different from no row: gc finds only the first.
`kegFiles[n]` is the version of the row of `keg_files` for one representative path. A
transaction that fails is rolled back by SQLite and is no action.

### Installer

`pc[p]` names the next step of process `p`, and every action is one step of one command:
a transaction, a rename, the start or the end of a copy or of a recursive removal.
Copies and removals have two steps because another process, or the next command after a
crash, can find the directory in between. A keg is `[key, whole]`: the bottle its files
come from, and whether all are there.

One file stands for the linkable files of a keg: the last one a copy writes and the
first one a removal deletes. That choice makes a torn keg lack the file, which is the
case the code does not look for. Its link has the same path in every version of a token,
as `bin/<tool>` has.

Local variables hold what a command has read and will still use: the plan, the tasks of
an install (`task[p][i]`), the item it is at (`target`), the keys gc still has to remove
(`todo`), the rows doctor listed (`seen`) and its report (`report`). Each action reads
the shared state only where the code does.

`Faults` says which kinds of step may fail: `fetch` (download, extraction, the store's
lock), `copy`, `remove`, `post_install`, `save` (the relocated cache), `db`, `link`,
`crash`. A failing step follows the code's error path, including the warnings the code
swallows. `Crash` ends a process between any two steps; the kernel drops its lock.

Names are database keys and tokens are cellar directories (`foo` and `user/tap/foo`
share one). Only names without a slash fall back to the cellar.

What the module abstracts: retries after a corrupt download are part of `fetch`; the API
may offer any bottle of `Items` at any time, older ones included; doctor's reads of the
disk are one step; the order in which items are finalized and keys are collected is
free; opt links, aliases and directories are `Linker`'s. A prepare task that panics is
not modelled: the model lets every task end before the items are finalized, as the code
does unless a task panics.

At the end of the module stands what users see of all this. `PackageManager` is the
abstract specification: which packages there are (`have`), the bottles in the store
(`entries`) and the command each client runs (`doing`). Of `Installer`, a package is
there if its row has a whole keg of its bottle; what is half copied, half removed,
linked or only counted is not seen. An install is there at the step that writes its row,
an uninstall at the step that deletes it; fetching, cleaning up, linking, recounting and
all failures before and after are stutters or the end of a command.

### Download

`pc[r]` is the place of item `r`: it joins the in-flight map as leader or follower of
its digest, and a leader verifies the cached blob, probes the server, tries every URL in
chunks, then races connections, publishes its answer to the followers, and unpacks.
`conn[s]` and `chunk[s]` are the tokio tasks of the leader of digest `s`, one action for
what a task does between two awaits; `gate[s]` is `body_download_gate`, `permits` the
tasks that hold a permit of the global semaphore. `blob[s]` says whether the file is
there and has the right digest; damaged files can only be left over from earlier runs,
since a digest is compared before a file gets its name. A damaged file is `vouched` when
its verified marker has its size and time (`blob.rs:48-60`): such a file is taken
unread, until an extraction discards it. An extraction that fails is followed by the
removal of the blob as a step of its own: another item may have been given a new blob by
then.

A chunk whose request fails aborts the others of its attempt. A chunk whose bytes cannot
be written here does not (`chunked.rs:332-350`): the tasks that are left go on as
`stray[s]`, wait for permits and hold them, and what they bring goes nowhere, while the
leader goes on to the next URL or to the race.

`Faults` are `http` (a request fails for good, its retries included), `body` (a body
breaks off or has the wrong digest), `disk` (a chunk cannot be written) and `unpack`.
Aborted tasks are gone at once; a digest has the strays of one attempt at a time (a
bound: a local write fails only when those before have ended); the stagger of the
connections is an arbitrary delay; what chunks hold is `ChunkedFile`'s, tokens
`TokenCache`'s; panics are left out; one process is modelled. `Installer` sees all of
this as the fault `fetch` of `EnsureEntry`.

### DbOpen

`openers[p]` is the place of process `p` in `Database::open` and `migrate`: it has read
`user_version`, creates the tables of the next version one at a time, or sets the
version. No transaction spans these, so each is an action, and `CloseDb` may come
between any two. Programs may support different versions; only the tables of version 1
exist today, a second version stands for the next release.

### StoreLock and AtomicStore

A worker's `job` is a call of `ensure_entry`, `save_relocated_entry`,
`persist_temp_store_entry` (op `raw`), `remove_entry` or repair's removal of what
`list_entries` shows (op `sweep`); `at` is its next step. A lock is an inode:
`lockFile[k]` is the one that has the name now, `fd[w]` the one a worker has open,
`flock[i]` who holds it; they come apart when `remove_entry` deletes the file while
others wait for it. `entry[k]` is `part` while a removal is at work, and `tmp[w]` is the
worker's temporary directory, which repair can take away or tear. Faults: taking the
lock, filling, removing, a crash. An entry that repair has torn in its temporary state
is excepted (`swept`).

`Atomic` maps this to `AtomicStore`: `held` are the entries that have a directory,
`call` the calls under way, `answer` how the last one ended.

### Plan

`plan_with_behavior`: formulas are fetched batch by batch, a bottle or a source build is
chosen, the closure ordered, what is current left out. Formulas are numbers in the order
of their names, as the order breaks ties; a document is its dependencies (`deps`), what
macOS brings along (`macos`), its tags, whether it has a source and whether its digest
is written oddly (`odd`); `rowOf[f]` is its row and whether its keg exists. Batches and
closure follow `deps` alone (`plan.rs:113`, `resolve.rs:37, 101, 117`); only
`zb missing` adds `macos`, off macOS (`mod.rs:540-547`). The plan compares digests
trimmed and in lower case (`plan.rs:174-178`), `zb outdated` as they are written
(`outdated.rs:32, 106`), so that an odd one is outdated for ever. A row counts as
current only with its keg (`plan.rs:164`). Versions, names and bodies are left out.

### Linker

`entry[e]` is what the prefix has at an entry of `bin`, `lib` and so on (nothing, a file
of the user, a link of a keg, a directory) and `inside[e]` what is in a directory; two
levels are the least at which a directory link is taken apart. Linking is the scan for
conflicts, then `LinkEntry` one at a time, in any order; `KillLink` may come between
two. The user adds files between commands, and Homebrew may link whole directories.

### Relocate

A patcher is a rayon task of one file: chmod, read, create the temporary file, write,
rename, restore the mode; texts are written in place. `inodeOf` and `content` separate
names from inodes, since hard links and shared temporary names make them differ.
`Faults`: chmod, read, write and the tools that are called. What the patches write is
left out: `paths` (in its data) and `loads` (libraries, runpath, interpreter) of a file
are patched or not. They are not, and the answer is Ok, where data would have to grow:
the paths of `layout.short` are shorter than the new prefix, so that macOS passes them
over (`macos.rs:155-163`); Linux never patches data; and it drops the errors of
`set_runpath` and `set_interpreter` (`linux.rs:239, 264`, the fault `elf`).

### SourceBuild

One formula: `built[v]` are kegs, `backups[v]` directories the code moved aside, which
lie in the cellar under the same token. Bottles, uninstalls and repairs come between
builds. The build itself succeeds or fails; what `build/*` prepares for it is part of
`GetSources` and `Compile`.

### CaskInstall, CaskDeps, CaskDocument

`CaskInstall`: `staged[a]` is an artifact in the keg (its content, or the symlink left
when it was moved), `path[p]` what is at a place of the user. Each staging, move, link,
removal is a step, any may fail, and the guard undoes them as the code does. A cask has
a keg only when something was staged into it. No lock is taken by the code; casks are
installed by one process at a time here. `CaskDeps`: the nested calls and the stack of
tokens that stops them. `CaskDocument`: a document is the shapes of its artifacts and
dependencies and the fields that variations change; strings are left out. Installers are
staged only with the whole tree, which `stage_only` copies.

### ChunkedFile, TokenCache, TapLookup, FormulaIndex

`ChunkedFile`: a unit is `MIN_CHUNK_SIZE` bytes; `unspawned`, `fetching` and `buffered`
are the queues of `download_with_chunks`. `TokenCache`: `fetch[f]` is one request with
its rounds; tokens are numbered, and age by an action: first for the cache, later for
the server, which keeps it longer. `TapLookup`: the requests two ahead on each branch,
answers in any order. `FormulaIndex`: words with the edit distance given as a table.

### ApiClient

A document is its version; a row of the cache is a body with the tag it came with. A
call reads the row, asks, and stores; between these the server publishes, the other
process writes, a proxy garbles bodies, or the cache cannot be written.
`request[c].during` is the history of what was true of a document since the call began.

### TapSource

A text is built line by line together with its `meaning`, what Ruby would collect on
this machine; then `ReadTap` applies the code's passes (blocks of other platforms,
branches, depth counting) to the lines. A line is the word it starts with and whether
its condition holds here. An open block is known by the number of its first line. The
passes are recursive functions on the number of lines that are left to read, so that
they can be proved about.

### Commands

`recorded[p]` and `keg[p]` are the row and directories of a package in two versions, now
and next. One step is one package: it does what the installer does for it as a whole,
successfully or as a failed step leaves it: a package whose links fail is recorded and
an error all the same (`mod.rs:359-362, 388`). What is modelled are the loops: which go on
after an error, what counts as installed (`get_installed`, also a directory without a
row), and migrate's conversation with `brew`.

### ShellInit

A configuration file is a sequence of lines: lines of the user, the two markers,
settings. `Upsert` is `upsert_managed_block`. Between commands the user adds and deletes
lines, and a file may stop being text. Directories have an owner and no content.

## Runs

| Run | Question | Bounds | States |
|---|---|---|---|
| `storage` | are the counts exact after any sequence of transactions, and is the store atomic? | 3 names, 2 versions, 2 keys, no bound on the sequence; 2 workers, 1 entry of each kind, every fault | 198,765 |
| `serial_crash` | do counts cover uses, and is only what is unreferenced removed, whatever fails? | 1 process, 3 commands, every fault; 2 formulas sharing a bottle, 1 rebuilt | 598,096 |
| `serial_clean` | does every row describe its keg, and is every command atomic, when only recoverable faults happen? | 1 process, 4 commands, faults post_install, save, db, link; 2 formulas, 3 bottles | 182,885 |
| `repair_converges` | do two repairs heal what crashes left? | 1 process, 6 commands, crashes and post-install failures; 1 formula, 3 bottles | 1,354,381 |
| `concurrent_install` | does the install lock do its work, and does every waiter finish? | 2 processes, 3 commands of any kind, every fault; 1 bottle | 67,776 |
| `download` | is each digest downloaded once at a time, nothing damaged handed out, and does every item end? | 2 items, 1 digest, 3 connections (1 mirror), 3 chunks two at a time, 2 permits, 2 tries, every fault | 1,058,206 |
| `network` | are answers right in whatever order they come, and does every request end? | 2 token users of 1 scope, 2 API clients, 3 names, 2 versions, files of 1 to 12 units, 2 branches of 3 paths, 4 words, every fault | 283,532 |
| `packages` | what do failures, crashes and users leave of casks, builds, links, relocated files, the schema? | 2 casks with 5 artifacts, 3 kegs over 2 entries of 2 files, 2 source versions, 6 files on both platforms, 5 cask names, 3 openers, every fault | 1,045,532 |
| `commands` | plans, loops over packages, shell configuration, texts | 3 formulas with all dependency graphs listed in `MDocs`; 3 packages of each kind; 2 files of 3 lines; texts of 8 lines; every shape of a cask | 1,907,153 |
| `gc_races_install` | *violated*: gc removes a referenced entry | 2 processes, no fault | |
| `stale_plan` | *violated*: a recorded keg is cleaned up | 2 installs, fault db | |
| `upgrade_linked` | *violated*: an upgrade links the new version | 2 installs, no fault | |

Why the bounds are enough. Two names that share a key are the least at which a count
exceeds 1, and two keys the least at which a row changes its key. Three commands in
`serial_crash` are install, install or uninstall, then gc or repair: every chain in
which one command prepares what the next meets. Six commands in `repair_converges` are
three that do damage, one uninstall or gc, and two repairs. Three commands of two
processes are two that overlap and one that waits or comes after.

Two workers on one entry of the store are a holder and a waiter, or one on a deleted
lock file and one on its successor; `StoreLock_proofs` covers any number. Two requests
are the least that fetch tokens at once. Two clients are the least where a row changes
between reading and using it. Files of 12 units with chunks of 2 or 3 have more chunks
than tasks, a last short one, and sizes at each clamp. Three kegs have two versions that
share all files and a third that shares one directory. Six files contain two names of
one temporary file and two of one inode. Three formulas make a circle and a diamond's
shared half. Eight lines hold a class, a block in it, a branch and a stanza in each.

Two items are the least that have a leader and a follower and that can discard each
other's blob; three connections leave one waiting while one is woken; two permits for
three chunks, or for two and the strays of the attempt before, make tasks queue, and
would let two connections read at once. Files that compete
for permits need two digests, which the run does not have; `PermitsHeldByReaders` is
proved for any number.

Deadlock is checked in `storage`. The other runs end by design: commands, requests and
builds are finite, and that calls end is a liveness property of its own.

The properties, each with the code it is about:

- `RefsExact`, `UsedKeysHaveRows` (`db.rs:321-420`): each count is the number of rows
  that use the key; the updates never miss their row.
- `LockExcludes`, `StoreIsAtomic`, `StoreCallsEnd` (`store.rs`): two workers are inside
  the lock of one key only when one has a lock file that lost its name; even then calls
  take effect at one instant, entries appear whole, and every call ends.
- `RefsCoverInstalls`: counts never fall below the uses, at every step of every command.
  Equality does not hold there: repair deletes rows before it recounts.
- `RemoveOnlyUnreferenced`: the contract of `Store::remove_entry`. It holds when
  commands do not overlap and fails when they do (`gc_races_install`).
- `RecordMatchesKeg`: a row describes a whole keg of the bottle it names. It holds in
  `serial_clean`, whose bottles differ by version. It fails when a second install with a
  stale plan fails (`stale_plan`). With torn copies or crashes it is not promised: a
  directory that exists is taken as a keg.
- `CommandsAreAtomic` (`bottle.rs`, `uninstall.rs`, `doctor.rs`): `Installer` implements
  `PackageManager`. A package appears by an install that set out for it and goes by its
  own uninstall, whatever steps of these or of other commands fail; gc and repair never
  remove the bottle of a package.
- `RepairConverges`: after two completed repairs doctor has nothing to report.
- `LockHeld`, `WaitersFinish`: the lock is held exactly during locked steps; every early
  return and error gives it back; every waiter finishes.
- `MapMatchesLeaders` (`parallel.rs:128-173`): the in-flight map names exactly the
  requests that download; a follower without an answer has a leader.
- `OneDownloadPerDigest` (`single.rs:323-351`): one writer a digest, over leaders,
  chunks and connections.
- `PermitsHeldByReaders`: failed, aborted, forgotten and finished tasks leave no permit
  behind.
- `GoodAnswers` (`blob.rs:42-77`): an answer is about a blob with the right digest, or a
  damaged one that its marker vouches for, unless another item with the digest discarded
  it since.
- `EveryItemEnds`: no follower, connection or chunk waits forever.
- `OnlyFaultsFail` (`auth.rs`): a request fails only after a fault; tokens that age or
  are fetched twice cost a round and no more.
- `ChunksAreExact` (`chunked.rs:70-398`): the hash follows the file in whatever order
  chunks arrive; each unit is hashed, buffered, fetched or waiting, exactly once; what
  is committed is the file.
- `LookUpsAreRight` (`api.rs`, `suggest.rs`): a tap's file is the first there is in the
  order of the places, but for places whose request failed; a name that is suggested can
  be installed and found.
- `CachedAnswersHold` (`api.rs`, `cache.rs`): a formula returned was the server's during
  the call; a garbled row heals, unless it came with a date and no tag; a Ruby file that
  is kept has the checksum wanted.
- `CallsEnd`: the rounds of tokens and chunk retries, the API calls, the chunk loop and
  the search of a tap end.
- `OpenDatabasesAreWhole` (`db.rs:34-125`): no interleaving or crash of migrations
  leaves a version that promises a table that is missing.
- `LinksAreKept` (`link.rs`): linking or unlinking one keg keeps the user's files and
  all that other kegs show, and leaves no link to a keg that is gone, but for aliases in
  `opt/`.
- `RelocationIsComplete`: no error means each file is patched as far as its patcher can,
  with its own bytes and mode: all of it on macOS unless data would grow, libraries only
  on Linux. Excepted, as the code has it: runpaths and interpreters whose errors are
  dropped, names that share a temporary file, hard-linked binaries on Linux, modes of
  static binaries there.
- `RecordedBuildSurvives` (`source.rs`): what was recorded is in the cellar or in a
  whole backup, whatever step of a rebuild fails or dies; excepted are a database
  failure after the build and a repair that takes the backup of a dead build.
- `UserFilesSurvive`, `CasksAreWholeOrGone`, `DependenciesFirst` (`bottle.rs`,
  `cask.rs`): without `--force` no file of the user is replaced; a cask is there with
  all it has or gone; dependencies come first and circles leave no row.
- `PlanIsSound` (`plan.rs`, `resolve.rs`): nothing twice, dependencies before their
  users, and what is then installed is what `zb missing` and `zb outdated` expect,
  though they compare other things: but for what macOS would bring along, which is
  missing to the one, and odd digests, which are outdated to the other.
- `FailuresLoseOneAtMost`, `MigrationKeepsPackages` (`commands/*.rs`): see the theorems
  below.
- `ManagedBlockIsKept` (`init.rs`): over any inits, resets and edits the user's lines
  stay and the last settings win.
- `TextsAreReadRight` (`tap_formula.rs`, `tap_cask.rs`, `installer/cask.rs`): what is
  read from a text is what Ruby would make of it, and a cask has what its document
  lists, installers only with `stage_only`. Excepted: loops with `do`, some
  here-documents and nested versions; the second string of a list.
- the `TypeOK` invariants: that of the database is a part of `Installer`'s, that of a
  sum is all of its components'.

### Fairness

`download`: weak fairness of the whole next-state relation; the runtime runs some ready
task whenever there is one, and timeouts (`single.rs:113-121`) end requests.
`concurrent_install` (`LiveSpec`): weak fairness of the locked and unlocked steps of
each process, since the operating system runs it and no step waits for another process
except for the lock; strong fairness of taking the lock, since `flock` queues its
waiters and wakes one when the lock is released. `storage`: the same for the calls and
locks of each worker. `network`: weak fairness of each request and client, and of the
chunk and tap loops, which are one task each; retries are bounded by the code, and
publications by `MaxVersion`. Commands and calls need not start, and crashes and faults
need not stop.

## Findings

The three violated runs are disagreements between the code and what its comments, tests
or messages say; `PROJECT.json` quotes the lines. In short: gc can remove a store entry
that an install has just recorded; two installs that planned before the lock can end
with a row whose keg was removed; and upgrading a linked formula ends in a link conflict
with its own old version.

Other behaviour the models show, for which the properties make their exceptions: off
macOS `zb missing` asks for what macOS would bring along, which no plan fetches, also
after `zb install --only-dependencies`; a digest that is written oddly is outdated for
ever; the installer script of a cask without `stage_only` is not in the keg when it is
to be run; a damaged blob whose marker has its size and time is unpacked; binaries with
paths shorter than the new prefix keep them on macOS; one `doctor --repair` is not
always enough after an uninstall or a gc that was killed, since recounting drops keys
with count 0; a bottle that is rebuilt for one version is recorded but not installed;
after a `brew uninstall` that failed, a formula of a tap is reported as gone; a
directory without a row counts as migrated; a binary with hard links is left unpatched
on Linux; where the prefix has a link to another keg's *file* and the new keg a
*directory*, `check_conflicts` sees no conflict (`link.rs:152-164` takes every link in
its way for one to a directory), and `link_recursive` removes the link and fails, with
other entries linked already. The kegs of `packages` have no such path; `LinksCorrect`
names the hypothesis.

## Proofs

All theorems hold for any values of the constants that the modules' `ASSUME`s allow; TLC
evaluates these in every run. Where a theorem needs more than that, its hypothesis is a
definition of its own, named below with the reason. Each inductive invariant was checked
with TLC on the instances of the runs before it was proved (that of the texts with a few
texts in place of all that may follow).

`StoreLock_proofs` proves the types, `StoreLockSpec => []LockExcludes` and
`StoreLockSpec => StoreIsAtomic`: every step of `StoreLock` is a step of `AtomicStore`
under the mapping, or leaves it as it is, and entries appear whole. The invariant
(`LockInv`) says which call a worker is at which step of (`CallFits`), that a worker
past the lock holds the inode it has open (`LockFits`), and which temporary directory it
has when (`TmpFits`).

`Installer_proofs` first proves about `PackageDb`, for all finite sets of names and any
versions and keys, `DbSpec => []DbTypeOK` and `DbSpec => [](RefsExact /\
UsedKeysHaveRows)`. The argument is one lemma per transaction on how
`Cardinality(Users(k))` changes when the row of one name changes. Both conjuncts are
needed together: a decrement that finds no row would make the count wrong later.

Of `Installer` it proves `Spec => []TypeOK`, `Spec => []LockHeld` and mutual exclusion
for any number of processes, bottles and commands and any faults. The inductive
invariant is `TypeOK /\ LockHeld /\ TargetOK`, where `TargetOK` says that the keg, key
and name in `target` are there at the steps that use them.

The rest of `Installer_proofs` are five results under `~Overlap`, the assumption that
one command ends before another starts. All rest on `SerialInv`, which adds to the
invariant above: at most one process is busy (`AtMostOne`), counts cover uses and keys
in use have rows (`Covered`), and what gc or doctor has read is still true where it is
used (`ReadsFit`: keys to be removed are unreferenced, and the rows repair counts are
the rows there are).

- `Spec => []RefsCoverInstalls` and `Spec => RemoveOnlyUnreferenced`. Without `~Overlap`
  both are false, as `gc_races_install` shows.
- `Spec => []RecordMatchesKeg`, with two more hypotheses. `OneBottlePerKeg`: a name and
  version have one bottle; a rebuilt one is recorded but not installed (see above).
  `WholeDirectories`: no copy, removal or command is cut off; a torn keg is taken for a
  whole one. Failures of everything else (database, links, post-install, the relocated
  cache) are allowed. The invariant `KegsInv` adds that rows are bottles on offer
  (`RowsFit`), that what lies in the relocated cache is whole (`RelocatedFit`), and what
  the cellar holds at each step of the one command that runs (`Clean`).
- `Spec => []RepairConverges`, whatever failed or crashed before. The invariant
  `RepairInv` adds that a key in use is stored or missing as doctor reports it
  (`UsedStored`), what is healthy after one and after two repairs (`RepairedFit`), and
  how far a running repair has come (`Repairing`): each of its steps makes one part of
  doctor's report empty and no later step fills it again.
- `Spec => CommandsAreAtomic /\ []Manager!BottlesKept` under the hypotheses of
  `RecordMatchesKeg`: each step of `Installer` is one of `PackageManager` or a stutter.
  By `KegsInv` every row has its keg, so `have` is what the rows say; doctor therefore
  never reports a keg as missing (`NoneMissing`), and repair deletes no row; an item is
  recorded when its bottle is in the store, which `Clean` says; and an entry that goes
  is unreferenced (`SerialInv`). `StepPromised` has one case for each action. Without
  `OneBottlePerKeg` the row of a rebuilt bottle has the old keg, and with crashes or
  torn copies repair removes packages too: there the property is not promised, and not
  true.

`Download_proofs` proves `TypeOK`, `MapMatchesLeaders`, `OneDownloadPerDigest`,
`PermitsHeldByReaders` and `GoodAnswers` for any number of items, digests, connections,
mirrors, chunks, permits and tries and any faults. The inductive invariant `IInv` ties
tasks to their leader: connections and chunk tasks exist only while a leader of the
digest is at `race` or `chunks` (`RaceFits`, `ChunksFit`), so a new attempt never meets
running chunks of an old one, only its strays; a failed write hands the permits of the
tasks it leaves to the strays (`HandedOver`), which hold them only while they read
(`StraysPermits`); a connection past the gate holds it (`GateFits`); a leader publishes
only what it has (`PublishFits`); and an item that has not failed has a try left
(`TriesBounded`).

`Network_proofs` proves all that the run `network` checks but liveness, for any
requests, clients, names, files and places. The components share no variable, so
`NetworkInv` is the conjunction of theirs.

- `TokensCorrect`: a request fails only after a fault of its own, whatever tokens age
  and whoever fetches them. A chunk has as many rounds as its scope has tokens, and each
  round it loses used one up for good (`RoundsFit`). The hypothesis `ChunksTellScope`
  says that the URL of a chunk names the scope of its token, as those of the registry's
  blobs do; without it the token is cached under the scope of the challenge and looked
  up under none, and a chunk runs out of rounds. TLC finds that behaviour at once.
- `AnswersCorrect`: `ApiInv` says what a client knows of the server at each step of a
  call (`RequestFits`), in particular that the body it has was current at some time
  since it asked.
- `ChunksCorrect`: `LoopFits` says that each range is in exactly one of the queues or
  hashed, and that the hash is a prefix of the file; the last unit of one range is the
  first of the next.
- `LookUpsCorrect`: places passed over have no file or were disturbed (`SearchFits`); of
  the index, a suggestion is a name or an alias of an entry, which the look-up finds
  again. That a ranking lists each candidate once follows from an order without ties.

`Packages_proofs` does the same for the run `packages`.

- `OpenIsWhole` (`DbOpenSpec => []OpenDatabasesAreWhole`), for any number of processes
  and versions: the invariant says what a process has done at each of its steps
  (`OpenerFits`); tables only grow, so what it has created stays true while others set
  the version.
- `BuildsSurvive` (`SourceSpec => []RecordedBuildSurvives`): `BuildFits` says that there
  is no whole keg in the place of a build until the shim is done, so a restore replaces
  nothing that is whole; there is one from then on, so the backup can go; and there is
  no backup before the first step or after the last.
- `DependenciesCorrect`: what an install still waits for is on its stack (`Awaits`),
  tokens on the stack differ (`DistinctTokens`), so it ends and a row comes after the
  rows it needs.
- `CasksCorrect` and `UserFilesCorrect`: `JobFits` says what is staged, in place and
  torn, and whether there is a keg, at each step of an install, its undoing and an
  uninstall; casks that nobody works on are whole or gone (`Settled`); and no place
  holds what its artifact did not put there (`PlacesFit`).
- `LinksResolve` (no link leads to a keg that is gone), for any kegs, and `LinksCorrect`
  under `SameShapes`: no path is a file in one keg and a directory in another. The code
  needs that (see *Findings*), so the hypothesis is not only the proof's.
- `RelocationCorrect`: a patcher owns what only its file's names lead to. `BinaryFits`,
  `TextFits` and `ModeFits` say what the inodes of a file hold at each step of its
  patcher, whatever the others do; what is done to it is what the patcher wants there
  (`Wanted`), unless a failure was at the file.

`Commands_proofs` proves, for any packages and any failures, `CommandsSpec =>
[]FailuresLoseOneAtMost` and `CommandsSpec => MigrationKeepsPackages`. The invariant
`CommandInv` says which commands can be at which step (`StepFits`); that a package which
was whole and alone at the start still is while the command has not come to it, and is
whole after (`KeptFit`); that a reinstall has lost nothing but the one package it is at,
which is then gone from row and cellar and so is installed anew (`AtPackage`); and that
all a migration is about to give up has a directory here (`MigratedFit`). "Alone" is
needed: a torn directory of the new version would be taken for the package.

Of what the command line reads and writes itself, `Commands_proofs` proves three parts.

- `PlanCorrect` (`PlanSpec => []PlanIsSound`), for any formulas, documents, tags, rows
  and kegs. `FetchFits` says that what a formula to install depends on is known, next to
  be fetched, or has nothing for the platform. The rest is about the operators: the
  closure is closed after as many rounds as there are formulas (`ClosureIsClosed`: a
  round that adds nothing is the last); each formula in the order follows those it needs
  in the closure (`OrderIsOrdered`), and an order as long as the closure has all of it
  (`FullOrderHasAll`), which is what the code's comparison of the two lengths rests on;
  leaving out what is current keeps the order (`ToInstallKeeps`).
- `ManagedBlockCorrect` (`ShellInitSpec => ManagedBlockIsKept`), for any files and
  whatever users do to them between commands. Collecting the user's lines distributes
  over concatenation, so an upsert keeps them and their order; what follows the end of
  the block never has settings (`BlocksFit`), so the settings written last are those the
  shell sees last (`WrittenFit`).
- `DocumentCorrect` (`CaskDocumentSpec => []CaskIsItsDocument`), for documents of any
  length: the variation taken is the first of the platform's that the document has, and
  every source of every artifact the document lists is staged, but for installers
  without `stage_only`. The module assumes that the platform has keys to prefer, as both
  it is built for have.
- `FrontTypeCorrect` (`FrontSpec => []FrontTypeOK`) and `TextsCorrect` (`FrontSpec =>
  []TextsAreReadRight`) put the components of the run `commands` together.

`TapText_proofs` and `TapSource_proofs` prove `TapSourceSpec => []TapSourceMeansRuby`,
for texts of any length and nesting: that three recursive passes and the counting of
words find what a reader who knows Ruby collects. The invariant has to say what the
parser would find in a text that is not complete, which it cannot read yet.

- Passes commute with writing. A balanced text can be read apart from what follows it
  (`Splits`, `PassOfConcat`), and each pass says what it makes of one block from what it
  makes of the lines within (`PassOfOnBlock`, `PassOfIfBlock`, `PassOfBottleBlock`). So
  of each open block there is a text that is *left* of it so far (`LiveOf`), and a piece
  that is added to the block is added to what is left of it, or is nothing to it
  (`AppendPiece`). For a conditional that is the branch the parser will keep
  (`KeptOfPiece`, `KeptOfBranch`): the first whose condition holds, which the history of
  the open block knows as `live` and `taken` (`BranchFits`).
- What is found is what is left. `Agrees` says that the open blocks nest (`OpenFits`),
  start where the text says (`PlacesFit`), leave texts that are balanced (`OneFits`),
  that the numbers of each kind Ruby has collected are those in what is left of the
  blocks that count (`NumsFit`), and that digests stand in the one bottle block
  (`BottleFits`). Blocks that count are the class and those in which all blocks around
  are conditions that hold, so a block that is closed hands what counted to the one
  around it (`NumsOfClosed`).
- A stanza extends both sides by one line (`StanzaFits`); a new block, a next branch and
  a line of a here-document extend neither (`OpenKeeps`, `BranchKeeps`, `ProseKeeps`);
  an end moves what is left of a block outwards (`CloseKeeps`); the last end leaves a
  class whose body is all that is left, and whose facts are Ruby's (`ClassCloses`).

The texts that are `odd` are where this fails: the depth of a loop with `do`, or of
prose outside the top of a cask, is not that of its lines, so what follows is not read
apart from it; and what is looked for in the whole text (`Wide`) is also found in blocks
that do not count.

What recursion computes is proved where it is a recursive function over numbers or
finite sets: the library's induction rules cannot be used, but a set of numbers that has
0 and the successor of each of its members is `Nat`, and that suffices (`LeastNatural`,
`AllNaturals` in `Network_proofs` and `TapText_proofs`); a recursion of functions is one
step given as a function (`Iterates`).

Only model-checked: the liveness properties `WaitersFinish`, `EveryItemEnds`,
`StoreCallsEnd` and `CallsEnd` (fairness and ENABLED are out of the prover's reach); all
safety properties and action properties of the runs are proved.

## Plan

Done: every module above, and a theorem for every property of the runs but the liveness
properties. What could come next are the parts under *Not modelled*, above all prepare
tasks that panic and names that share a cellar directory.

## Not modelled

- A prepare task that panics: it makes the install return early and drop the lock while
  other tasks still copy. The models let every task end.
- Two database names of one cellar token (`foo` and `user/tap/foo`): `TokenOf` is there,
  the runs give each name its own token, as they take each other's kegs by the layout of
  the cellar.
- Two programs that download into one blob cache; `Download` is one process.
- The search for the keg in the directory layouts a bottle may have, archive and Mach-O
  or ELF formats, TLS, and the shell inside a build: libraries and tools that succeed or
  fail.
- Interpolation in strings of Ruby texts.
- Argument parsing, prompts, progress, messages, paths and the benchmarks, which keep no
  state that another step reads.
