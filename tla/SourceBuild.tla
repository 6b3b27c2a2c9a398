----------------------------- MODULE SourceBuild -----------------------------
(***************************************************************************)
(* Building a formula from source (install_from_source with its executor): *)
(* an existing keg of the version is moved aside, the shim builds into the *)
(* cellar, a failure brings the old keg back, a success drops it, and the  *)
(* row is written.  The backup lies in the cellar under the token of the   *)
(* formula, so it looks like a keg of another version.                     *)
(***************************************************************************)
EXTENDS Naturals, FiniteSets

CONSTANTS
    SourceVersions,  \* versions of one formula
    NoBuild,         \* stands for "no version"
    BuildFaults      \* "move", "build", "remove", "db", "link", "crash"

ASSUME SourceBuildAssumption ==
    /\ NoBuild \notin SourceVersions
    /\ BuildFaults \subseteq {"move", "build", "remove", "db", "link", "crash"}

VARIABLES
    built,      \* Cellar/<token>/<version>: "none", "torn" or "whole"
    backups,    \* what backups of a version that nobody will restore hold
    sourceRow,  \* [version, kind] of the row, kind "bottle" or "source"
    shown,      \* versions whose files are linked into the prefix
    build,      \* the build that runs: [at, version, backup, link]
    forsaken    \* history: versions whose last copy was removed

sourceVars == <<built, backups, sourceRow, shown, build, forsaken>>

BuildSteps == {"idle", "backup", "sources", "compile", "restore", "drop", "record", "link"}
NoSourceRow == [version |-> NoBuild, kind |-> "none"]
NoJobRuns == [at |-> "idle", version |-> NoBuild, backup |-> "none", link |-> FALSE]

SourceTypeOK ==
    /\ built \in [SourceVersions -> {"none", "torn", "whole"}]
    /\ backups \in [SourceVersions -> SUBSET {"torn", "whole"}]
    /\ sourceRow \in [version : SourceVersions \cup {NoBuild},
                      kind : {"none", "bottle", "source"}]
    /\ shown \subseteq SourceVersions
    /\ build \in [at : BuildSteps, version : SourceVersions \cup {NoBuild},
                  backup : {"none", "torn", "whole"}, link : BOOLEAN]
    /\ build.at # "idle" => build.version # NoBuild
    /\ forsaken \subseteq SourceVersions

SourceInit ==
    /\ built = [v \in SourceVersions |-> "none"]
    /\ backups = [v \in SourceVersions |-> {}]
    /\ sourceRow = NoSourceRow
    /\ shown = {}
    /\ build = NoJobRuns
    /\ forsaken = {}

Building == build.version
Goto(step) == build' = [build EXCEPT !.at = step]
Keep(v, was) == backups' = [backups EXCEPT ![v] = @ \cup ({was} \ {"none"})]

\* The plan leaves out what is current: a source build of the version whose
\* directory is there.  A bottle of the version is built anew.
StartBuild(v, link) ==
    /\ build.at = "idle"
    /\ ~(sourceRow = [version |-> v, kind |-> "source"] /\ built[v] # "none")
    /\ build' = [at |-> "backup", version |-> v, backup |-> "none", link |-> link]
    /\ UNCHANGED <<built, backups, sourceRow, shown, forsaken>>

\* fetch_formula_rb, then backup_existing_source_keg; both may fail.
BackupKeg ==
    /\ build.at = "backup"
    /\ \/ /\ build' = [build EXCEPT !.at = "sources", !.backup = built[Building]]
          /\ built' = [built EXCEPT ![Building] = "none"]
       \/ "move" \in BuildFaults /\ build' = NoJobRuns /\ UNCHANGED built
    /\ UNCHANGED <<backups, sourceRow, shown, forsaken>>

\* The sources are fetched, verified and unpacked, and the keg's directory made.
GetSources ==
    /\ build.at = "sources"
    /\ \/ built' = [built EXCEPT ![Building] = "torn"] /\ Goto("compile")
       \/ "build" \in BuildFaults /\ Goto("restore") /\ UNCHANGED built
    /\ UNCHANGED <<backups, sourceRow, shown, forsaken>>

\* The shim runs the formula's install method.
Compile ==
    /\ build.at = "compile"
    /\ \/ built' = [built EXCEPT ![Building] = "whole"] /\ Goto("drop")
       \/ "build" \in BuildFaults /\ Goto("restore") /\ UNCHANGED built
    /\ UNCHANGED <<backups, sourceRow, shown, forsaken>>

\* A plausible bug: the backup is dropped when the build left a directory.
RestoreOnlyMissing ==
    LET v == Building IN
    /\ build.at = "restore"
    /\ IF build.backup = "none" \/ built[v] # "none" THEN UNCHANGED built
       ELSE built' = [built EXCEPT ![v] = build.backup]
    /\ UNCHANGED backups
    /\ build' = NoJobRuns
    /\ UNCHANGED <<sourceRow, shown, forsaken>>

\* restore_source_keg_from_backup: the failed output is removed, the backup
\* renamed.  Without a backup the failed output stays.
RestoreBackup ==
    LET v == Building IN
    /\ build.at = "restore"
    /\ \/ /\ built' = [built EXCEPT ![v] = IF build.backup = "none" THEN @ ELSE build.backup]
          /\ UNCHANGED backups
       \/ /\ build.backup # "none"
          /\ \/ "remove" \in BuildFaults /\ built[v] # "none" /\ UNCHANGED built
             \/ "move" \in BuildFaults /\ built' = [built EXCEPT ![v] = "none"]
          /\ Keep(v, build.backup)
    /\ build' = NoJobRuns
    /\ UNCHANGED <<sourceRow, shown, forsaken>>

\* remove_source_keg_backup: a failure ends the install without a row.
DropBackup ==
    /\ build.at = "drop"
    /\ \/ build' = [build EXCEPT !.at = "record", !.backup = "none"] /\ UNCHANGED backups
       \/ /\ "remove" \in BuildFaults /\ build.backup # "none"
          /\ Keep(Building, "torn")
          /\ build' = NoJobRuns
    /\ UNCHANGED <<built, sourceRow, shown, forsaken>>

\* The row, or cleanup_materialized: a row of the same version stays without keg.
RecordBuild ==
    LET v == Building IN
    /\ build.at = "record"
    /\ \/ /\ sourceRow' = [version |-> v, kind |-> "source"]
          /\ forsaken' = forsaken \ {v}
          /\ Goto("link")
          /\ UNCHANGED built
       \/ /\ "db" \in BuildFaults
          /\ \E left \in {"none"} \cup (IF "remove" \in BuildFaults THEN {"torn"} ELSE {}) :
                built' = [built EXCEPT ![v] = left]
          /\ forsaken' = forsaken \cup {v}
          /\ build' = NoJobRuns
          /\ UNCHANGED sourceRow
    /\ UNCHANGED <<backups, shown>>

\* The links of another version of the formula are conflicts.  A failure takes
\* the links back and keeps the row.
LinkBuild ==
    LET v == Building IN
    /\ build.at = "link"
    /\ shown' = IF ~build.link THEN shown
                ELSE IF shown \ {v} # {} THEN shown \ {v} ELSE {v}
    /\ build' = NoJobRuns
    /\ UNCHANGED <<built, backups, sourceRow, forsaken>>

LinkBuildFails ==
    /\ build.at = "link" /\ build.link
    /\ "link" \in BuildFaults
    /\ shown' = shown \ {Building}
    /\ build' = NoJobRuns
    /\ UNCHANGED <<built, backups, sourceRow, forsaken>>

KillBuild ==
    /\ "crash" \in BuildFaults
    /\ build.at # "idle"
    /\ Keep(Building, build.backup)
    /\ build' = NoJobRuns
    /\ UNCHANGED <<built, sourceRow, shown, forsaken>>

\* Other commands between builds, each as a whole: a bottle is poured over no
\* keg or one that is there, the package is uninstalled, doctor repairs.
PourBottle(v) ==
    /\ build.at = "idle"
    /\ built' = [built EXCEPT ![v] = IF @ = "none" THEN "whole" ELSE @]
    /\ sourceRow' = [version |-> v, kind |-> "bottle"]
    /\ forsaken' = IF built[v] = "torn" THEN forsaken \cup {v} ELSE forsaken \ {v}
    /\ UNCHANGED <<backups, shown, build>>

UninstallSource ==
    /\ build.at = "idle" /\ sourceRow # NoSourceRow
    /\ built' = [built EXCEPT ![sourceRow.version] = "none"]
    /\ shown' = shown \ {sourceRow.version}
    /\ sourceRow' = NoSourceRow
    /\ UNCHANGED <<backups, build, forsaken>>

\* Repair takes a backup for a keg nobody recorded, and removes it.
RepairCellar ==
    LET kept == {v \in SourceVersions : v = sourceRow.version} IN
    /\ build.at = "idle"
    /\ built' = [v \in SourceVersions |-> IF v \in kept THEN built[v] ELSE "none"]
    /\ backups' = [v \in SourceVersions |-> {}]
    /\ shown' = shown \cap {v \in kept : built[v] # "none"}
    /\ sourceRow' = IF \E v \in kept : built[v] # "none" THEN sourceRow ELSE NoSourceRow
    /\ forsaken' = forsaken \cup {v \in kept : built[v] # "whole"}
    /\ UNCHANGED build

BuildStep ==
    \/ BackupKeg \/ GetSources \/ Compile \/ RestoreBackup \/ DropBackup
    \/ RecordBuild \/ LinkBuild \/ LinkBuildFails

SourceNext ==
    \/ \E v \in SourceVersions : (\E link \in BOOLEAN : StartBuild(v, link)) \/ PourBottle(v)
    \/ BuildStep \/ KillBuild \/ UninstallSource \/ RepairCellar

SourceSpec == SourceInit /\ [][SourceNext]_sourceVars

-----------------------------------------------------------------------------
(* Properties.                                                             *)

\* install_from_source: whatever step of a rebuild fails, and wherever the
\* process dies, the package that was recorded is in the cellar or, whole, in a
\* backup beside it; unless the database failed after the build, or repair took
\* the backup that a dead build left, or a torn keg was recorded to begin with.
RecordedBuildSurvives ==
    LET v == sourceRow.version IN
    sourceRow # NoSourceRow /\ v \notin forsaken =>
       \/ built[v] = "whole"
       \/ build.version = v /\ build.backup = "whole"
       \/ "whole" \in backups[v]
=============================================================================
