---------------------------- MODULE Packages_proofs ----------------------------
(***************************************************************************)
(* Proofs about the components that lay packages out on the disk, each for *)
(* any constants its assumptions allow, and about their sum.               *)
(*                                                                         *)
(* Of each component: an inductive invariant (DbOpenInv, SourceInv,        *)
(* CaskDepsInv, CaskInv, LinksInv, RelocateInv), a lemma that it holds at  *)
(* the start and one that every step keeps it, and the properties that     *)
(* follow from it.                                                         *)
(***************************************************************************)
EXTENDS MCPackages, FiniteSetTheorems, SequenceTheorems, TLAPS

-----------------------------------------------------------------------------
(* The opening of a database.                                              *)

\* What a process has done so far stays done: tables are never dropped.
OpenerFits(p) ==
    /\ openers[p].at \in {"tables", "version"} =>
         /\ openers[p].next \in DOMAIN TablesOf
         /\ openers[p].next <= Supports[p]
         /\ TablesUpTo(openers[p].next - 1) \subseteq tables
    /\ openers[p].at = "version" => TablesUpTo(openers[p].next) \subseteq tables
    /\ openers[p].at = "open" => TablesUpTo(Supports[p]) \subseteq tables

\* The inductive invariant.
DbOpenInv ==
    /\ DbOpenTypeOK
    /\ TablesUpTo(userVersion) \subseteq tables
    /\ \A p \in Openers : OpenerFits(p)

\* VersionsKnown are numbers, and those a program supports have their tables.
LEMMA VersionsKnown ==
    /\ DOMAIN TablesOf \subseteq Nat \ {0}
    /\ \A v \in DOMAIN TablesOf : \A w \in 1..v : w \in DOMAIN TablesOf
    /\ \A p \in Openers : Supports[p] \in DOMAIN TablesOf
  BY DbOpenAssumption

\* The tables of a version are those of the version before and its own.
LEMMA NextVersion ==
    ASSUME NEW v \in Nat, v + 1 \in DOMAIN TablesOf
    PROVE  TablesUpTo(v + 1) = TablesUpTo(v) \cup TablesOf[v + 1]
  <1>1. \A x \in DOMAIN TablesOf : x <= v + 1 <=> (x <= v \/ x = v + 1)
    BY VersionsKnown
  <1>2. {x \in DOMAIN TablesOf : x <= v + 1} = {x \in DOMAIN TablesOf : x <= v} \cup {v + 1}
    BY <1>1
  <1> QED BY <1>2, Zenon DEF TablesUpTo

LEMMA NoVersionNoTables == TablesUpTo(0) = {}
  <1>1. {x \in DOMAIN TablesOf : x <= 0} = {}
    BY VersionsKnown
  <1> QED BY <1>1 DEF TablesUpTo

LEMMA DbOpenStarts == DbOpenInit => DbOpenInv
  BY NoVersionNoTables, VersionsKnown
     DEF DbOpenInit, DbOpenInv, DbOpenTypeOK, OpenerFits, Closed, SchemaVersions

\* What one process has reached, another one's new tables cannot take away.
LEMMA OpenersApart ==
    ASSUME DbOpenInv, NEW p \in Openers, NEW q \in Openers, q # p,
           openers'[q] = openers[q], tables \subseteq tables'
    PROVE  OpenerFits(q)'
  BY DEF DbOpenInv, OpenerFits, TablesUpTo

\* Entering the migration to the version after v, or being done with it.
LEMMA AfterVersion ==
    ASSUME DbOpenInv, NEW p \in Openers, NEW v \in SchemaVersions, v <= Supports[p],
           TablesUpTo(v) \subseteq tables, Migrated(p, v), UNCHANGED tables
    PROVE  /\ openers' \in [Openers -> [at : {"closed", "tables", "version", "open", "refused"},
                                        next : SchemaVersions]]
           /\ \A q \in Openers : OpenerFits(q)'
  <1>1. v \in Nat /\ Supports[p] \in DOMAIN TablesOf /\ Supports[p] \in Nat
    BY VersionsKnown DEF SchemaVersions
  <1>2. v # Supports[p] => v + 1 \in DOMAIN TablesOf /\ v + 1 <= Supports[p]
    BY <1>1, VersionsKnown
  <1>3. openers \in [Openers -> [at : {"closed", "tables", "version", "open", "refused"},
                                 next : SchemaVersions]]
    BY DEF DbOpenInv, DbOpenTypeOK
  <1>4. openers'[p] = IF v = Supports[p] THEN [at |-> "open", next |-> 0]
                                         ELSE [at |-> "tables", next |-> v + 1]
    BY <1>3 DEF Migrated
  <1>5. openers' \in [Openers -> [at : {"closed", "tables", "version", "open", "refused"},
                                  next : SchemaVersions]]
    BY <1>2, <1>3 DEF Migrated, SchemaVersions
  <1>6. OpenerFits(p)'
    <2>1. CASE v = Supports[p]
      BY <2>1, <1>4 DEF OpenerFits, TablesUpTo
    <2>2. CASE v # Supports[p]
      <3>1. openers'[p].at = "tables" /\ openers'[p].next = v + 1 /\ openers'[p].next - 1 = v
        BY <2>2, <1>1, <1>4
      <3> QED BY <3>1, <2>2, <1>2 DEF OpenerFits, TablesUpTo
    <2> QED BY <2>1, <2>2
  <1>7. \A q \in Openers : q # p => openers'[q] = openers[q]
    BY <1>3 DEF Migrated
  <1> QED BY <1>5, <1>6, <1>7, OpenersApart

LEMMA DbOpenStepsKeep == DbOpenInv /\ [DbOpenNext]_dbOpenVars => DbOpenInv'
  <1> SUFFICES ASSUME DbOpenInv, [DbOpenNext]_dbOpenVars PROVE DbOpenInv'
    OBVIOUS
  <1>1. /\ openers \in [Openers -> [at : {"closed", "tables", "version", "open", "refused"},
                                    next : SchemaVersions]]
        /\ tables \subseteq AllTables /\ userVersion \in SchemaVersions
        /\ TablesUpTo(userVersion) \subseteq tables
        /\ \A q \in Openers : OpenerFits(q)
    BY DEF DbOpenInv, DbOpenTypeOK
  <1>2. CASE UNCHANGED dbOpenVars
    BY <1>1, <1>2 DEF dbOpenVars, DbOpenInv, DbOpenTypeOK, OpenerFits, TablesUpTo
  <1>3. ASSUME NEW p \in Openers, ReadVersion(p) PROVE DbOpenInv'
    <2>1. CASE userVersion > Supports[p]
      <3>1. openers'[p].at = "refused" /\ \A q \in Openers : q # p => openers'[q] = openers[q]
        BY <1>1, <1>3, <2>1 DEF ReadVersion
      <3>2. \A q \in Openers : OpenerFits(q)'
        BY <3>1, <1>3, OpenersApart DEF ReadVersion, OpenerFits
      <3> QED BY <3>2, <1>1, <1>3, <2>1 DEF ReadVersion, DbOpenInv, DbOpenTypeOK, TablesUpTo
    <2>2. CASE ~(userVersion > Supports[p])
      <3>1. userVersion <= Supports[p]
        BY <2>2, <1>1, VersionsKnown DEF SchemaVersions
      <3> QED BY <3>1, <2>2, <1>1, <1>3, AfterVersion
                 DEF ReadVersion, DbOpenInv, DbOpenTypeOK, TablesUpTo
    <2> QED BY <2>1, <2>2
  <1>4. ASSUME NEW p \in Openers, CreateTable(p) PROVE DbOpenInv'
    <2>0. /\ openers[p].at = "tables" /\ openers[p].next \in DOMAIN TablesOf
          /\ openers[p].next <= Supports[p]
          /\ TablesUpTo(openers[p].next - 1) \subseteq tables
          /\ UNCHANGED userVersion
      BY <1>1, <1>4 DEF CreateTable, OpenerFits
    <2>1. CASE TablesOf[openers[p].next] \ tables = {}
      <3>1. /\ openers' = [openers EXCEPT ![p].at = "version"] /\ UNCHANGED tables
        BY <2>1, <1>4 DEF CreateTable
      <3>2. openers'[p].at = "version" /\ openers'[p].next = openers[p].next
            /\ \A q \in Openers : q # p => openers'[q] = openers[q]
        BY <3>1, <1>1
      <3>3. TablesUpTo(openers[p].next) \subseteq tables
        <4>1. openers[p].next - 1 \in Nat /\ (openers[p].next - 1) + 1 = openers[p].next
          BY <2>0, VersionsKnown
        <4> QED BY <4>1, <2>0, <2>1, NextVersion
      <3>4. OpenerFits(p)'
        BY <3>1, <3>2, <3>3, <2>0 DEF OpenerFits, TablesUpTo
      <3>5. \A q \in Openers : OpenerFits(q)'
        BY <3>1, <3>2, <3>4, OpenersApart
      <3> QED BY <3>1, <3>5, <2>0, <1>1 DEF DbOpenInv, DbOpenTypeOK, TablesUpTo
    <2>2. CASE TablesOf[openers[p].next] \ tables # {}
      <3>1. PICK t \in TablesOf[openers[p].next] : tables' = tables \cup {t} /\ UNCHANGED openers
        BY <2>2, <1>4 DEF CreateTable
      <3>2. t \in AllTables
        BY <2>0 DEF AllTables
      <3>3. \A q \in Openers : OpenerFits(q)'
        BY <3>1, <1>1 DEF OpenerFits, TablesUpTo
      <3> QED BY <3>1, <3>2, <3>3, <2>0, <1>1 DEF DbOpenInv, DbOpenTypeOK, TablesUpTo
    <2> QED BY <2>1, <2>2
  <1>5. ASSUME NEW p \in Openers, SetVersion(p) PROVE DbOpenInv'
    <2>1. /\ openers[p].next \in DOMAIN TablesOf /\ openers[p].next <= Supports[p]
          /\ TablesUpTo(openers[p].next) \subseteq tables
      BY <1>1, <1>5 DEF SetVersion, OpenerFits
    <2>2. openers[p].next \in SchemaVersions
      BY <2>1 DEF SchemaVersions
    <2> QED BY <2>1, <2>2, <1>1, <1>5, AfterVersion DEF SetVersion, DbOpenInv, DbOpenTypeOK, TablesUpTo
  <1>6. ASSUME NEW p \in Openers, CloseDb(p) PROVE DbOpenInv'
    <2>1. openers' \in [Openers -> [at : {"closed", "tables", "version", "open", "refused"},
                                    next : SchemaVersions]]
      BY <1>1, <1>6 DEF CloseDb, Closed, SchemaVersions
    <2>2. openers'[p].at = "closed" /\ \A q \in Openers : q # p => openers'[q] = openers[q]
      BY <1>1, <1>6 DEF CloseDb, Closed
    <2>3. \A q \in Openers : OpenerFits(q)'
      BY <2>2, <1>6, OpenersApart DEF CloseDb, OpenerFits
    <2> QED BY <2>1, <2>3, <1>1, <1>6 DEF CloseDb, DbOpenInv, DbOpenTypeOK, TablesUpTo
  <1> QED BY <1>2, <1>3, <1>4, <1>5, <1>6 DEF DbOpenNext

\* Database::open: whoever migrates at once or dies in between, a database that is open
\* has the tables of its program's version, and its version promises no table it lacks.
THEOREM OpenIsWhole == DbOpenSpec => []OpenDatabasesAreWhole
  <1>1. DbOpenInv => OpenDatabasesAreWhole
    BY DEF DbOpenInv, OpenerFits, OpenDatabasesAreWhole
  <1> QED BY <1>1, DbOpenStarts, DbOpenStepsKeep, PTL DEF DbOpenSpec

\* The types of the opening of a database.
THEOREM OpenTypeCorrect == DbOpenSpec => []DbOpenTypeOK
  <1>1. DbOpenInv => DbOpenTypeOK
    BY DEF DbOpenInv
  <1> QED BY <1>1, DbOpenStarts, DbOpenStepsKeep, PTL DEF DbOpenSpec

-----------------------------------------------------------------------------
(* Source builds.                                                          *)

BuildType ==
    [at : BuildSteps, version : SourceVersions \cup {NoBuild},
     backup : {"none", "torn", "whole"}, link : BOOLEAN]

\* What a build has when: a backup between its first step and its end; no whole keg
\* until the shim is done, which a restore would replace, and one from then on.
BuildFits ==
    /\ build.at \in {"idle", "backup", "record", "link"} => build.backup = "none"
    /\ build.at \in {"sources", "compile", "restore"} => built[build.version] # "whole"
    /\ build.at \in {"drop", "record", "link"} => built[build.version] = "whole"

RowFits == sourceRow = NoSourceRow \/ sourceRow.version \in SourceVersions

\* Where a whole copy of version v can be.
KeptWhole(v) ==
    \/ built[v] = "whole"
    \/ build.version = v /\ build.backup = "whole"
    \/ "whole" \in backups[v]

\* The inductive invariant.
SourceInv == SourceTypeOK /\ BuildFits /\ RowFits /\ RecordedBuildSurvives

LEMMA SourceStarts == SourceInit => SourceInv
  BY DEF SourceInit, SourceInv, SourceTypeOK, BuildFits, RowFits, RecordedBuildSurvives,
         NoSourceRow, NoJobRuns, BuildSteps

\* The row and what is forsaken stay, and what survived does: then all is said by the
\* types and the build.
LEMMA RowStays ==
    ASSUME SourceInv, SourceTypeOK', BuildFits', UNCHANGED sourceRow, forsaken \subseteq forsaken',
           \A v \in SourceVersions \ forsaken' : KeptWhole(v) => KeptWhole(v)'
    PROVE  SourceInv'
  BY DEF SourceInv, RowFits, RecordedBuildSurvives, KeptWhole

LEMMA Idles == NoJobRuns \in BuildType
  BY DEF NoJobRuns, BuildType, BuildSteps

LEMMA GotoType ==
    ASSUME build \in BuildType, NEW step \in BuildSteps, Goto(step)
    PROVE  /\ build' \in BuildType
           /\ build'.at = step /\ build'.version = build.version
           /\ build'.backup = build.backup /\ build'.link = build.link
  BY DEF Goto, BuildType

LEMMA KeepType ==
    ASSUME SourceTypeOK, NEW v \in SourceVersions, NEW was \in {"none", "torn", "whole"},
           Keep(v, was)
    PROVE  /\ backups' \in [SourceVersions -> SUBSET {"torn", "whole"}]
           /\ \A w \in SourceVersions : backups[w] \subseteq backups'[w]
           /\ was = "whole" => "whole" \in backups'[v]
  BY DEF Keep, SourceTypeOK

-----------------------------------------------------------------------------
(* The steps of a build.                                                   *)

LEMMA StartBuildKeeps ==
    ASSUME SourceInv, NEW v \in SourceVersions, NEW link \in BOOLEAN, StartBuild(v, link)
    PROVE  SourceInv'
  <1>1. SourceTypeOK'
    BY SourceBuildAssumption DEF StartBuild, SourceInv, SourceTypeOK, BuildSteps
  <1>2. BuildFits'
    BY DEF StartBuild, BuildFits
  <1>3. \A w \in SourceVersions : KeptWhole(w) => KeptWhole(w)'
    BY DEF StartBuild, KeptWhole, SourceInv, BuildFits
  <1> QED BY <1>1, <1>2, <1>3, RowStays DEF StartBuild

LEMMA BackupKegKeeps ==
    ASSUME SourceInv, BackupKeg
    PROVE  SourceInv'
  <1>0. SourceTypeOK /\ build \in BuildType /\ build.version \in SourceVersions
    BY DEF SourceInv, SourceTypeOK, BuildType, BackupKeg
  <1>1. CASE /\ build' = [build EXCEPT !.at = "sources", !.backup = built[Building]]
             /\ built' = [built EXCEPT ![Building] = "none"]
    <2>1. /\ build' \in BuildType /\ build'.at = "sources" /\ build'.version = build.version
          /\ build'.backup = built[build.version]
      BY <1>0, <1>1 DEF BuildType, BuildSteps, Building, SourceTypeOK
    <2>2. SourceTypeOK'
      BY <1>0, <1>1, <2>1 DEF BackupKeg, SourceTypeOK, BuildType, Building
    <2>3. BuildFits'
      BY <1>0, <1>1, <2>1 DEF BuildFits, Building, SourceTypeOK
    <2>4. \A w \in SourceVersions : KeptWhole(w) => KeptWhole(w)'
      BY <1>0, <1>1, <2>1 DEF BackupKeg, KeptWhole, SourceInv, BuildFits, Building, SourceTypeOK
    <2> QED BY <2>2, <2>3, <2>4, RowStays DEF BackupKeg
  <1>2. CASE build' = NoJobRuns /\ UNCHANGED built
    <2>1. SourceTypeOK'
      BY <1>0, <1>2, Idles DEF BackupKeg, SourceTypeOK, BuildType, NoJobRuns
    <2>2. BuildFits'
      BY <1>2 DEF BuildFits, NoJobRuns
    <2>3. \A w \in SourceVersions : KeptWhole(w) => KeptWhole(w)'
      BY <1>2 DEF BackupKeg, KeptWhole, SourceInv, BuildFits
    <2> QED BY <2>1, <2>2, <2>3, RowStays DEF BackupKeg
  <1> QED BY <1>1, <1>2 DEF BackupKeg

\* The build works on a keg that is in the backup, or was nowhere.
LEMMA BuildingKeeps ==
    ASSUME SourceInv, build.at \in {"sources", "compile"},
           NEW step \in {"compile", "restore", "drop"}, Goto(step),
           NEW now \in {"none", "torn", "whole"},
           built' = [built EXCEPT ![Building] = now],
           step = "drop" <=> now = "whole",
           UNCHANGED <<backups, sourceRow, shown, forsaken>>
    PROVE  SourceInv'
  <1>0. SourceTypeOK /\ build \in BuildType /\ build.version \in SourceVersions
    BY DEF SourceInv, SourceTypeOK, BuildType
  <1>1. /\ build' \in BuildType /\ build'.at = step /\ build'.version = build.version
        /\ build'.backup = build.backup
    BY <1>0, GotoType DEF BuildSteps
  <1>2. SourceTypeOK'
    BY <1>0, <1>1 DEF SourceTypeOK, BuildType, Building
  <1>3. BuildFits'
    BY <1>0, <1>1 DEF BuildFits, Building, SourceTypeOK
  <1>4. \A w \in SourceVersions : KeptWhole(w) => KeptWhole(w)'
    BY <1>0, <1>1 DEF KeptWhole, Building, SourceTypeOK, SourceInv, BuildFits
  <1> QED BY <1>2, <1>3, <1>4, RowStays

LEMMA GetSourcesKeeps ==
    ASSUME SourceInv, GetSources
    PROVE  SourceInv'
  <1>0. SourceTypeOK /\ build.version \in SourceVersions
    BY DEF SourceInv, SourceTypeOK, GetSources
  <1>1. CASE built' = [built EXCEPT ![Building] = "torn"] /\ Goto("compile")
    BY <1>1, BuildingKeeps DEF GetSources
  <1>2. CASE Goto("restore") /\ UNCHANGED built
    <2>1. built' = [built EXCEPT ![Building] = built[Building]] /\ built[Building] \in {"none", "torn"}
      BY <1>0, <1>2 DEF SourceTypeOK, Building, SourceInv, BuildFits, GetSources
    <2> QED BY <1>2, <2>1, BuildingKeeps DEF GetSources
  <1> QED BY <1>1, <1>2 DEF GetSources

LEMMA CompileKeeps ==
    ASSUME SourceInv, Compile
    PROVE  SourceInv'
  <1>0. SourceTypeOK /\ build.version \in SourceVersions
    BY DEF SourceInv, SourceTypeOK, Compile
  <1>1. CASE built' = [built EXCEPT ![Building] = "whole"] /\ Goto("drop")
    BY <1>1, BuildingKeeps DEF Compile
  <1>2. CASE Goto("restore") /\ UNCHANGED built
    <2>1. built' = [built EXCEPT ![Building] = built[Building]] /\ built[Building] \in {"none", "torn"}
      BY <1>0, <1>2 DEF SourceTypeOK, Building, SourceInv, BuildFits, Compile
    <2> QED BY <1>2, <2>1, BuildingKeeps DEF Compile
  <1> QED BY <1>1, <1>2 DEF Compile

\* A build that ends: with a copy that is kept of what its backup held.
LEMMA BuildEnds ==
    ASSUME SourceInv, build.at # "idle", build' = NoJobRuns,
           built' \in [SourceVersions -> {"none", "torn", "whole"}],
           backups' \in [SourceVersions -> SUBSET {"torn", "whole"}],
           \A w \in SourceVersions : backups[w] \subseteq backups'[w],
           \A w \in SourceVersions \ {Building} : built'[w] = built[w],
           built[Building] = "whole" => built'[Building] = "whole",
           build.backup = "whole" /\ built[Building] # "whole" =>
              built'[Building] = "whole" \/ "whole" \in backups'[Building],
           shown' \subseteq SourceVersions, UNCHANGED <<sourceRow, forsaken>>
    PROVE  SourceInv'
  <1>1. SourceTypeOK'
    BY Idles DEF SourceInv, SourceTypeOK, BuildType, NoJobRuns
  <1>2. BuildFits'
    BY DEF BuildFits, NoJobRuns
  <1>3. \A w \in SourceVersions : KeptWhole(w) => KeptWhole(w)'
    BY DEF KeptWhole, Building
  <1> QED BY <1>1, <1>2, <1>3, RowStays

LEMMA RestoreBackupKeeps ==
    ASSUME SourceInv, RestoreBackup
    PROVE  SourceInv'
  <1>0. /\ SourceTypeOK /\ build \in BuildType /\ build.version \in SourceVersions
        /\ built[Building] # "whole" /\ build.backup \in {"none", "torn", "whole"}
    BY DEF SourceInv, SourceTypeOK, BuildType, RestoreBackup, BuildFits, Building
  <1>1. CASE /\ built' = [built EXCEPT ![Building] = IF build.backup = "none" THEN @ ELSE build.backup]
             /\ UNCHANGED backups
    <2>1. built' \in [SourceVersions -> {"none", "torn", "whole"}]
      BY <1>0, <1>1 DEF SourceTypeOK, Building
    <2>2. \A w \in SourceVersions \ {Building} : built'[w] = built[w]
      BY <1>0, <1>1 DEF SourceTypeOK
    <2>3. build.backup = "whole" => built'[Building] = "whole"
      BY <1>0, <1>1 DEF SourceTypeOK, Building
    <2> QED BY <1>0, <1>1, <2>1, <2>2, <2>3, BuildEnds DEF RestoreBackup, SourceTypeOK
  <1>2. CASE /\ built' = built \/ built' = [built EXCEPT ![Building] = "none"]
             /\ Keep(Building, build.backup)
    <2>1. /\ built' \in [SourceVersions -> {"none", "torn", "whole"}]
          /\ \A w \in SourceVersions \ {Building} : built'[w] = built[w]
      BY <1>0, <1>2 DEF SourceTypeOK
    <2>2. /\ backups' \in [SourceVersions -> SUBSET {"torn", "whole"}]
          /\ \A w \in SourceVersions : backups[w] \subseteq backups'[w]
          /\ build.backup = "whole" => "whole" \in backups'[Building]
      BY <1>0, <1>2, KeepType DEF Building
    <2> QED BY <1>0, <2>1, <2>2, BuildEnds DEF RestoreBackup, SourceTypeOK
  <1> QED BY <1>1, <1>2 DEF RestoreBackup

LEMMA DropBackupKeeps ==
    ASSUME SourceInv, DropBackup
    PROVE  SourceInv'
  <1>0. /\ SourceTypeOK /\ build \in BuildType /\ build.version \in SourceVersions
        /\ built[Building] = "whole"
    BY DEF SourceInv, SourceTypeOK, BuildType, DropBackup, BuildFits, Building
  <1>1. CASE build' = [build EXCEPT !.at = "record", !.backup = "none"] /\ UNCHANGED backups
    <2>1. /\ build' \in BuildType /\ build'.at = "record" /\ build'.version = build.version
          /\ build'.backup = "none"
      BY <1>0, <1>1 DEF BuildType, BuildSteps
    <2>2. SourceTypeOK' /\ BuildFits'
      BY <1>0, <1>1, <2>1 DEF DropBackup, SourceTypeOK, BuildType, BuildFits, Building
    <2>3. \A w \in SourceVersions : KeptWhole(w) => KeptWhole(w)'
      BY <1>0, <1>1, <2>1 DEF DropBackup, KeptWhole, Building
    <2> QED BY <2>2, <2>3, RowStays DEF DropBackup
  <1>2. CASE Keep(Building, "torn") /\ build' = NoJobRuns
    <2>1. /\ backups' \in [SourceVersions -> SUBSET {"torn", "whole"}]
          /\ \A w \in SourceVersions : backups[w] \subseteq backups'[w]
      BY <1>0, <1>2, KeepType DEF Building
    <2> QED BY <1>0, <1>2, <2>1, BuildEnds DEF DropBackup, SourceTypeOK
  <1> QED BY <1>1, <1>2 DEF DropBackup

LEMMA KillBuildKeeps ==
    ASSUME SourceInv, KillBuild
    PROVE  SourceInv'
  <1>0. /\ SourceTypeOK /\ build \in BuildType /\ build.version \in SourceVersions
        /\ build.backup \in {"none", "torn", "whole"}
    BY DEF SourceInv, SourceTypeOK, BuildType, KillBuild
  <1>1. /\ backups' \in [SourceVersions -> SUBSET {"torn", "whole"}]
        /\ \A w \in SourceVersions : backups[w] \subseteq backups'[w]
        /\ build.backup = "whole" => "whole" \in backups'[Building]
    BY <1>0, KeepType DEF KillBuild, Building
  <1> QED BY <1>0, <1>1, BuildEnds DEF KillBuild, SourceTypeOK

LEMMA LinkBuildKeeps ==
    ASSUME SourceInv, LinkBuild \/ LinkBuildFails
    PROVE  SourceInv'
  <1>0. SourceTypeOK /\ build.version \in SourceVersions
    BY DEF SourceInv, SourceTypeOK, LinkBuild, LinkBuildFails
  <1>1. shown' \subseteq SourceVersions
    BY <1>0 DEF LinkBuild, LinkBuildFails, SourceTypeOK, Building
  <1> QED BY <1>0, <1>1, BuildEnds DEF LinkBuild, LinkBuildFails, SourceTypeOK, SourceInv, BuildFits,
          Building

LEMMA RecordBuildKeeps ==
    ASSUME SourceInv, RecordBuild
    PROVE  SourceInv'
  <1>0. /\ SourceTypeOK /\ build \in BuildType /\ build.version \in SourceVersions
        /\ built[Building] = "whole" /\ build.backup = "none"
    BY DEF SourceInv, SourceTypeOK, BuildType, RecordBuild, BuildFits, Building
  <1>1. CASE /\ sourceRow' = [version |-> Building, kind |-> "source"]
             /\ forsaken' = forsaken \ {Building} /\ Goto("link") /\ UNCHANGED built
    <2>1. /\ build' \in BuildType /\ build'.at = "link" /\ build'.version = build.version
          /\ build'.backup = build.backup
      BY <1>0, <1>1, GotoType DEF BuildSteps
    <2>2. SourceTypeOK' /\ BuildFits' /\ RowFits'
      BY <1>0, <1>1, <2>1 DEF RecordBuild, SourceTypeOK, BuildType, BuildFits, RowFits, Building
    <2>3. RecordedBuildSurvives'
      BY <1>0, <1>1 DEF RecordedBuildSurvives, Building
    <2> QED BY <2>2, <2>3 DEF SourceInv
  <1>2. ASSUME NEW left \in {"none", "torn"}, built' = [built EXCEPT ![Building] = left],
               forsaken' = forsaken \cup {Building}, build' = NoJobRuns, UNCHANGED sourceRow
        PROVE  SourceInv'
    <2>1. SourceTypeOK'
      BY <1>0, <1>2, Idles DEF RecordBuild, SourceTypeOK, BuildType, NoJobRuns, Building
    <2>2. BuildFits'
      BY <1>2 DEF BuildFits, NoJobRuns
    <2>3. \A w \in SourceVersions \ forsaken' : KeptWhole(w) => KeptWhole(w)'
      BY <1>0, <1>2 DEF RecordBuild, KeptWhole, Building, SourceTypeOK
    <2> QED BY <1>2, <2>1, <2>2, <2>3, RowStays
  <1> QED BY <1>1, <1>2 DEF RecordBuild

-----------------------------------------------------------------------------
(* Other commands.                                                         *)

LEMMA PourBottleKeeps ==
    ASSUME SourceInv, NEW v \in SourceVersions, PourBottle(v)
    PROVE  SourceInv'
  <1>0. SourceTypeOK
    BY DEF SourceInv
  <1>1. built[v] \in {"none", "torn", "whole"}
    BY <1>0 DEF SourceTypeOK
  <1>2. SourceTypeOK' /\ RowFits'
    BY <1>0, <1>1 DEF PourBottle, SourceTypeOK, RowFits
  <1>3. BuildFits'
    BY DEF PourBottle, SourceInv, BuildFits
  <1>4. v \notin forsaken' => built'[v] = "whole"
    BY <1>0, <1>1 DEF PourBottle, SourceTypeOK
  <1>5. RecordedBuildSurvives'
    BY <1>4 DEF PourBottle, RecordedBuildSurvives
  <1> QED BY <1>2, <1>3, <1>5 DEF SourceInv

LEMMA UninstallSourceKeeps ==
    ASSUME SourceInv, UninstallSource
    PROVE  SourceInv'
  <1>1. SourceTypeOK'
    BY DEF UninstallSource, SourceInv, SourceTypeOK, NoSourceRow
  <1>2. BuildFits' /\ RowFits' /\ RecordedBuildSurvives'
    BY DEF UninstallSource, SourceInv, BuildFits, RowFits, RecordedBuildSurvives
  <1> QED BY <1>1, <1>2 DEF SourceInv

LEMMA RepairCellarKeeps ==
    ASSUME SourceInv, RepairCellar
    PROVE  SourceInv'
  <1> DEFINE kept == {v \in SourceVersions : v = sourceRow.version}
  <1>0. SourceTypeOK
    BY DEF SourceInv
  <1>1. sourceRow' \in {sourceRow, NoSourceRow}
    BY DEF RepairCellar
  <1>2. SourceTypeOK'
    BY <1>0, <1>1 DEF RepairCellar, SourceTypeOK, NoSourceRow
  <1>3. BuildFits' /\ RowFits'
    BY <1>1 DEF RepairCellar, SourceInv, BuildFits, RowFits
  <1>4. RecordedBuildSurvives'
    <2> SUFFICES ASSUME sourceRow' # NoSourceRow, sourceRow'.version \notin forsaken'
                 PROVE  built'[sourceRow'.version] = "whole"
      BY DEF RecordedBuildSurvives
    <2>1. sourceRow' = sourceRow /\ sourceRow.version \in kept
      BY <1>1 DEF SourceInv, RowFits
    <2> QED BY <2>1 DEF RepairCellar
  <1> QED BY <1>2, <1>3, <1>4 DEF SourceInv

LEMMA SourceStepsKeep ==
    ASSUME SourceInv, [SourceNext]_sourceVars
    PROVE  SourceInv'
  <1>1. CASE UNCHANGED sourceVars
    BY <1>1 DEF sourceVars, SourceInv, SourceTypeOK, BuildFits, RowFits, RecordedBuildSurvives
  <1>2. CASE BuildStep
    BY <1>2, BackupKegKeeps, GetSourcesKeeps, CompileKeeps, RestoreBackupKeeps, DropBackupKeeps,
       RecordBuildKeeps, LinkBuildKeeps DEF BuildStep
  <1>3. CASE SourceNext /\ ~BuildStep
    BY <1>3, StartBuildKeeps, PourBottleKeeps, KillBuildKeeps, UninstallSourceKeeps,
       RepairCellarKeeps DEF SourceNext
  <1> QED BY <1>1, <1>2, <1>3

-----------------------------------------------------------------------------
(* The theorems.                                                           *)

\* install_from_source: the types of a build, and where the keg it replaces is meanwhile.
THEOREM SourceInductive == SourceSpec => []SourceInv
  BY SourceStarts, SourceStepsKeep, PTL DEF SourceSpec

\* The types of the state of source builds: installer/install/source.rs.
THEOREM SourceTypeCorrect == SourceSpec => []SourceTypeOK
  <1>1. SourceInv => SourceTypeOK
    BY DEF SourceInv
  <1> QED BY <1>1, SourceInductive, PTL

\* install_from_source: a version that is recorded is somewhere whole, in the cellar or in
\* a backup, whatever step of a rebuild fails or dies.
THEOREM BuildsSurvive == SourceSpec => []RecordedBuildSurvives
  <1>1. SourceInv => RecordedBuildSurvives
    BY DEF SourceInv
  <1> QED BY <1>1, SourceInductive, PTL

-----------------------------------------------------------------------------
(* Casks that depend on casks.  What an install still waits for is on its  *)
(* list, or is the install it is waiting in (Awaits); the installs under   *)
(* way are of different casks, so that there are finitely many.            *)

Levels == [cask : CaskNames, left : Seq(CaskNames)]

DistinctTokens(s) ==
    \A i, j \in DOMAIN s : TokenOf[s[i].cask] = TokenOf[s[j].cask] => i = j

\* Of the dependencies of a level of s, those that are not in `have` are on its
\* list or the next level; those of the last level may also be in `next`.
Awaits(s, have, next) ==
    \A i \in DOMAIN s : \A d \in ToSet(DependsOnCasks[s[i].cask]) :
        \/ d \in have \/ d \in ToSet(s[i].left)
        \/ i < Len(s) /\ d = s[i + 1].cask
        \/ i = Len(s) /\ d \in next

\* The inductive invariant.
CaskDepsInv == CaskDepsTypeOK /\ DistinctTokens(nested) /\ Awaits(nested, haveCasks, {})

LEMMA NestingIsBounded ==
    ASSUME NEW s \in Seq(Levels), DistinctTokens(s)
    PROVE  Len(s) <= Cardinality(Tokens)
  <1> DEFINE f == [i \in 1..Len(s) |-> TokenOf[s[i].cask]]
  <1>1. IsFiniteSet(Tokens)
    <2>1. IsFiniteSet(CaskNames)
      BY CaskDepsAssumption
    <2> DEFINE token == [c \in CaskNames |-> TokenOf[c]]
    <2>2. token \in Surjection(CaskNames, Tokens)
      BY DEF Tokens, Surjection
    <2> QED BY <2>1, <2>2, FS_Surjection
  <1>2. f \in Injection(1..Len(s), Tokens)
    <2>1. Len(s) \in Nat /\ DOMAIN s = 1..Len(s) /\ \A i \in 1..Len(s) : s[i] \in Levels
      BY LenProperties, ElementOfSeq
    <2>2. f \in [1..Len(s) -> Tokens]
      BY <2>1 DEF Tokens, Levels
    <2> QED BY <2>1, <2>2 DEF Injection, IsInjective, DistinctTokens
  <1>3. Cardinality(1..Len(s)) = Len(s)
    <2>1. Len(s) \in Nat /\ 1 \in Int /\ Len(s) \in Int
      BY LenProperties
    <2>2. Cardinality(1..Len(s)) = IF 1 > Len(s) THEN 0 ELSE Len(s) - 1 + 1
      BY <2>1, FS_Interval
    <2> QED BY <2>1, <2>2
  <1> QED BY <1>1, <1>2, <1>3, FS_Injection

LEMMA CaskDepsTypes ==
    CaskDepsTypeOK => /\ haveCasks \subseteq CaskNames /\ nested \in Seq(Levels)
                      /\ namesLeft \in Seq(CaskNames)
                      /\ haveFormulas \subseteq DependsOnFormulas
  BY DEF CaskDepsTypeOK, Levels

LEMMA CaskDepsStarts == CaskDepsInit => CaskDepsInv
  <1> SUFFICES ASSUME CaskDepsInit PROVE CaskDepsInv
    OBVIOUS
  <1>1. nested = <<>> /\ nested \in Seq(Levels) /\ DistinctTokens(nested)
    BY DEF CaskDepsInit, DistinctTokens
  <1>2. Len(nested) <= Cardinality(Tokens)
    BY <1>1, NestingIsBounded
  <1> QED BY <1>1, <1>2 DEF CaskDepsInit, CaskDepsInv, CaskDepsTypeOK, Awaits, Levels

\* The invariant, from what a step leaves.
LEMMA Nested ==
    ASSUME haveCasks' \subseteq CaskNames, haveFormulas' \subseteq DependsOnFormulas,
           namesLeft' \in Seq(CaskNames), nested' \in Seq(Levels),
           DistinctTokens(nested'), Awaits(nested', haveCasks', {})
    PROVE  CaskDepsInv'
  <1>1. Len(nested') <= Cardinality(Tokens)
    BY NestingIsBounded
  <1> QED BY <1>1 DEF CaskDepsInv, CaskDepsTypeOK, Levels

LEMMA NoneNested ==
    ASSUME haveCasks' \subseteq CaskNames, haveFormulas' \subseteq DependsOnFormulas,
           namesLeft' \in Seq(CaskNames), nested' = <<>>
    PROVE  CaskDepsInv'
  <1>1. nested' \in Seq(Levels) /\ DistinctTokens(nested') /\ Awaits(nested', haveCasks', {})
    BY DEF DistinctTokens, Awaits
  <1> QED BY <1>1, Nested

\* A dependency that was taken off the list is entered, or is there.
LEMMA EnterAwaits ==
    ASSUME NEW s \in Seq(Levels), NEW have, NEW c \in CaskNames,
           DistinctTokens(s), Awaits(s, have, {c}),
           \A i \in DOMAIN s : TokenOf[s[i].cask] # TokenOf[c],
           NEW t, t = Append(s, [cask |-> c, left |-> DependsOnCasks[c]])
    PROVE  t \in Seq(Levels) /\ DistinctTokens(t) /\ Awaits(t, have, {})
  <1> DEFINE level == [cask |-> c, left |-> DependsOnCasks[c]]
  <1>1. level \in Levels /\ level.cask = c /\ level.left = DependsOnCasks[c]
    BY CaskDepsAssumption DEF Levels
  <1> HIDE DEF level
  <1>2. /\ t \in Seq(Levels) /\ Len(t) = Len(s) + 1 /\ Len(s) \in Nat
        /\ DOMAIN s = 1..Len(s) /\ DOMAIN t = 1..(Len(s) + 1)
        /\ \A i \in 1..Len(s) : t[i] = s[i]
        /\ t[Len(s) + 1] = level
    BY <1>1, AppendProperties, LenProperties DEF level
  <1>3. DistinctTokens(t)
    <2> SUFFICES ASSUME NEW i \in DOMAIN t, NEW j \in DOMAIN t,
                        TokenOf[t[i].cask] = TokenOf[t[j].cask]
                 PROVE  i = j
      BY DEF DistinctTokens
    <2>1. CASE i \in DOMAIN s /\ j \in DOMAIN s
      BY <1>2, <2>1 DEF DistinctTokens
    <2>2. CASE i \notin DOMAIN s /\ j \notin DOMAIN s
      BY <1>2, <2>2
    <2>3. CASE i \in DOMAIN s /\ j \notin DOMAIN s
      BY <1>1, <1>2, <2>3
    <2>4. CASE i \notin DOMAIN s /\ j \in DOMAIN s
      BY <1>1, <1>2, <2>4
    <2> QED BY <2>1, <2>2, <2>3, <2>4
  <1>4. Awaits(t, have, {})
    <2> SUFFICES ASSUME NEW i \in DOMAIN t, NEW d \in ToSet(DependsOnCasks[t[i].cask])
                 PROVE  \/ d \in have \/ d \in ToSet(t[i].left)
                        \/ i < Len(t) /\ d = t[i + 1].cask
      BY DEF Awaits
    <2>1. CASE i \in DOMAIN s
      <3>1. /\ t[i] = s[i] /\ i < Len(t) /\ i \in 1..Len(s)
            /\ i = Len(s) => t[i + 1].cask = c
            /\ i < Len(s) => t[i + 1] = s[i + 1]
        BY <1>1, <1>2, <2>1
      <3> QED BY <2>1, <3>1 DEF Awaits
    <2>2. CASE i \notin DOMAIN s
      BY <1>1, <1>2, <2>2
    <2> QED BY <2>1, <2>2
  <1> QED BY <1>2, <1>3, <1>4

LEMMA AskForCasksKeeps ==
    ASSUME CaskDepsInv, NEW names \in CaskRequests, AskForCasks(names)
    PROVE  CaskDepsInv'
  BY CaskDepsTypes, CaskDepsAssumption, NoneNested DEF CaskDepsInv, AskForCasks

LEMMA NextCaskKeeps ==
    ASSUME CaskDepsInv, NextCask
    PROVE  CaskDepsInv'
  <1>1. /\ haveCasks' \subseteq CaskNames /\ haveFormulas' \subseteq DependsOnFormulas
        /\ nested = <<>> /\ nested \in Seq(Levels)
        /\ UNCHANGED <<haveCasks, haveFormulas>>
    BY CaskDepsTypes DEF CaskDepsInv, NextCask
  <1>2. /\ Head(namesLeft) \in CaskNames /\ Tail(namesLeft) \in Seq(CaskNames)
    BY CaskDepsTypes, HeadTailProperties DEF CaskDepsInv, NextCask
  <1>3. namesLeft' \in Seq(CaskNames)
    <2>1. namesLeft' = Tail(namesLeft) \/ namesLeft' = <<>>
      BY DEF NextCask, FailNested
    <2> QED BY <1>2, <2>1, EmptySeq
  <1>4. CASE nested' = <<>>
    BY <1>1, <1>3, <1>4, NoneNested
  <1>5. CASE Enter(Head(namesLeft), nested)
    <2>1. DistinctTokens(nested) /\ Awaits(nested, haveCasks, {Head(namesLeft)})
      BY <1>1 DEF DistinctTokens, Awaits
    <2>2. \A i \in DOMAIN nested : TokenOf[nested[i].cask] # TokenOf[Head(namesLeft)]
      BY <1>1
    <2>3. nested' = Append(nested, [cask |-> Head(namesLeft),
                                   left |-> DependsOnCasks[Head(namesLeft)]])
      BY <1>5 DEF Enter
    <2>4. /\ nested' \in Seq(Levels) /\ DistinctTokens(nested')
          /\ Awaits(nested', haveCasks, {})
      BY <1>1, <1>2, <2>1, <2>2, <2>3, EnterAwaits
    <2> QED BY <1>1, <1>3, <2>4, Nested
  <1> QED BY <1>1, <1>4, <1>5 DEF NextCask, FailNested

LEMMA InstallFormulasKeeps ==
    ASSUME CaskDepsInv, InstallFormulas
    PROVE  CaskDepsInv'
  <1>1. haveCasks' \subseteq CaskNames /\ haveFormulas' \subseteq DependsOnFormulas
    BY CaskDepsTypes DEF CaskDepsInv, InstallFormulas
  <1>2. CASE FailNested
    BY <1>1, <1>2, NoneNested DEF FailNested
  <1>3. CASE UNCHANGED <<namesLeft, nested>>
    BY <1>1, <1>3, CaskDepsTypes, Nested DEF CaskDepsInv, InstallFormulas
  <1> QED BY <1>2, <1>3 DEF InstallFormulas

LEMMA NextDependencyKeeps ==
    ASSUME CaskDepsInv, NextDependency
    PROVE  CaskDepsInv'
  <1> DEFINE e     == Len(nested)
             d     == Head(Innermost.left)
             outer == [nested EXCEPT ![e].left = Tail(@)]
  <1>1. /\ haveCasks' \subseteq CaskNames /\ haveFormulas' \subseteq DependsOnFormulas
        /\ UNCHANGED haveCasks
    BY CaskDepsTypes DEF CaskDepsInv, NextDependency
  <1>2. /\ nested \in Seq(Levels) /\ e \in DOMAIN nested /\ DOMAIN nested = 1..e
        /\ e \in Nat /\ \A i \in 1..e : nested[i] \in Levels
        /\ Innermost = nested[e]
    <2>1. nested \in Seq(Levels) /\ nested # <<>>
      BY CaskDepsTypes DEF CaskDepsInv, NextDependency, FormulasReady
    <2> QED BY <2>1, EmptySeq, LenProperties, ElementOfSeq DEF Innermost, Last
  <1>3. /\ nested[e].left \in Seq(CaskNames) /\ nested[e].left # <<>>
        /\ d \in CaskNames /\ Tail(nested[e].left) \in Seq(CaskNames)
    <2>1. nested[e].left \in Seq(CaskNames) /\ nested[e].left # <<>>
      BY <1>2 DEF NextDependency, Levels
    <2> QED BY <1>2, <2>1, HeadTailProperties
  <1>4. \A x \in ToSet(nested[e].left) : x = d \/ x \in ToSet(Tail(nested[e].left))
    <2> DEFINE l == nested[e].left
    <2>1. /\ Len(l) \in Nat \ {0} /\ DOMAIN l = 1..Len(l)
          /\ Len(Tail(l)) = Len(l) - 1 /\ DOMAIN Tail(l) = 1..Len(Tail(l))
          /\ \A i \in 1..Len(Tail(l)) : Tail(l)[i] = l[i + 1]
          /\ d = l[1]
      BY <1>2, <1>3, HeadTailProperties, LenProperties, EmptySeq
    <2> SUFFICES ASSUME NEW i \in DOMAIN l, i # 1
                 PROVE  l[i] \in ToSet(Tail(l))
      BY <2>1 DEF ToSet
    <2>2. i - 1 \in DOMAIN Tail(l) /\ Tail(l)[i - 1] = l[i]
      BY <2>1
    <2> QED BY <2>2 DEF ToSet
  <1>5. /\ outer \in Seq(Levels) /\ Len(outer) = e /\ DOMAIN outer = 1..e
        /\ \A i \in 1..e : /\ outer[i].cask = nested[i].cask
                           /\ i # e => outer[i].left = nested[i].left
        /\ outer[e].left = Tail(nested[e].left)
    <2>1. [nested[e] EXCEPT !.left = Tail(@)] \in Levels
      BY <1>2, <1>3 DEF Levels
    <2>2. outer = [nested EXCEPT ![e] = [nested[e] EXCEPT !.left = Tail(@)]]
      BY <1>2
    <2>3. outer \in Seq(Levels) /\ Len(outer) = e
      BY <1>2, <2>1, <2>2, ExceptSeq
    <2> QED BY <1>2, <2>2, <2>3 DEF Levels
  <1>6. DistinctTokens(outer) /\ Awaits(outer, haveCasks, {d})
    <2>1. DistinctTokens(outer)
      BY <1>2, <1>5 DEF CaskDepsInv, DistinctTokens
    <2> SUFFICES ASSUME NEW i \in 1..e, NEW x \in ToSet(DependsOnCasks[nested[i].cask])
                 PROVE  \/ x \in haveCasks \/ x \in ToSet(outer[i].left)
                        \/ i < e /\ x = outer[i + 1].cask
                        \/ i = e /\ x = d
      BY <1>5, <2>1 DEF Awaits
    <2>2. \/ x \in haveCasks \/ x \in ToSet(nested[i].left)
          \/ i < e /\ x = nested[i + 1].cask
      BY <1>2 DEF CaskDepsInv, Awaits
    <2> QED BY <1>2, <1>4, <1>5, <2>2
  <1> HIDE DEF outer, d
  <1>7. CASE FailNested
    BY <1>1, <1>7, NoneNested DEF FailNested
  <1>8. CASE ~FailNested
    <2>1. /\ IF d \in haveCasks THEN nested' = outer ELSE Enter(d, outer)
          /\ UNCHANGED namesLeft
      BY <1>8 DEF NextDependency, outer, d
    <2>2. namesLeft' \in Seq(CaskNames)
      <3>1. namesLeft \in Seq(CaskNames)
        BY CaskDepsTypes DEF CaskDepsInv
      <3> QED BY <2>1, <3>1
    <2>3. /\ nested' \in Seq(Levels) /\ DistinctTokens(nested')
          /\ Awaits(nested', haveCasks, {})
      <3>1. CASE d \in haveCasks
        BY <1>5, <1>6, <2>1, <3>1 DEF Awaits
      <3>2. CASE d \notin haveCasks
        <4>1. \A i \in DOMAIN outer : TokenOf[outer[i].cask] # TokenOf[d]
          BY <1>2, <1>5, <2>1, <3>2 DEF Enter, DependencyStack
        <4> QED BY <1>3, <1>5, <1>6, <2>1, <3>2, <4>1, EnterAwaits DEF Enter, d
      <3> QED BY <3>1, <3>2
    <2> QED BY <1>1, <2>2, <2>3, Nested
  <1> QED BY <1>7, <1>8

\* The innermost install has nothing left: what it depends on is there.
LEMMA InnermostIsReady ==
    ASSUME CaskDepsInv, nested # <<>>, Innermost.left = <<>>
    PROVE  /\ Innermost.cask \in CaskNames
           /\ ToSet(DependsOnCasks[Innermost.cask]) \subseteq haveCasks
  <1>1. /\ nested \in Seq(Levels) /\ Len(nested) \in DOMAIN nested
        /\ Innermost = nested[Len(nested)] /\ nested[Len(nested)] \in Levels
        /\ Len(nested) \in Nat
    BY CaskDepsTypes, EmptySeq, LenProperties, ElementOfSeq
       DEF CaskDepsInv, Innermost, Last
  <1>2. ToSet(Innermost.left) = {}
    BY DEF ToSet
  <1> QED BY <1>1, <1>2 DEF CaskDepsInv, Awaits, Levels

LEMMA InstallItselfKeeps ==
    ASSUME CaskDepsInv, InstallItself
    PROVE  CaskDepsInv'
  <1>1. /\ nested \in Seq(Levels) /\ Len(nested) \in DOMAIN nested
        /\ DOMAIN nested = 1..Len(nested)
        /\ Len(nested) \in Nat /\ Innermost = nested[Len(nested)]
    BY CaskDepsTypes, EmptySeq, LenProperties
       DEF CaskDepsInv, Innermost, Last, InstallItself, FormulasReady
  <1>2. /\ Innermost.cask \in CaskNames
        /\ haveCasks' \subseteq CaskNames /\ haveFormulas' \subseteq DependsOnFormulas
    BY CaskDepsTypes, InnermostIsReady DEF CaskDepsInv, InstallItself, FormulasReady
  <1>3. CASE FailNested
    BY <1>2, <1>3, NoneNested DEF FailNested
  <1>4. CASE ~FailNested
    <2>1. /\ haveCasks' = haveCasks \cup {Innermost.cask}
          /\ nested' = Front(nested) /\ UNCHANGED namesLeft
      BY <1>4 DEF InstallItself
    <2>2. /\ nested' \in Seq(Levels) /\ Len(nested') = Len(nested) - 1
          /\ DOMAIN nested' = 1..(Len(nested) - 1)
          /\ \A i \in 1..(Len(nested) - 1) : nested'[i] = nested[i]
      <3>1. /\ \A i \in 1..(Len(nested) - 1) : nested[i] \in Levels
            /\ 1 \in Int /\ Len(nested) - 1 \in Int
        BY <1>1, ElementOfSeq
      <3>2. nested' = SubSeq(nested, 1, Len(nested) - 1)
        BY <2>1 DEF Front
      <3> QED BY <1>1, <3>1, <3>2
    <2>3. DistinctTokens(nested')
      BY <1>1, <2>2 DEF CaskDepsInv, DistinctTokens
    <2>4. Awaits(nested', haveCasks', {})
      <3> SUFFICES ASSUME NEW i \in 1..(Len(nested) - 1),
                          NEW x \in ToSet(DependsOnCasks[nested[i].cask])
                   PROVE  \/ x \in haveCasks' \/ x \in ToSet(nested[i].left)
                          \/ i < Len(nested') /\ x = nested'[i + 1].cask
        BY <2>2 DEF Awaits
      <3>1. \/ x \in haveCasks \/ x \in ToSet(nested[i].left)
            \/ i < Len(nested) /\ x = nested[i + 1].cask
        BY <1>1 DEF CaskDepsInv, Awaits
      <3> QED BY <1>1, <2>1, <2>2, <3>1
    <2> QED BY <1>2, <2>1, <2>2, <2>3, <2>4, CaskDepsTypes, Nested DEF CaskDepsInv
  <1> QED BY <1>3, <1>4

LEMMA CaskDepsStep ==
    ASSUME CaskDepsInv, [CaskDepsNext]_caskDepsVars
    PROVE  CaskDepsInv'
  <1>1. CASE UNCHANGED caskDepsVars
    BY <1>1 DEF caskDepsVars, CaskDepsInv, CaskDepsTypeOK, DistinctTokens, Awaits
  <1>2. ASSUME NEW name \in CaskNames, ForgetDependency(name)
        PROVE  CaskDepsInv'
    BY <1>2, CaskDepsTypes, NoneNested DEF CaskDepsInv, ForgetDependency
  <1> QED BY <1>1, <1>2, AskForCasksKeeps, NextCaskKeeps, InstallFormulasKeeps,
             NextDependencyKeeps, InstallItselfKeeps DEF CaskDepsNext, NestedStep

\* Only the end of an install adds a cask, and its dependencies are there then.
LEMMA RowAfterDependencies ==
    ASSUME CaskDepsInv, [CaskDepsNext]_caskDepsVars,
           NEW c \in haveCasks' \ haveCasks
    PROVE  /\ ToSet(DependsOnCasks[c]) \subseteq haveCasks
           /\ c \in DependsOnFormulas => c \in haveFormulas
  <1>1. InstallItself /\ c = Innermost.cask
    BY DEF CaskDepsNext, NestedStep, AskForCasks, NextCask, InstallFormulas,
           NextDependency, InstallItself, ForgetDependency, caskDepsVars
  <1> QED BY <1>1, InnermostIsReady DEF InstallItself, FormulasReady

\* The types of casks that depend on casks, and what the installs under way wait for.
THEOREM CaskDepsInductive == CaskDepsSpec => []CaskDepsInv
  <1>1. CaskDepsInv /\ [CaskDepsNext]_caskDepsVars => CaskDepsInv'
    BY CaskDepsStep
  <1> QED BY <1>1, CaskDepsStarts, PTL DEF CaskDepsSpec

\* install_cask_dependencies: whatever casks depend on each other, under whichever
\* names they are asked for, a cask gets its row after all that it depends on.
THEOREM DependenciesCorrect == CaskDepsSpec => DependenciesFirst
  <1>1. CaskDepsInv /\ [CaskDepsNext]_caskDepsVars =>
            [\A c \in haveCasks' \ haveCasks :
                /\ ToSet(DependsOnCasks[c]) \subseteq haveCasks
                /\ c \in DependsOnFormulas => c \in haveFormulas]_caskDepsVars
    BY RowAfterDependencies
  <1> QED BY <1>1, CaskDepsInductive, PTL DEF CaskDepsSpec, DependenciesFirst

-----------------------------------------------------------------------------
(* Casks.  What was placed of a cask that is not recorded, or is being     *)
(* removed, is known by its phase.                                         *)

InPlace(a) == path[TargetOf[a]] = a

Placeable(c) == {a \in DOMAIN TargetOf : CaskOf[a] = c}

\* No artifact of c is in its place.
Absent(c) == \A a \in Placeable(c) \ torn : ~InPlace(a)

\* An artifact is at its target, or an appimage at its other target.
PlacesFit ==
    \A p \in Paths : path[p] \in Artifacts =>
        /\ path[p] \in DOMAIN TargetOf
        /\ \/ p = TargetOf[path[p]]
           \/ path[p] \in DOMAIN OtherTarget /\ p = OtherTarget[path[p]]

\* The artifacts of RecordedCasksAreWhole.
Counting(c) ==
    {a \in Of(c) \ torn : /\ KindOf[a] \in MovedKinds \cup {"appimage"}
                          /\ Alone(a) /\ ~InOtherDirectory(a)}

Together(c) == \A a, b \in Counting(c) : InPlace(a) <=> InPlace(b)

Excused(c) == c \in caskKegs \/ Of(c) \cap torn # {} \/ MayStageNothing(c)

KegsFit == \A c \in caskRows : Excused(c)

Busy(c) == job.at # "idle" /\ job.cask = c

\* A cask no command is at.
Settled(c) == /\ ~(c \in caskRows /\ c \in caskKegs) => Absent(c)
              /\ c \in caskRows => Together(c)

Installing == {"stage", "link", "place", "record"}

\* What the install of a has placed.
Put(a) == IF KindOf[a] = "appimage" THEN path[ImagePath(a, job.other)] = a ELSE InPlace(a)

\* Of what is wanted nothing is staged or placed.
NothingStaged == Absent(job.cask) /\ \A a \in job.wanted : KindOf[a] = "installer"

JobFits ==
    /\ job.wanted \subseteq Of(job.cask) /\ job.todo \subseteq Of(job.cask)
    /\ job.op = "install" /\ job.cask \in caskRows =>
           Of(job.cask) \cap torn # {} \/ MayStageNothing(job.cask)
    /\ job.at \in Installing =>
           /\ job.op = "install" /\ job.todo \subseteq job.wanted
           /\ \A a \in Of(job.cask) : KindOf[a] = "binary" \/ a \in job.wanted
    /\ job.at \in Installing \ {"stage"} => job.cask \in caskKegs \/ NothingStaged
    /\ job.at \in {"link", "place"} => job.link
    /\ job.at = "link" => job.todo = job.wanted
    /\ job.at \in {"stage", "link", "record", "unrecord", "keg"} => Absent(job.cask)
    /\ job.at = "stage" =>
           \A a \in job.wanted \ job.todo :
               KindOf[a] # "installer" => staged[a] = "content" /\ job.cask \in caskKegs
    /\ job.at \in {"link", "place"} =>
           \A a \in job.todo : KindOf[a] # "installer" => staged[a] = "content"
    /\ job.at = "place" =>
           \A a \in job.wanted \ job.todo :
               KindOf[a] \in MovedKinds \cup {"appimage"} => Put(a)
    /\ job.at \in {"place", "unlink", "moved", "images"} /\ job.other =>
           \A a \in Placeable(job.cask) \ torn : KindOf[a] = "appimage" => ~InPlace(a)
    /\ job.at = "moved" =>
           /\ \A a \in job.todo : KindOf[a] \in MovedKinds /\ staged[a] = "link"
           /\ \A a \in Placeable(job.cask) \ torn :
                  InPlace(a) => KindOf[a] = "appimage" \/ a \in job.todo
    /\ job.at = "images" =>
           \A a \in Placeable(job.cask) \ torn : InPlace(a) => KindOf[a] = "appimage"
    /\ job.at = "unrecord" => job.op = "uninstall"
    /\ job.at = "keg" /\ job.op = "uninstall" => job.cask \notin caskRows

\* The inductive invariant.
CaskInv == /\ CaskTypeOK /\ NoOrphans /\ PlacesFit /\ KegsFit
           /\ \A c \in Casks : ~Busy(c) => Settled(c)
           /\ job.at # "idle" => JobFits

JobTypes == [at : Phases, op : {"install", "uninstall"}, cask : Casks,
             force : BOOLEAN, link : BOOLEAN, other : BOOLEAN,
             wanted : SUBSET Artifacts, todo : SUBSET Artifacts]

\* What the assumption says of targets.
LEMMA Targets ==
    /\ \A a \in Artifacts : CaskOf[a] \in Casks /\ KindOf[a] \in DOMAIN StageRank
    /\ \A a \in Artifacts : KindOf[a] \notin {"pkg", "installer"} <=> a \in DOMAIN TargetOf
    /\ DOMAIN TargetOf \subseteq Artifacts
    /\ \A a \in DOMAIN TargetOf : TargetOf[a] \in Paths
    /\ \A a \in Artifacts : KindOf[a] = "appimage" <=> a \in DOMAIN OtherTarget
    /\ DOMAIN OtherTarget \subseteq DOMAIN TargetOf
    /\ \A a \in DOMAIN OtherTarget : OtherTarget[a] \in Paths
    /\ \A a, b \in DOMAIN TargetOf : a # b /\ CaskOf[a] = CaskOf[b] => TargetOf[a] # TargetOf[b]
    /\ \A a \in DOMAIN OtherTarget, b \in DOMAIN TargetOf : OtherTarget[a] # TargetOf[b]
    /\ \A a, b \in DOMAIN OtherTarget :
          OtherTarget[a] = OtherTarget[b] <=> TargetOf[a] = TargetOf[b]
    /\ Free \notin Artifacts /\ User \notin Artifacts /\ Free # User
  BY CaskAssumption DEF CaskAssumption, Paths

LEMMA CaskTypes ==
    CaskTypeOK => /\ path \in [Paths -> {Free, User} \cup Artifacts]
                  /\ staged \in [Artifacts -> {"no", "content", "link"}]
                  /\ caskKegs \subseteq Casks /\ caskRows \subseteq Casks
                  /\ torn \subseteq Artifacts /\ job \in JobTypes
  BY DEF CaskTypeOK, JobTypes

LEMMA NoJobTypes == NoJob \in JobTypes /\ NoJob.at = "idle"
  BY CaskAssumption DEF NoJob, JobTypes, Phases, CaskAssumption

LEMMA CaskStarts == CaskInit => CaskInv
  <1> SUFFICES ASSUME CaskInit PROVE CaskInv
    OBVIOUS
  <1>1. CaskTypeOK /\ job.at = "idle"
    BY NoJobTypes DEF CaskInit, CaskTypeOK, JobTypes
  <1>2. \A p \in Paths : path[p] \notin Artifacts
    BY Targets DEF CaskInit
  <1>3. \A c \in Casks : Absent(c)
    BY <1>2, Targets DEF Absent, Placeable, InPlace
  <1> QED BY <1>1, <1>2, <1>3 DEF CaskInit, CaskInv, NoOrphans, PlacesFit, KegsFit, Settled

\* What a step of a command for the cask c may do: to the paths that hold or get
\* its artifacts, and to its keg and row.
OwnStep(c) ==
    /\ \A p \in Paths : path'[p] # path[p] =>
          /\ path'[p] \in {Free} \cup Placeable(c)
          /\ \/ path[p] \in Of(c)
             \/ \E b \in Placeable(c) :
                   p = TargetOf[b] \/ (b \in DOMAIN OtherTarget /\ p = OtherTarget[b])
          /\ path'[p] # Free =>
                \/ p = TargetOf[path'[p]]
                \/ path'[p] \in DOMAIN OtherTarget /\ p = OtherTarget[path'[p]]
    /\ \A a \in Artifacts \ Of(c) : staged'[a] = staged[a]
    /\ \A d \in Casks \ {c} : /\ d \in caskKegs' <=> d \in caskKegs
                              /\ d \in caskRows' <=> d \in caskRows
    /\ torn \subseteq torn' /\ torn' \subseteq torn \cup Of(c)

\* Such a step leaves the other casks as they were.
LEMMA OthersSettled ==
    ASSUME CaskTypeOK, PlacesFit, NEW c \in Casks, OwnStep(c),
           NEW d \in Casks, d # c, Settled(d)
    PROVE  Settled(d)'
  <1>1. \A a \in Of(d) : a \in Artifacts /\ a \notin Of(c) /\ (a \in torn' <=> a \in torn)
    BY DEF Of, OwnStep
  <1>2. \A a \in Placeable(d) : InPlace(a)' => InPlace(a)
    <2> SUFFICES ASSUME NEW a \in Placeable(d), InPlace(a)' PROVE InPlace(a)
      OBVIOUS
    <2>1. a \notin Placeable(c) /\ a # Free /\ TargetOf[a] \in Paths
      BY Targets DEF Placeable
    <2> QED BY <2>1 DEF OwnStep, InPlace
  <1>3. \A a \in Of(d) : Alone(a) /\ a \in DOMAIN TargetOf =>
            /\ InPlace(a)' <=> InPlace(a)
            /\ InOtherDirectory(a)' <=> InOtherDirectory(a)
    <2> SUFFICES ASSUME NEW a \in Of(d), Alone(a), a \in DOMAIN TargetOf
                 PROVE  /\ InPlace(a)' <=> InPlace(a)
                        /\ InOtherDirectory(a)' <=> InOtherDirectory(a)
      OBVIOUS
    <2>1. \A b \in Placeable(c) : /\ b # a /\ TargetOf[b] # TargetOf[a]
                                  /\ b \in DOMAIN TargetOf
      BY DEF Placeable, Of, Alone
    <2>2. ASSUME NEW p \in Paths
          PROVE  path[p] = a <=> path'[p] = a
      <3>1. a # Free /\ a \notin Placeable(c) /\ a \notin Of(c) /\ a \in Artifacts
        BY Targets DEF Placeable, Of
      <3>2. path'[p] = a => path[p] = a
        BY <3>1 DEF OwnStep
      <3>3. CASE path[p] = a /\ path'[p] # a
        <4>1. p = TargetOf[a] \/ (a \in DOMAIN OtherTarget /\ p = OtherTarget[a])
          BY <3>1, <3>3 DEF PlacesFit
        <4>2. PICK b \in Placeable(c) :
                  p = TargetOf[b] \/ (b \in DOMAIN OtherTarget /\ p = OtherTarget[b])
          BY <3>1, <3>3 DEF OwnStep
        <4> QED BY <2>1, <4>1, <4>2, Targets
      <3> QED BY <3>2, <3>3
    <2>3. TargetOf[a] \in Paths
      BY Targets
    <2> QED BY <2>2, <2>3 DEF InPlace, InOtherDirectory
  <1>4. Counting(d)' = Counting(d)
    <2>1. \A a \in Of(d) : KindOf[a] \in MovedKinds \cup {"appimage"} => a \in DOMAIN TargetOf
      BY Targets DEF Of, MovedKinds
    <2>2. \A a \in Of(d) : a \in Counting(d)' <=> a \in Counting(d)
      BY <1>1, <1>3, <2>1 DEF Counting
    <2> QED BY <2>2 DEF Counting
  <1>5. \A a \in Counting(d) : InPlace(a)' <=> InPlace(a)
    BY <1>3, Targets DEF Counting, Of, MovedKinds
  <1>6. Together(d) => Together(d)'
    BY <1>4, <1>5 DEF Together
  <1>7. Absent(d) => Absent(d)'
    BY <1>1, <1>2 DEF Absent, Placeable, Of, OwnStep
  <1> QED BY <1>6, <1>7 DEF Settled, OwnStep

\* The invariant, from what a step of c's command leaves of c.
LEMMA OwnKeeps ==
    ASSUME CaskInv, NEW c \in Casks, job.at = "idle" \/ job.cask = c, OwnStep(c),
           CaskTypeOK',
           \A a \in Placeable(c) \ torn' : InPlace(a)' => Backed(a)',
           c \in caskRows' => Excused(c)',
           \/ job'.at = "idle" /\ Settled(c)'
           \/ job'.at # "idle" /\ job'.cask = c /\ JobFits'
    PROVE  CaskInv'
  <1>1. PlacesFit'
    <2> SUFFICES ASSUME NEW p \in Paths, path'[p] \in Artifacts
                 PROVE  /\ path'[p] \in DOMAIN TargetOf
                        /\ \/ p = TargetOf[path'[p]]
                           \/ path'[p] \in DOMAIN OtherTarget /\ p = OtherTarget[path'[p]]
      BY DEF PlacesFit
    <2>1. CASE path'[p] = path[p]
      BY <2>1 DEF CaskInv, PlacesFit
    <2>2. CASE path'[p] # path[p]
      BY <2>2, Targets DEF OwnStep, Placeable
    <2> QED BY <2>1, <2>2
  <1>2. NoOrphans'
    <2> SUFFICES ASSUME NEW p \in Paths, NEW a \in Artifacts \ torn', path'[p] = a,
                        p = TargetOf[a]
                 PROVE  Backed(a)'
      BY DEF NoOrphans
    <2>1. a \in DOMAIN TargetOf /\ InPlace(a)'
      BY <1>1 DEF PlacesFit, InPlace
    <2>2. CASE CaskOf[a] = c
      BY <2>1, <2>2 DEF Placeable
    <2>3. CASE CaskOf[a] # c
      <3>1. path[p] = a /\ a \notin Of(c) /\ a \notin torn
        BY <2>3, Targets DEF OwnStep, Placeable, Of
      <3>2. Backed(a)
        BY <3>1 DEF CaskInv, NoOrphans
      <3> QED BY <3>1, <3>2 DEF OwnStep, Backed
    <2> QED BY <2>2, <2>3
  <1>3. KegsFit'
    <2> SUFFICES ASSUME NEW d \in caskRows', d # c
                 PROVE  Excused(d)'
      BY DEF KegsFit
    <2>1. d \in Casks
      BY CaskTypes DEF CaskTypeOK
    <2> QED BY <2>1 DEF CaskInv, KegsFit, Excused, OwnStep
  <1>4. \A d \in Casks : ~Busy(d)' => Settled(d)'
    <2> SUFFICES ASSUME NEW d \in Casks, d # c
                 PROVE  Settled(d)'
      BY DEF Busy
    <2>1. Settled(d)
      BY DEF CaskInv, Busy
    <2> QED BY <2>1, OthersSettled DEF CaskInv
  <1> QED BY <1>1, <1>2, <1>3, <1>4 DEF CaskInv

-----------------------------------------------------------------------------
(* The steps of an install.                                                *)

LEMMA InstallCaskKeeps ==
    ASSUME CaskInv, NEW c \in Casks, NEW force \in BOOLEAN, NEW link \in BOOLEAN,
           NEW binaries \in BOOLEAN, NEW other \in BOOLEAN,
           InstallCask(c, force, link, binaries, other)
    PROVE  CaskInv'
  <1> DEFINE wanted == {a \in Of(c) : KindOf[a] = "binary" => binaries}
             todo   == {a \in wanted : KindOf[a] # "installer"}
  <1>1. /\ job.at = "idle" /\ ~(c \in caskRows /\ c \in caskKegs)
        /\ job' = [at |-> "stage", op |-> "install", cask |-> c, force |-> force,
                   link |-> link, other |-> other, wanted |-> wanted, todo |-> todo]
        /\ UNCHANGED <<path, staged, caskKegs, caskRows, torn>>
    BY DEF InstallCask
  <1>2. wanted \in SUBSET Artifacts /\ todo \in SUBSET Artifacts
    BY DEF Of
  <1>3. CaskTypeOK'
    <2>1. job' \in JobTypes
      BY <1>1, <1>2 DEF JobTypes, Phases
    <2> QED BY <1>1, <2>1 DEF CaskInv, CaskTypeOK, JobTypes
  <1>4. OwnStep(c)
    BY <1>1 DEF OwnStep
  <1>5. Absent(c) /\ (c \in caskRows => Of(c) \cap torn # {} \/ MayStageNothing(c))
    BY <1>1 DEF CaskInv, Busy, Settled, KegsFit, Excused
  <1>6. JobFits'
    BY <1>1, <1>5 DEF JobFits, Absent, Installing, InPlace
  <1>7. \A a \in Placeable(c) \ torn' : InPlace(a)' => Backed(a)'
    BY <1>1, <1>5 DEF Absent, InPlace
  <1>8. c \in caskRows' => Excused(c)'
    BY <1>1, <1>5 DEF Excused
  <1> QED BY <1>1, <1>3, <1>4, <1>6, <1>7, <1>8, OwnKeeps

\* What is known of the job in hand.
LEMMA AtJob ==
    ASSUME CaskInv, job.at # "idle"
    PROVE  /\ JobFits /\ job.cask \in Casks /\ job \in JobTypes
           /\ job.wanted \subseteq Of(job.cask) /\ job.todo \subseteq Of(job.cask)
           /\ \A a \in Of(job.cask) : a \in Artifacts /\ CaskOf[a] = job.cask
           /\ \A a \in Placeable(job.cask) \ torn : InPlace(a) => Backed(a)
           /\ job.cask \in caskRows => Excused(job.cask)
  <1>1. job \in JobTypes /\ JobFits
    BY CaskTypes DEF CaskInv
  <1>2. \A a \in Placeable(job.cask) \ torn : InPlace(a) => Backed(a)
    BY Targets DEF CaskInv, NoOrphans, Placeable, InPlace
  <1> QED BY <1>1, <1>2 DEF JobTypes, JobFits, Of, CaskInv, KegsFit

\* The rollback of an install begins, after a step that placed at most what is torn.
LEMMA FailKeeps ==
    ASSUME CaskInv, NEW c \in Casks, job.cask = c, job.at \in Installing, Fail, UNCHANGED <<caskKegs, caskRows>>,
           OwnStep(c), CaskTypeOK',
           \A a \in Placeable(c) \ torn' :
               InPlace(a)' <=> InPlace(a) /\ staged'[a] = staged[a]
    PROVE  CaskInv'
  <1>1. job.at # "idle"
    BY DEF Installing
  <1>2. /\ job' = [job EXCEPT !.at = IF job.link THEN "unlink" ELSE "keg", !.todo = {}]
        /\ job'.cask = c /\ job'.wanted = job.wanted /\ job'.todo = {}
        /\ job'.op = job.op /\ job'.other = job.other /\ job'.link = job.link
        /\ job'.at = IF job.link THEN "unlink" ELSE "keg"
    BY <1>1, AtJob DEF Fail, JobTypes
  <1>3. \A a \in Placeable(c) \ torn' : InPlace(a)' => Backed(a)'
    BY <1>1, AtJob DEF OwnStep, Backed
  <1>4. ~job.link => Absent(c)
    BY <1>1, AtJob DEF JobFits, Installing
  <1>5. Absent(c) => Absent(c)'
    BY DEF Absent, OwnStep
  <1>6. job.other =>
            \A a \in Placeable(c) \ torn' : KindOf[a] = "appimage" => ~InPlace(a)'
    <2> SUFFICES ASSUME job.other, NEW a \in Placeable(c) \ torn', KindOf[a] = "appimage"
                 PROVE  ~InPlace(a)'
      OBVIOUS
    <2>1. a \notin torn
      BY DEF OwnStep
    <2>2. ~InPlace(a)
      BY <1>1, <2>1, AtJob DEF JobFits, Installing, Absent
    <2> QED BY <2>2
  <1>7. job.op = "install" /\ (c \in caskRows' => Of(c) \cap torn' # {} \/ MayStageNothing(c))
    BY <1>1, AtJob DEF JobFits, OwnStep
  <1>9. c \in caskRows' => Excused(c)'
    BY <1>7 DEF Excused
  <1>8. JobFits'
    BY <1>1, <1>2, <1>4, <1>5, <1>6, <1>7, AtJob DEF JobFits, Installing
  <1> QED BY <1>1, <1>2, <1>3, <1>8, <1>9, AtJob, OwnKeeps

LEMMA StageOneKeeps ==
    ASSUME CaskInv, NEW c \in Casks, job.cask = c, NEW x \in Artifacts, StageOne(x)
    PROVE  CaskInv'
  <1>1. /\ job.at = "stage" /\ x \in job.todo
        /\ staged' = [staged EXCEPT ![x] = "content"]
        /\ caskKegs' = caskKegs \cup {c}
        /\ job' = [job EXCEPT !.todo = @ \ {x}]
        /\ UNCHANGED <<path, caskRows, torn>>
    BY DEF StageOne, Ranked
  <1>2. /\ JobFits /\ c \in Casks /\ job \in JobTypes /\ x \in Of(c) /\ Absent(c)
    BY <1>1, AtJob DEF JobFits
  <1>3. CaskTypeOK'
    <2>1. job' \in JobTypes
      BY <1>1, <1>2 DEF JobTypes
    <2> QED BY <1>1, <1>2, <2>1 DEF CaskInv, CaskTypeOK, JobTypes
  <1>4. \A a \in Artifacts : staged'[a] = IF a = x THEN "content" ELSE staged[a]
    BY <1>1 DEF CaskInv, CaskTypeOK
  <1>5. OwnStep(c)
    BY <1>1, <1>2, <1>4 DEF OwnStep
  <1>6. Absent(c)'
    BY <1>1, <1>2 DEF Absent, InPlace
  <1>7. /\ job'.at = "stage" /\ job'.cask = c /\ job'.wanted = job.wanted
        /\ job'.todo = job.todo \ {x} /\ job'.op = job.op
    BY <1>1, <1>2 DEF JobTypes
  <1>8. \A a \in job.wanted \ job'.todo :
            KindOf[a] # "installer" => staged'[a] = "content" /\ c \in caskKegs'
    BY <1>1, <1>2, <1>4, <1>7 DEF JobFits, JobTypes
  <1>9. JobFits'
    BY <1>1, <1>2, <1>6, <1>7, <1>8 DEF JobFits, Installing
  <1>10. \A a \in Placeable(c) \ torn' : ~InPlace(a)'
    BY <1>6 DEF Absent
  <1>11. Excused(c)'
    BY <1>1 DEF Excused
  <1> QED BY <1>1, <1>2, <1>3, <1>5, <1>7, <1>9, <1>10, <1>11, OwnKeeps

LEMMA StageFailsKeeps ==
    ASSUME CaskInv, NEW c \in Casks, job.cask = c, StageFails
    PROVE  CaskInv'
  <1>1. /\ job.at = "stage" /\ Fail
        /\ UNCHANGED <<path, staged, caskKegs, caskRows, torn>>
    BY DEF StageFails
  <1>2. CaskTypeOK'
    <2>1. job' \in JobTypes
      BY <1>1, AtJob DEF Fail, JobTypes, Phases
    <2> QED BY <1>1, <2>1 DEF CaskInv, CaskTypeOK, JobTypes
  <1> QED BY <1>1, <1>2, FailKeeps DEF Installing, OwnStep, InPlace

LEMMA StageEndsKeeps ==
    ASSUME CaskInv, NEW c \in Casks, job.cask = c, StageEnds
    PROVE  CaskInv'
  <1>1. /\ job.at = "stage" /\ job.todo = {}
        /\ job' = [job EXCEPT !.at = IF job.link THEN "link" ELSE "record",
                              !.todo = job.wanted]
        /\ UNCHANGED <<path, staged, caskKegs, caskRows, torn>>
    BY DEF StageEnds
  <1>2. JobFits /\ c \in Casks /\ job \in JobTypes /\ Absent(c)
    BY <1>1, AtJob DEF JobFits
  <1>3. CaskTypeOK'
    <2>1. job' \in JobTypes
      BY <1>1, <1>2 DEF JobTypes, Phases
    <2> QED BY <1>1, <1>2, <2>1 DEF CaskInv, CaskTypeOK, JobTypes
  <1>4. OwnStep(c)
    BY <1>1 DEF OwnStep
  <1>5. Absent(c)'
    BY <1>1, <1>2 DEF Absent, InPlace
  <1>6. /\ job'.cask = c /\ job'.wanted = job.wanted /\ job'.link = job.link
        /\ job'.todo = job.wanted /\ job'.op = job.op
        /\ job'.at = IF job.link THEN "link" ELSE "record"
    BY <1>1, <1>2 DEF JobTypes
  <1>9. c \in caskKegs' \/ NothingStaged'
    BY <1>1, <1>2, <1>5, <1>6 DEF JobFits, NothingStaged
  <1>7. JobFits'
    BY <1>1, <1>2, <1>5, <1>6, <1>9 DEF JobFits, Installing
  <1>8. \A a \in Placeable(c) \ torn' : ~InPlace(a)'
    BY <1>5 DEF Absent
  <1>10. c \in caskRows' => Excused(c)'
    BY <1>1, AtJob DEF Excused
  <1> QED BY <1>1, <1>2, <1>3, <1>4, <1>6, <1>7, <1>8, <1>10, OwnKeeps

\* What binaries are linked is theirs, for they have targets of their own.
LEMMA LinkBinariesKeeps ==
    ASSUME CaskInv, NEW c \in Casks, job.cask = c, LinkBinaries
    PROVE  CaskInv'
  <1> DEFINE bs == {a \in job.todo : KindOf[a] = "binary"}
  <1>1. /\ job.at = "link" /\ UNCHANGED <<staged, caskKegs, caskRows, torn>>
    BY DEF LinkBinaries
  <1>2. JobFits /\ job \in JobTypes /\ Absent(c) /\ job.todo \subseteq Of(c) /\ job.link
    BY <1>1, AtJob DEF JobFits
  <1>3. CASE Fail /\ UNCHANGED path
    <2>1. CaskTypeOK'
      <3>1. job' \in JobTypes
        BY <1>2, <1>3 DEF Fail, JobTypes, Phases
      <3> QED BY <1>1, <1>3, <3>1 DEF CaskInv, CaskTypeOK, JobTypes
    <2> QED BY <1>1, <1>3, <2>1, FailKeeps DEF Installing, OwnStep, InPlace
  <1>4. CASE ~(Fail /\ UNCHANGED path)
    <2>1. /\ path' = [p \in Paths |-> IF \E a \in bs : TargetOf[a] = p
                                      THEN CHOOSE a \in bs : TargetOf[a] = p ELSE path[p]]
          /\ job' = [job EXCEPT !.at = "place", !.todo = @ \ bs]
      BY <1>4 DEF LinkBinaries
    <2>2. \A a \in bs : a \in Placeable(c) /\ a \in Artifacts /\ TargetOf[a] \in Paths
      BY <1>2, Targets DEF Placeable, Of
    <2>3. \A a, b \in bs : TargetOf[a] = TargetOf[b] => a = b
      BY <2>2, Targets DEF Placeable
    <2>4. \A a \in bs : path'[TargetOf[a]] = a
      <3> SUFFICES ASSUME NEW a \in bs PROVE path'[TargetOf[a]] = a
        OBVIOUS
      <3>1. path'[TargetOf[a]] = CHOOSE b \in bs : TargetOf[b] = TargetOf[a]
        BY <2>1, <2>2
      <3>2. (CHOOSE b \in bs : TargetOf[b] = TargetOf[a]) \in bs
            /\ TargetOf[CHOOSE b \in bs : TargetOf[b] = TargetOf[a]] = TargetOf[a]
        OBVIOUS
      <3> QED BY <2>3, <3>1, <3>2
    <2>5. \A p \in Paths : path'[p] = path[p] \/ \E a \in bs : p = TargetOf[a] /\ path'[p] = a
      BY <2>1, <2>4
    <2> HIDE DEF bs
    <2>6. CaskTypeOK'
      <3>1. job' \in JobTypes
        BY <1>2, <2>1 DEF JobTypes, Phases
      <3>2. path' \in [Paths -> {Free, User} \cup Artifacts]
        BY <2>1, <2>2, <2>5, CaskTypes DEF CaskInv
      <3> QED BY <1>1, <3>1, <3>2 DEF CaskInv, CaskTypeOK, JobTypes
    <2>7. OwnStep(c)
      BY <1>1, <2>2, <2>5, Targets DEF OwnStep
    <2>8. \A a \in Placeable(c) \ torn : InPlace(a)' => a \in bs
      BY <1>2, <2>5, Targets DEF Absent, InPlace, Placeable
    <2>9. /\ job'.at = "place" /\ job'.cask = c /\ job'.wanted = job.wanted
          /\ job'.todo = job.todo \ bs /\ job'.op = job.op /\ job'.link = job.link
          /\ job.todo \subseteq job.wanted
      BY <1>1, <1>2, <2>1 DEF JobTypes, JobFits, Installing
    <2>10. \A a \in bs : KindOf[a] = "binary" /\ staged[a] = "content"
      BY <1>1, <1>2 DEF bs, JobFits
    <2>11. \A a \in Placeable(c) \ torn' : InPlace(a)' => Backed(a)'
      BY <1>1, <2>8, <2>10 DEF Backed, MovedKinds
    <2>12. \A a \in job'.wanted \ job'.todo :
               KindOf[a] \notin MovedKinds \cup {"appimage"}
      <3>1. job.todo = job.wanted
        BY <1>1, <1>2 DEF JobFits
      <3> QED BY <2>9, <2>10, <3>1 DEF MovedKinds
    <2>14. c \in caskKegs' \/ NothingStaged'
      <3>1. CASE c \in caskKegs
        BY <1>1, <3>1
      <3>2. CASE NothingStaged
        <4>1. bs = {}
          BY <2>9, <2>10, <3>2 DEF NothingStaged, bs
        <4> QED BY <1>1, <1>2, <2>8, <2>9, <3>2, <4>1 DEF NothingStaged, Absent
      <3> QED BY <1>1, <1>2, <3>1, <3>2 DEF JobFits, Installing
    <2>13. JobFits'
      BY <1>1, <1>2, <2>8, <2>9, <2>10, <2>12, <2>14 DEF JobFits, Installing
    <2>15. c \in caskRows' => Excused(c)'
      BY <1>1, AtJob DEF Excused
    <2> QED BY <1>1, <2>6, <2>7, <2>9, <2>11, <2>13, <2>15, AtJob, OwnKeeps
  <1> QED BY <1>3, <1>4

LEMMA MoveArtifactKeeps ==
    ASSUME CaskInv, NEW c \in Casks, job.cask = c, NEW x \in Artifacts, MoveArtifact(x)
    PROVE  CaskInv'
  <1>1. /\ job.at = "place" /\ x \in job.todo /\ KindOf[x] \in MovedKinds
        /\ UNCHANGED <<caskKegs, caskRows, torn>>
    BY DEF MoveArtifact, Ranked
  <1>2. /\ JobFits /\ job \in JobTypes /\ job.todo \subseteq Of(c) /\ x \in Placeable(c)
        /\ TargetOf[x] \in Paths /\ x \in DOMAIN TargetOf
    BY <1>1, AtJob, Targets DEF MovedKinds, Placeable, Of
  <1>3. CASE Fail /\ UNCHANGED <<path, staged>>
    <2>1. CaskTypeOK'
      <3>1. job' \in JobTypes
        BY <1>2, <1>3 DEF Fail, JobTypes, Phases
      <3> QED BY <1>1, <1>3, <3>1 DEF CaskInv, CaskTypeOK, JobTypes
    <2> QED BY <1>1, <1>3, <2>1, FailKeeps DEF Installing, OwnStep, InPlace
  <1>4. CASE ~(Fail /\ UNCHANGED <<path, staged>>)
    <2>1. /\ path' = [path EXCEPT ![TargetOf[x]] = x]
          /\ staged' = [staged EXCEPT ![x] = "link"]
          /\ job' = [job EXCEPT !.todo = @ \ {x}]
      BY <1>4 DEF MoveArtifact
    <2>2. CaskTypeOK'
      <3>1. job' \in JobTypes
        BY <1>2, <2>1 DEF JobTypes
      <3>2. path' \in [Paths -> {Free, User} \cup Artifacts]
        BY <2>1, CaskTypes DEF CaskInv
      <3> QED BY <1>1, <2>1, <3>1, <3>2 DEF CaskInv, CaskTypeOK, JobTypes
    <2>3. \A p \in Paths : path'[p] = IF p = TargetOf[x] THEN x ELSE path[p]
      BY <2>1, CaskTypes DEF CaskInv
    <2>4. \A a \in Artifacts : staged'[a] = IF a = x THEN "link" ELSE staged[a]
      BY <2>1, CaskTypes DEF CaskInv
    <2>5. OwnStep(c)
      BY <1>1, <1>2, <2>3, <2>4 DEF OwnStep, Of
    <2>6. /\ job'.at = "place" /\ job'.cask = c /\ job'.wanted = job.wanted
          /\ job'.todo = job.todo \ {x} /\ job'.op = job.op /\ job'.link = job.link
          /\ job'.other = job.other
      BY <1>1, <1>2, <2>1 DEF JobTypes
    <2>7. \A a \in Placeable(c) : a # x => (InPlace(a)' <=> InPlace(a))
      BY <1>2, <2>3, Targets DEF InPlace, Placeable
    <2>8. InPlace(x)'
      BY <1>2, <2>3 DEF InPlace
    <2>9. \A a \in Placeable(c) \ torn' : InPlace(a)' => Backed(a)'
      <3> SUFFICES ASSUME NEW a \in Placeable(c) \ torn', InPlace(a)' PROVE Backed(a)'
        OBVIOUS
      <3>1. a \in Artifacts /\ a \notin torn
        BY <1>1, Targets DEF Placeable
      <3>2. CASE a = x
        BY <1>1, <2>4, <3>2 DEF Backed
      <3>3. CASE a # x
        <4>1. Backed(a)
          BY <1>1, <2>7, <3>1, <3>3, AtJob
        <4> QED BY <2>4, <3>1, <3>3, <4>1 DEF Backed
      <3> QED BY <3>2, <3>3
    <2>10. \A a \in job'.wanted \ job'.todo :
               KindOf[a] \in MovedKinds \cup {"appimage"} => Put(a)'
      <3> SUFFICES ASSUME NEW a \in job'.wanted \ job'.todo,
                          KindOf[a] \in MovedKinds \cup {"appimage"}
                   PROVE  Put(a)'
        OBVIOUS
      <3>1. CASE a = x
        BY <1>1, <2>8, <3>1 DEF Put, MovedKinds
      <3>2. CASE a # x
        <4>1. Put(a) /\ a \in Placeable(c)
          BY <1>1, <1>2, <2>6, <3>2, AtJob, Targets
             DEF JobFits, Placeable, Of, MovedKinds
        <4>2. CASE KindOf[a] = "appimage"
          <5>1. a \in DOMAIN OtherTarget /\ ImagePath(a, job.other) \in Paths
            BY <4>1, <4>2, Targets DEF ImagePath, Placeable
          <5>2. ImagePath(a, job.other) # TargetOf[x]
            BY <1>2, <3>2, <4>1, <5>1, Targets DEF ImagePath, Placeable
          <5> QED BY <2>3, <2>6, <4>1, <4>2, <5>1, <5>2 DEF Put, ImagePath
        <4>3. CASE KindOf[a] # "appimage"
          BY <2>7, <3>2, <4>1, <4>3 DEF Put
        <4> QED BY <4>2, <4>3
      <3> QED BY <3>1, <3>2
    <2>11. \A a \in job'.todo : KindOf[a] # "installer" => staged'[a] = "content"
      BY <1>1, <1>2, <2>4, <2>6 DEF JobFits, Of
    <2>12. job'.other =>
               \A a \in Placeable(c) \ torn' : KindOf[a] = "appimage" => ~InPlace(a)'
      BY <1>1, <1>2, <2>6, <2>7 DEF JobFits, MovedKinds
    <2>14. c \in caskKegs'
      BY <1>1, <1>2 DEF JobFits, Installing, NothingStaged, MovedKinds
    <2>13. JobFits'
      BY <1>1, <1>2, <2>6, <2>10, <2>11, <2>12, <2>14 DEF JobFits, Installing
    <2>15. c \in caskRows' => Excused(c)'
      BY <1>1, AtJob DEF Excused
    <2> QED BY <1>1, <2>2, <2>5, <2>6, <2>9, <2>13, <2>15, AtJob, OwnKeeps
  <1> QED BY <1>3, <1>4

LEMMA MoveBreaksKeeps ==
    ASSUME CaskInv, NEW c \in Casks, job.cask = c, NEW x \in Artifacts, MoveBreaks(x)
    PROVE  CaskInv'
  <1>1. /\ job.at = "place" /\ x \in job.todo /\ KindOf[x] \in MovedKinds
        /\ path' = [path EXCEPT ![TargetOf[x]] = x]
        /\ torn' = torn \cup {x} /\ Fail
        /\ UNCHANGED <<caskKegs, caskRows>>
    BY DEF MoveBreaks, Ranked
  <1>2. PICK left \in {"no", "content"} : staged' = [staged EXCEPT ![x] = left]
    BY DEF MoveBreaks
  <1>3. /\ JobFits /\ job \in JobTypes /\ job.todo \subseteq Of(c) /\ x \in Placeable(c)
        /\ TargetOf[x] \in Paths /\ x \in DOMAIN TargetOf
    BY <1>1, AtJob, Targets DEF MovedKinds, Placeable, Of
  <1>4. CaskTypeOK'
    <2>1. job' \in JobTypes
      BY <1>1, <1>3 DEF Fail, JobTypes, Phases
    <2>2. path' \in [Paths -> {Free, User} \cup Artifacts]
      BY <1>1, CaskTypes DEF CaskInv
    <2> QED BY <1>1, <1>2, <2>1, <2>2 DEF CaskInv, CaskTypeOK, JobTypes
  <1>5. \A p \in Paths : path'[p] = IF p = TargetOf[x] THEN x ELSE path[p]
    BY <1>1, CaskTypes DEF CaskInv
  <1>6. \A a \in Artifacts : a # x => staged'[a] = staged[a]
    BY <1>2, CaskTypes DEF CaskInv
  <1>7. OwnStep(c)
    BY <1>1, <1>3, <1>5, <1>6 DEF OwnStep, Of
  <1>8. \A a \in Placeable(c) \ torn' :
            InPlace(a)' <=> InPlace(a) /\ staged'[a] = staged[a]
    BY <1>1, <1>3, <1>5, <1>6, Targets DEF InPlace, Placeable
  <1> QED BY <1>1, <1>4, <1>7, <1>8, FailKeeps DEF Installing

LEMMA LinkAppImageKeeps ==
    ASSUME CaskInv, NEW c \in Casks, job.cask = c, NEW x \in Artifacts, LinkAppImage(x)
    PROVE  CaskInv'
  <1> DEFINE p0 == ImagePath(x, job.other)
  <1>1. /\ job.at = "place" /\ x \in job.todo /\ KindOf[x] = "appimage"
        /\ UNCHANGED <<staged, caskKegs, caskRows, torn>>
    BY DEF LinkAppImage, Ranked
  <1>2. /\ JobFits /\ job \in JobTypes /\ job.todo \subseteq Of(c) /\ x \in Placeable(c)
        /\ x \in DOMAIN TargetOf /\ x \in DOMAIN OtherTarget /\ p0 \in Paths
    BY <1>1, AtJob, Targets DEF Placeable, Of, ImagePath
  <1>3. CASE Fail /\ UNCHANGED path
    <2>1. CaskTypeOK'
      <3>1. job' \in JobTypes
        BY <1>2, <1>3 DEF Fail, JobTypes, Phases
      <3> QED BY <1>1, <1>3, <3>1 DEF CaskInv, CaskTypeOK, JobTypes
    <2> QED BY <1>1, <1>3, <2>1, FailKeeps DEF Installing, OwnStep, InPlace
  <1>4. CASE ~(Fail /\ UNCHANGED path)
    <2>1. /\ path' = [path EXCEPT ![p0] = x]
          /\ job' = [job EXCEPT !.todo = @ \ {x}]
      BY <1>4 DEF LinkAppImage
    <2>2. CaskTypeOK'
      <3>1. job' \in JobTypes
        BY <1>2, <2>1 DEF JobTypes
      <3>2. path' \in [Paths -> {Free, User} \cup Artifacts]
        BY <2>1, CaskTypes DEF CaskInv
      <3> QED BY <1>1, <3>1, <3>2 DEF CaskInv, CaskTypeOK, JobTypes
    <2>3. \A p \in Paths : path'[p] = IF p = p0 THEN x ELSE path[p]
      BY <2>1, CaskTypes DEF CaskInv
    <2>4. p0 = IF job.other THEN OtherTarget[x] ELSE TargetOf[x]
      BY DEF ImagePath
    <2> HIDE DEF p0
    <2>5. OwnStep(c)
      BY <1>1, <1>2, <2>3, <2>4 DEF OwnStep
    <2>6. /\ job'.at = "place" /\ job'.cask = c /\ job'.wanted = job.wanted
          /\ job'.todo = job.todo \ {x} /\ job'.op = job.op /\ job'.link = job.link
          /\ job'.other = job.other
      BY <1>1, <1>2, <2>1 DEF JobTypes
    <2>7. \A a \in Placeable(c) : a # x => TargetOf[a] # p0
      BY <1>2, <2>4, Targets DEF Placeable
    <2>8. \A a \in Placeable(c) : a # x => (InPlace(a)' <=> InPlace(a))
      BY <2>3, <2>7, Targets DEF InPlace, Placeable
    <2>9. staged[x] = "content"
      BY <1>1, <1>2 DEF JobFits
    <2>10. \A a \in Placeable(c) \ torn' : InPlace(a)' => Backed(a)'
      BY <1>1, <2>8, <2>9, AtJob DEF Backed, MovedKinds
    <2>11. job'.other =>
               \A a \in Placeable(c) \ torn' : KindOf[a] = "appimage" => ~InPlace(a)'
      <3> SUFFICES ASSUME job.other, NEW a \in Placeable(c) \ torn', KindOf[a] = "appimage"
                   PROVE  ~InPlace(a)'
        BY <2>6
      <3>1. ~InPlace(a) /\ TargetOf[a] \in Paths
        BY <1>1, <1>2, Targets DEF JobFits, Placeable
      <3>2. TargetOf[a] # p0
        BY <1>2, <2>4, Targets DEF Placeable
      <3> QED BY <2>3, <3>1, <3>2 DEF InPlace
    <2>12. \A a \in job'.wanted \ job'.todo :
               KindOf[a] \in MovedKinds \cup {"appimage"} => Put(a)'
      <3> SUFFICES ASSUME NEW a \in job'.wanted \ job'.todo,
                          KindOf[a] \in MovedKinds \cup {"appimage"}
                   PROVE  Put(a)'
        OBVIOUS
      <3>1. CASE a = x
        BY <1>1, <1>2, <2>3, <2>6, <3>1 DEF Put, p0, ImagePath
      <3>2. CASE a # x
        <4>1. Put(a) /\ a \in Placeable(c)
          BY <1>1, <1>2, <2>6, <3>2, AtJob, Targets
             DEF JobFits, Placeable, Of, MovedKinds
        <4>2. CASE KindOf[a] = "appimage"
          <5>1. a \in DOMAIN OtherTarget /\ ImagePath(a, job.other) \in Paths
            BY <4>1, <4>2, Targets DEF ImagePath, Placeable
          <5>2. TargetOf[a] # TargetOf[x]
            BY <1>2, <3>2, <4>1, Targets DEF Placeable
          <5>3. ImagePath(a, job.other) # p0
            BY <1>2, <2>4, <5>1, <5>2, Targets DEF ImagePath
          <5> QED BY <2>3, <2>6, <4>1, <4>2, <5>1, <5>3 DEF Put, ImagePath
        <4>3. CASE KindOf[a] # "appimage"
          BY <2>8, <3>2, <4>1, <4>3 DEF Put
        <4> QED BY <4>2, <4>3
      <3> QED BY <3>1, <3>2
    <2>14. c \in caskKegs'
      BY <1>1, <1>2 DEF JobFits, Installing, NothingStaged, MovedKinds
    <2>13. JobFits'
      BY <1>1, <1>2, <2>6, <2>11, <2>12, <2>14 DEF JobFits, Installing
    <2>15. c \in caskRows' => Excused(c)'
      BY <1>1, AtJob DEF Excused
    <2> QED BY <1>1, <2>2, <2>5, <2>6, <2>10, <2>13, <2>15, AtJob, OwnKeeps
  <1> QED BY <1>3, <1>4

LEMMA RunInstallerKeeps ==
    ASSUME CaskInv, NEW c \in Casks, job.cask = c, NEW x \in Artifacts, RunInstaller(x)
    PROVE  CaskInv'
  <1>1. /\ job.at = "place" /\ x \in job.todo /\ KindOf[x] \in {"pkg", "installer"}
        /\ UNCHANGED <<path, staged, caskKegs, caskRows, torn>>
        /\ job' = [job EXCEPT !.todo = @ \ {x}] \/ Fail
    BY DEF RunInstaller, Ranked
  <1>2. JobFits /\ job \in JobTypes /\ job.todo \subseteq Of(c)
    BY <1>1, AtJob
  <1>3. CaskTypeOK'
    <2>1. job' \in JobTypes
      BY <1>1, <1>2 DEF Fail, JobTypes, Phases
    <2> QED BY <1>1, <2>1 DEF CaskInv, CaskTypeOK, JobTypes
  <1>4. OwnStep(c)
    BY <1>1 DEF OwnStep
  <1>5. CASE Fail
    BY <1>1, <1>3, <1>4, <1>5, FailKeeps DEF Installing, InPlace
  <1>6. CASE job' = [job EXCEPT !.todo = @ \ {x}]
    <2>1. /\ job'.at = "place" /\ job'.cask = c /\ job'.wanted = job.wanted
          /\ job'.todo = job.todo \ {x} /\ job'.op = job.op /\ job'.link = job.link
          /\ job'.other = job.other
      BY <1>1, <1>2, <1>6 DEF JobTypes
    <2>2. \A a \in Artifacts : (InPlace(a)' <=> InPlace(a)) /\ (Backed(a)' <=> Backed(a))
      BY <1>1 DEF InPlace, Backed
    <2>3. \A a \in job'.wanted \ job'.todo :
              KindOf[a] \in MovedKinds \cup {"appimage"} => Put(a)'
      BY <1>1, <1>2, <2>1 DEF JobFits, Put, ImagePath, InPlace, MovedKinds
    <2>6. c \in caskKegs' \/ NothingStaged'
      BY <1>1, <1>2, <2>1 DEF JobFits, Installing, NothingStaged, Absent, InPlace
    <2>4. JobFits'
      BY <1>1, <1>2, <2>1, <2>3, <2>6 DEF JobFits, Installing, InPlace
    <2>5. \A a \in Placeable(c) \ torn' : InPlace(a)' => Backed(a)'
      BY <1>1, <2>2, AtJob, Targets DEF Placeable
    <2>7. c \in caskRows' => Excused(c)'
      BY <1>1, AtJob DEF Excused
    <2> QED BY <1>1, <1>3, <1>4, <2>1, <2>4, <2>5, <2>7, AtJob, OwnKeeps
  <1> QED BY <1>1, <1>5, <1>6

\* What is recorded is all in place, or with --no-link nothing is.
LEMMA RecordCaskKeeps ==
    ASSUME CaskInv, NEW c \in Casks, job.cask = c, RecordCask
    PROVE  CaskInv'
  <1>1. /\ job.at = "record" \/ (job.at = "place" /\ job.todo = {})
        /\ UNCHANGED <<path, staged, caskKegs, torn>>
    BY DEF RecordCask
  <1>2. JobFits /\ job \in JobTypes /\ (c \in caskKegs \/ NothingStaged)
    BY <1>1, AtJob DEF JobFits, Installing
  <1>3. CASE Fail /\ UNCHANGED caskRows
    <2>1. CaskTypeOK'
      <3>1. job' \in JobTypes
        BY <1>2, <1>3 DEF Fail, JobTypes, Phases
      <3> QED BY <1>1, <1>3, <3>1 DEF CaskInv, CaskTypeOK, JobTypes
    <2> QED BY <1>1, <1>3, <2>1, FailKeeps DEF Installing, OwnStep, InPlace
  <1>4. CASE caskRows' = caskRows \cup {c} /\ job' = NoJob
    <2>1. CaskTypeOK'
      BY <1>1, <1>2, <1>4, NoJobTypes DEF CaskInv, CaskTypeOK, JobTypes
    <2>2. OwnStep(c)
      BY <1>1, <1>4 DEF OwnStep
    <2>3. \A a \in Placeable(c) \ torn' : InPlace(a)' => Backed(a)'
      BY <1>1, AtJob DEF InPlace, Backed
    <2>4. \A a, b \in Counting(c) : InPlace(a) <=> InPlace(b)
      <3>1. \A a \in Counting(c) : /\ a \in Placeable(c) \ torn /\ a \in Of(c)
                                   /\ KindOf[a] \in MovedKinds \cup {"appimage"}
                                   /\ ~InOtherDirectory(a)
        BY Targets DEF Counting, Placeable, Of, MovedKinds
      <3>2. CASE job.at = "record"
        BY <1>2, <3>1, <3>2 DEF JobFits, Absent
      <3>3. CASE job.at = "place" /\ job.todo = {}
        <4> SUFFICES ASSUME NEW a \in Counting(c) PROVE InPlace(a)
          OBVIOUS
        <4>1. a \in job.wanted
          BY <1>2, <3>1, <3>3 DEF JobFits, Installing, MovedKinds
        <4>2. Put(a)
          BY <1>2, <3>1, <3>3, <4>1 DEF JobFits
        <4>3. CASE KindOf[a] = "appimage"
          <5>1. a \in DOMAIN OtherTarget /\ a \in DOMAIN TargetOf /\ OtherTarget[a] \in Paths
            BY <3>1, <4>3, Targets DEF Placeable
          <5>2. OtherTarget[a] # TargetOf[a]
            BY <5>1, Targets
          <5>3. path[OtherTarget[a]] # a
            BY <3>1, <5>1, <5>2 DEF InOtherDirectory
          <5> QED BY <4>2, <4>3, <5>3 DEF Put, ImagePath, InPlace
        <4> QED BY <4>2, <4>3 DEF Put
      <3> QED BY <1>1, <3>2, <3>3
    <2>5. Together(c)'
      BY <1>1, <2>4 DEF Together, Counting, InPlace, InOtherDirectory
    <2>6. Settled(c)'
      BY <1>1, <1>2, <1>4, <2>5 DEF Settled, NothingStaged, Absent, InPlace
    <2>8. c \in caskKegs \/ MayStageNothing(c)
      <3>1. \A a \in Of(c) : KindOf[a] = "binary" \/ a \in job.wanted
        BY <1>1, <1>2 DEF JobFits, Installing
      <3> QED BY <1>2, <3>1 DEF NothingStaged, MayStageNothing
    <2>9. Excused(c)'
      BY <1>1, <2>8 DEF Excused
    <2>7. job'.at = "idle"
      BY <1>4, NoJobTypes
    <2> QED BY <1>1, <1>2, <2>1, <2>2, <2>3, <2>6, <2>7, <2>9, OwnKeeps
  <1> QED BY <1>3, <1>4 DEF RecordCask

-----------------------------------------------------------------------------
(* The steps of an uninstall, and of a rollback.                           *)

LEMMA UninstallCaskKeeps ==
    ASSUME CaskInv, NEW c \in Casks, UninstallCask(c)
    PROVE  CaskInv'
  <1>1. /\ job.at = "idle" /\ c \in caskRows
        /\ job' = [NoJob EXCEPT !.at = "unlink", !.op = "uninstall", !.cask = c, !.link = TRUE]
        /\ UNCHANGED <<path, staged, caskKegs, caskRows, torn>>
    BY DEF UninstallCask
  <1>2. /\ job' \in JobTypes /\ job'.at = "unlink" /\ job'.op = "uninstall"
        /\ job'.cask = c /\ job'.wanted = {} /\ job'.todo = {} /\ job'.other = FALSE
    BY <1>1, NoJobTypes DEF NoJob, JobTypes, Phases
  <1>3. CaskTypeOK'
    BY <1>1, <1>2 DEF CaskInv, CaskTypeOK, JobTypes
  <1>4. OwnStep(c)
    BY <1>1 DEF OwnStep
  <1>5. JobFits'
    BY <1>2 DEF JobFits, Installing
  <1>6. \A a \in Placeable(c) \ torn' : InPlace(a)' => Backed(a)'
    BY <1>1, Targets DEF CaskInv, NoOrphans, Placeable, InPlace, Backed
  <1>7. c \in caskRows' => Excused(c)'
    BY <1>1 DEF CaskInv, KegsFit, Excused
  <1> QED BY <1>1, <1>2, <1>3, <1>4, <1>5, <1>6, <1>7, OwnKeeps

\* An untorn binary in its place is in the keg, so it is unlinked; what was
\* moved is linked to from the keg, so it is to do.
LEMMA UnlinkBinariesKeeps ==
    ASSUME CaskInv, NEW c \in Casks, job.cask = c, UnlinkBinaries
    PROVE  CaskInv'
  <1> DEFINE bs == {a \in Of(job.cask) : KindOf[a] = "binary" /\ staged[a] # "no"}
             ms == {a \in Moved(Of(job.cask)) : staged[a] = "link"}
  <1>1. /\ job.at = "unlink"
        /\ path' = [p \in Paths |-> IF path[p] \in bs THEN Free ELSE path[p]]
        /\ job' = [job EXCEPT !.at = "moved", !.todo = ms]
        /\ UNCHANGED <<staged, caskKegs, caskRows, torn>>
    BY DEF UnlinkBinaries
  <1>2. JobFits /\ job \in JobTypes /\ bs \subseteq Of(c) /\ ms \subseteq Of(c)
        /\ Of(c) \subseteq Artifacts
    BY <1>1, AtJob DEF Moved, Of
  <1>3. CaskTypeOK'
    <2>1. job' \in JobTypes
      BY <1>1, <1>2 DEF JobTypes, Phases
    <2>2. path' \in [Paths -> {Free, User} \cup Artifacts]
      BY <1>1, CaskTypes DEF CaskInv
    <2> QED BY <1>1, <2>1, <2>2 DEF CaskInv, CaskTypeOK, JobTypes
  <1>4. OwnStep(c)
    BY <1>1, <1>2 DEF OwnStep
  <1>5. /\ job'.at = "moved" /\ job'.cask = c /\ job'.wanted = job.wanted
        /\ job'.todo = ms /\ job'.op = job.op /\ job'.other = job.other
    BY <1>1, <1>2 DEF JobTypes
  <1>6. \A a \in Placeable(c) : InPlace(a)' => InPlace(a) /\ a \notin bs
    BY <1>1, Targets DEF InPlace, Placeable
  <1>7. \A a \in Placeable(c) \ torn' : InPlace(a)' => Backed(a)'
    BY <1>1, <1>6, AtJob DEF Backed
  <1>8. \A a \in Placeable(c) \ torn' : InPlace(a)' => KindOf[a] = "appimage" \/ a \in ms
    <2> SUFFICES ASSUME NEW a \in Placeable(c) \ torn', InPlace(a)'
                 PROVE  KindOf[a] = "appimage" \/ a \in ms
      OBVIOUS
    <2>1. Backed(a) /\ a \notin bs /\ a \in Of(c)
      BY <1>1, <1>6, AtJob, Targets DEF Placeable, Of
    <2>2. KindOf[a] \in MovedKinds \cup {"appimage", "binary"}
      BY <2>1, Targets DEF Placeable, MovedKinds, StageRank
    <2> QED BY <2>1, <2>2 DEF Backed, MovedKinds, Moved
  <1>9. \A a \in ms : KindOf[a] \in MovedKinds /\ staged'[a] = "link"
    BY <1>1 DEF Moved
  <1>10. job'.other =>
             \A a \in Placeable(c) \ torn' : KindOf[a] = "appimage" => ~InPlace(a)'
    BY <1>1, <1>2, <1>5, <1>6 DEF JobFits
  <1> HIDE DEF ms, bs
  <1>11. JobFits'
    BY <1>1, <1>2, <1>5, <1>8, <1>9, <1>10 DEF JobFits, Installing
  <1>20. c \in caskRows' => Excused(c)'
    BY <1>1, AtJob DEF Excused
  <1> QED BY <1>1, <1>3, <1>4, <1>5, <1>7, <1>11, <1>20, AtJob, OwnKeeps

LEMMA RemoveMovedKeeps ==
    ASSUME CaskInv, NEW c \in Casks, job.cask = c, NEW x \in Artifacts, RemoveMoved(x)
    PROVE  CaskInv'
  <1>1. /\ job.at = "moved" /\ x \in job.todo
        /\ path' = [path EXCEPT ![TargetOf[x]] = Free]
        /\ job' = [job EXCEPT !.todo = @ \ {x}]
        /\ UNCHANGED <<staged, caskKegs, caskRows, torn>>
    BY DEF RemoveMoved
  <1>2. /\ JobFits /\ job \in JobTypes /\ job.todo \subseteq Of(c)
        /\ KindOf[x] \in MovedKinds /\ x \in Of(c)
    BY <1>1, AtJob DEF JobFits
  <1>3. x \in Placeable(c) /\ TargetOf[x] \in Paths
    BY <1>2, Targets DEF Placeable, Of, MovedKinds
  <1>4. CaskTypeOK'
    <2>1. job' \in JobTypes
      BY <1>1, <1>2 DEF JobTypes
    <2>2. path' \in [Paths -> {Free, User} \cup Artifacts]
      BY <1>1, CaskTypes DEF CaskInv
    <2> QED BY <1>1, <2>1, <2>2 DEF CaskInv, CaskTypeOK, JobTypes
  <1>5. \A p \in Paths : path'[p] = IF p = TargetOf[x] THEN Free ELSE path[p]
    BY <1>1, CaskTypes DEF CaskInv
  <1>6. OwnStep(c)
    BY <1>1, <1>3, <1>5 DEF OwnStep
  <1>7. /\ job'.at = "moved" /\ job'.cask = c /\ job'.wanted = job.wanted
        /\ job'.todo = job.todo \ {x} /\ job'.op = job.op /\ job'.other = job.other
    BY <1>1, <1>2 DEF JobTypes
  <1>8. \A a \in Placeable(c) : InPlace(a)' => InPlace(a) /\ a # x
    BY <1>5, Targets DEF InPlace, Placeable
  <1>9. \A a \in Placeable(c) \ torn' : InPlace(a)' => Backed(a)'
    BY <1>1, <1>8, AtJob DEF Backed
  <1>10. JobFits'
    BY <1>1, <1>2, <1>7, <1>8 DEF JobFits, Installing
  <1>20. c \in caskRows' => Excused(c)'
    BY <1>1, AtJob DEF Excused
  <1> QED BY <1>1, <1>4, <1>6, <1>7, <1>9, <1>10, <1>20, AtJob, OwnKeeps

\* A command that leaves all of its cask in doubt may end.
LEMMA TornEnds ==
    ASSUME CaskInv, NEW c \in Casks, job.at # "idle", job.cask = c, job' = NoJob,
           torn' = torn \cup Of(c), caskRows' = caskRows,
           UNCHANGED <<path, staged, caskKegs>>
    PROVE  CaskInv'
  <1>1. Placeable(c) \ torn' = {} /\ Of(c) \ torn' = {}
    BY Targets DEF Placeable, Of
  <1>2. Absent(c)' /\ Together(c)'
    BY <1>1 DEF Absent, Together, Counting
  <1>3. CaskTypeOK'
    BY NoJobTypes DEF CaskInv, CaskTypeOK, JobTypes, Of
  <1>4. OwnStep(c)
    BY DEF OwnStep
  <1>5. c \in caskRows' => Excused(c)'
    BY AtJob DEF Excused
  <1>6. Settled(c)' /\ job'.at = "idle"
    BY <1>2, NoJobTypes DEF Settled
  <1> QED BY <1>1, <1>3, <1>4, <1>5, <1>6, OwnKeeps

LEMMA RemoveFailsKeeps ==
    ASSUME CaskInv, NEW c \in Casks, job.cask = c, NEW x \in Artifacts, RemoveFails(x)
    PROVE  CaskInv'
  <1> DEFINE dir == IF KindOf[x] \in {"app", "suite"} THEN {"app", "suite"} ELSE {KindOf[x]}
             left == {b \in job.todo : KindOf[b] \notin dir}
  <1>1. /\ job.at = "moved" /\ x \in job.todo /\ torn' = torn \cup Of(c)
        /\ job' = IF job.op = "uninstall" THEN NoJob ELSE [job EXCEPT !.todo = left]
        /\ UNCHANGED <<path, staged, caskKegs, caskRows>>
    BY DEF RemoveFails
  <1>2. left \subseteq job.todo
    OBVIOUS
  <1> HIDE DEF left
  <1>3. CASE job.op = "uninstall"
    BY <1>1, <1>3, TornEnds
  <1>4. CASE job.op # "uninstall"
    <2>1. JobFits /\ job \in JobTypes /\ job.todo \subseteq Of(c) /\ Of(c) \subseteq Artifacts
      BY <1>1, AtJob
    <2>2. CaskTypeOK'
      <3>1. job' \in JobTypes
        BY <1>1, <1>2, <1>4, <2>1 DEF JobTypes
      <3> QED BY <1>1, <2>1, <3>1 DEF CaskInv, CaskTypeOK, JobTypes
    <2>3. OwnStep(c)
      BY <1>1 DEF OwnStep
    <2>4. /\ job'.at = "moved" /\ job'.cask = c /\ job'.wanted = job.wanted
          /\ job'.todo = left /\ job'.op = job.op /\ job'.other = job.other
      BY <1>1, <1>4, <2>1 DEF JobTypes
    <2>5. Placeable(c) \ torn' = {}
      BY <1>1, Targets DEF Placeable, Of
    <2>6. Of(c) \cap torn' # {}
      BY <1>1, <2>1
    <2>7. JobFits'
      BY <1>1, <1>2, <2>1, <2>4, <2>5, <2>6 DEF JobFits, Installing
    <2>8. c \in caskRows' => Excused(c)'
      BY <2>6 DEF Excused
    <2> QED BY <1>1, <2>2, <2>3, <2>4, <2>5, <2>7, <2>8, OwnKeeps
  <1> QED BY <1>3, <1>4

LEMMA MovedEndsKeeps ==
    ASSUME CaskInv, NEW c \in Casks, job.cask = c, MovedEnds
    PROVE  CaskInv'
  <1>1. /\ job.at = "moved" /\ job.todo = {} /\ job' = [job EXCEPT !.at = "images"]
        /\ UNCHANGED <<path, staged, caskKegs, caskRows, torn>>
    BY DEF MovedEnds
  <1>2. JobFits /\ job \in JobTypes
    BY <1>1, AtJob
  <1>3. CaskTypeOK'
    <2>1. job' \in JobTypes
      BY <1>1, <1>2 DEF JobTypes, Phases
    <2> QED BY <1>1, <2>1 DEF CaskInv, CaskTypeOK, JobTypes
  <1>4. OwnStep(c)
    BY <1>1 DEF OwnStep
  <1>5. /\ job'.at = "images" /\ job'.cask = c /\ job'.wanted = job.wanted
        /\ job'.todo = {} /\ job'.op = job.op /\ job'.other = job.other
    BY <1>1, <1>2 DEF JobTypes
  <1>6. JobFits'
    BY <1>1, <1>2, <1>5 DEF JobFits, Installing, InPlace
  <1>7. \A a \in Placeable(c) \ torn' : InPlace(a)' => Backed(a)'
    BY <1>1, AtJob DEF InPlace, Backed
  <1>20. c \in caskRows' => Excused(c)'
    BY <1>1, AtJob DEF Excused
  <1> QED BY <1>1, <1>3, <1>4, <1>5, <1>6, <1>7, <1>20, AtJob, OwnKeeps

\* An untorn appimage in its place is in the keg, so it is unlinked.
LEMMA UnlinkImagesKeeps ==
    ASSUME CaskInv, NEW c \in Casks, job.cask = c, UnlinkImages
    PROVE  CaskInv'
  <1> DEFINE is == {a \in Of(job.cask) : KindOf[a] = "appimage" /\ staged[a] # "no"}
  <1>1. /\ job.at = "images"
        /\ path' = [p \in Paths |-> IF \E a \in is : path[p] = a /\ p = ImagePath(a, job.other)
                                    THEN Free ELSE path[p]]
        /\ job' = [job EXCEPT !.at = IF job.op = "uninstall" THEN "unrecord" ELSE "keg"]
        /\ UNCHANGED <<staged, caskKegs, caskRows, torn>>
    BY DEF UnlinkImages
  <1>2. JobFits /\ job \in JobTypes /\ is \subseteq Of(c) /\ Of(c) \subseteq Artifacts
    BY <1>1, AtJob
  <1>3. CaskTypeOK'
    <2>1. job' \in JobTypes
      BY <1>1, <1>2 DEF JobTypes, Phases
    <2>2. path' \in [Paths -> {Free, User} \cup Artifacts]
      BY <1>1, CaskTypes DEF CaskInv
    <2> QED BY <1>1, <2>1, <2>2 DEF CaskInv, CaskTypeOK, JobTypes
  <1>4. OwnStep(c)
    BY <1>1, <1>2 DEF OwnStep
  <1>5. /\ job'.at = IF job.op = "uninstall" THEN "unrecord" ELSE "keg"
        /\ job'.cask = c /\ job'.wanted = job.wanted
        /\ job'.todo = job.todo /\ job'.op = job.op /\ job'.other = job.other
    BY <1>1, <1>2 DEF JobTypes
  <1>6. Absent(c)'
    <2> SUFFICES ASSUME NEW a \in Placeable(c) \ torn, InPlace(a)' PROVE FALSE
      BY <1>1 DEF Absent, Placeable
    <2>1. TargetOf[a] \in Paths /\ a \in Of(c) /\ a # Free
      BY Targets DEF Placeable, Of
    <2>2. InPlace(a)
      BY <1>1, <2>1 DEF InPlace
    <2>3. KindOf[a] = "appimage" /\ ~job.other
      BY <1>1, <1>2, <2>2 DEF JobFits
    <2>4. Backed(a)
      BY <1>1, <2>2, AtJob
    <2>5. a \in is
      BY <2>1, <2>3, <2>4 DEF Backed, MovedKinds
    <2>6. path'[TargetOf[a]] = Free
      BY <1>1, <2>1, <2>2, <2>3, <2>5 DEF InPlace, ImagePath
    <2> QED BY <2>1, <2>6 DEF InPlace
  <1>7. \A a \in Placeable(c) \ torn' : ~InPlace(a)'
    BY <1>6 DEF Absent
  <1>8. JobFits'
    BY <1>1, <1>2, <1>5, <1>6 DEF JobFits, Installing, JobTypes
  <1>20. c \in caskRows' => Excused(c)'
    BY <1>1, AtJob DEF Excused
  <1> QED BY <1>1, <1>3, <1>4, <1>5, <1>7, <1>8, <1>20, AtJob, OwnKeeps

LEMMA ForgetCaskKeeps ==
    ASSUME CaskInv, NEW c \in Casks, job.cask = c, ForgetCask
    PROVE  CaskInv'
  <1>1. job.at = "unrecord" /\ UNCHANGED <<path, staged, caskKegs>>
    BY DEF ForgetCask
  <1>2. JobFits /\ job \in JobTypes /\ Absent(c) /\ job.op = "uninstall"
    BY <1>1, AtJob DEF JobFits
  <1>3. CASE job' = NoJob /\ torn' = torn \cup Of(c) /\ caskRows' = caskRows
    BY <1>1, <1>3, TornEnds
  <1>4. CASE caskRows' = caskRows \ {c} /\ job' = [job EXCEPT !.at = "keg"] /\ torn' = torn
    <2>1. CaskTypeOK'
      <3>1. job' \in JobTypes
        BY <1>2, <1>4 DEF JobTypes, Phases
      <3> QED BY <1>1, <1>4, <3>1 DEF CaskInv, CaskTypeOK, JobTypes
    <2>2. OwnStep(c)
      BY <1>1, <1>4 DEF OwnStep
    <2>3. /\ job'.at = "keg" /\ job'.cask = c /\ job'.wanted = job.wanted
          /\ job'.todo = job.todo /\ job'.op = job.op /\ job'.other = job.other
      BY <1>2, <1>4 DEF JobTypes
    <2>4. Absent(c)'
      BY <1>1, <1>2, <1>4 DEF Absent, InPlace
    <2>5. \A a \in Placeable(c) \ torn' : ~InPlace(a)'
      BY <2>4 DEF Absent
    <2>6. JobFits'
      BY <1>1, <1>2, <1>4, <2>3, <2>4 DEF JobFits, Installing
    <2>7. c \notin caskRows'
      BY <1>4
    <2> QED BY <1>1, <1>4, <2>1, <2>2, <2>3, <2>5, <2>6, <2>7, OwnKeeps
  <1> QED BY <1>3, <1>4 DEF ForgetCask

LEMMA RemoveCaskKegKeeps ==
    ASSUME CaskInv, NEW c \in Casks, job.cask = c, RemoveCaskKeg
    PROVE  CaskInv'
  <1>1. job.at = "keg" /\ job' = NoJob /\ UNCHANGED <<path, caskRows>>
    BY DEF RemoveCaskKeg
  <1>2. /\ JobFits /\ job \in JobTypes /\ Absent(c)
        /\ c \in caskRows => Of(c) \cap torn # {} \/ MayStageNothing(c)
    BY <1>1, AtJob DEF JobFits, JobTypes
  <1>3. CASE torn' = torn \cup Of(c) /\ UNCHANGED <<staged, caskKegs>>
    BY <1>1, <1>3, TornEnds
  <1>4. CASE /\ staged' = [a \in Artifacts |-> IF CaskOf[a] = c THEN "no" ELSE staged[a]]
             /\ caskKegs' = caskKegs \ {c} /\ torn' = torn
    <2>1. CaskTypeOK'
      BY <1>1, <1>4, NoJobTypes DEF CaskInv, CaskTypeOK, JobTypes
    <2>2. OwnStep(c)
      BY <1>1, <1>4 DEF OwnStep, Of
    <2>3. Absent(c)'
      BY <1>1, <1>2, <1>4 DEF Absent, InPlace
    <2>4. \A a \in Placeable(c) \ torn' : ~InPlace(a)'
      BY <2>3 DEF Absent
    <2>5. \A a \in Counting(c)' : a \in Placeable(c) \ torn'
      BY Targets DEF Counting, Placeable, Of, MovedKinds
    <2>6. Together(c)'
      BY <2>4, <2>5 DEF Together
    <2>7. Settled(c)' /\ job'.at = "idle"
      BY <1>1, <2>3, <2>6, NoJobTypes DEF Settled
    <2>8. c \in caskRows' => Excused(c)'
      BY <1>1, <1>2, <1>4 DEF Excused
    <2> QED BY <1>1, <1>4, <2>1, <2>2, <2>4, <2>7, <2>8, OwnKeeps
  <1> QED BY <1>3, <1>4 DEF RemoveCaskKeg

LEMMA KillCaskJobKeeps ==
    ASSUME CaskInv, NEW c \in Casks, job.cask = c, KillCaskJob
    PROVE  CaskInv'
  BY TornEnds DEF KillCaskJob

\* The user's files are no artifact, and are put where none is.
LEMMA UserPutsKeeps ==
    ASSUME CaskInv, NEW x \in Paths, UserPuts(x)
    PROVE  CaskInv'
  <1>1. /\ path[x] = Free /\ path' = [path EXCEPT ![x] = User]
        /\ UNCHANGED <<staged, caskKegs, caskRows, job, torn>>
    BY DEF UserPuts
  <1>2. CaskTypeOK'
    BY <1>1 DEF CaskInv, CaskTypeOK
  <1>3. \A a \in Artifacts, q \in Paths : path'[q] = a <=> path[q] = a
    BY <1>1, Targets DEF CaskInv, CaskTypeOK
  <1>4. \A a \in DOMAIN TargetOf : InPlace(a)' <=> InPlace(a)
    BY <1>3, Targets DEF InPlace
  <1>5. \A a \in Artifacts : InOtherDirectory(a)' <=> InOtherDirectory(a)
    BY <1>3 DEF InOtherDirectory
  <1>6. NoOrphans' /\ PlacesFit'
    <2>1. \A q \in Paths : path'[q] \in Artifacts => path'[q] = path[q]
      BY <1>3
    <2> QED BY <1>1, <2>1 DEF CaskInv, NoOrphans, PlacesFit, Backed
  <1>7. \A c \in Casks : Absent(c)' <=> Absent(c)
    BY <1>1, <1>4 DEF Absent, Placeable
  <1>8. \A c \in Casks : Counting(c)' = Counting(c)
    BY <1>1, <1>5 DEF Counting, Of
  <1>9. \A c \in Casks : \A a \in Counting(c) : a \in DOMAIN TargetOf
    BY Targets DEF Counting, Of, MovedKinds
  <1>10. \A c \in Casks : Together(c)' <=> Together(c)
    BY <1>4, <1>8, <1>9 DEF Together
  <1>11. \A c \in Casks : Settled(c)' <=> Settled(c)
    BY <1>1, <1>7, <1>10 DEF Settled
  <1>12. job.at # "idle" => JobFits'
    <2> SUFFICES ASSUME job.at # "idle" PROVE JobFits'
      OBVIOUS
    <2>1. JobFits /\ job.cask \in Casks /\ job.wanted \subseteq Of(job.cask)
      BY AtJob
    <2>2. \A a \in job.wanted : KindOf[a] \in MovedKinds \cup {"appimage"} => (Put(a)' <=> Put(a))
      <3> SUFFICES ASSUME NEW a \in job.wanted, KindOf[a] \in MovedKinds \cup {"appimage"}
                   PROVE  Put(a)' <=> Put(a)
        OBVIOUS
      <3>1. a \in Artifacts /\ a \in DOMAIN TargetOf
        BY <2>1, Targets DEF Of, MovedKinds
      <3>2. KindOf[a] = "appimage" => ImagePath(a, job.other) \in Paths
        BY <3>1, Targets DEF ImagePath
      <3> QED BY <1>1, <1>3, <1>4, <3>1, <3>2 DEF Put, ImagePath
    <2>3. \A a \in Placeable(job.cask) : InPlace(a)' <=> InPlace(a)
      BY <1>4 DEF Placeable
    <2>4. NothingStaged' <=> NothingStaged
      BY <1>1, <1>7, <2>1 DEF NothingStaged
    <2> QED BY <1>1, <1>7, <2>1, <2>2, <2>3, <2>4 DEF JobFits
  <1>13. KegsFit'
    BY <1>1 DEF CaskInv, KegsFit, Excused
  <1> QED BY <1>1, <1>2, <1>6, <1>11, <1>12, <1>13 DEF CaskInv, Busy

LEMMA CaskStepsKeep ==
    ASSUME CaskInv, [CaskNext]_caskVars
    PROVE  CaskInv'
  <1>1. CASE UNCHANGED caskVars
    BY <1>1 DEF caskVars, CaskInv, CaskTypeOK, NoOrphans, PlacesFit, KegsFit, Excused, Busy, Settled,
                Absent, Together, Counting, InPlace, InOtherDirectory, Backed, JobFits, Put,
                NothingStaged,
                ImagePath
  <1>2. CASE CaskStep
    <2>1. job.at # "idle"
      BY <1>2 DEF CaskStep, StageArtifact, StageBinary, StageOne, MoveArtifact, MoveBreaks,
                  LinkAppImage, RunInstaller, RemoveMoved, RemoveFails, StageFails, StageEnds,
                  LinkBinaries, RecordCask, UnlinkBinaries, MovedEnds, UnlinkImages, ForgetCask,
                  RemoveCaskKeg
    <2>2. job.cask \in Casks
      BY <2>1, AtJob
    <2>3. CASE \E a \in Artifacts : StageArtifact(a) \/ StageBinary(a)
      BY <2>2, <2>3, StageOneKeeps DEF StageArtifact, StageBinary
    <2>4. CASE \E a \in Artifacts : MoveArtifact(a) \/ MoveBreaks(a) \/ LinkAppImage(a)
      BY <2>2, <2>4, MoveArtifactKeeps, MoveBreaksKeeps, LinkAppImageKeeps
    <2>5. CASE \E a \in Artifacts : RunInstaller(a) \/ RemoveMoved(a) \/ RemoveFails(a)
      BY <2>2, <2>5, RunInstallerKeeps, RemoveMovedKeeps, RemoveFailsKeeps
    <2>6. CASE StageFails \/ StageEnds \/ LinkBinaries \/ RecordCask
      BY <2>2, <2>6, StageFailsKeeps, StageEndsKeeps, LinkBinariesKeeps, RecordCaskKeeps
    <2>7. CASE UnlinkBinaries \/ MovedEnds \/ UnlinkImages \/ ForgetCask \/ RemoveCaskKeg
      BY <2>2, <2>7, UnlinkBinariesKeeps, MovedEndsKeeps, UnlinkImagesKeeps, ForgetCaskKeeps,
         RemoveCaskKegKeeps
    <2> QED BY <1>2, <2>3, <2>4, <2>5, <2>6, <2>7 DEF CaskStep
  <1>3. CASE \E c \in Casks, force, link, binaries, other \in BOOLEAN :
                InstallCask(c, force, link, binaries, other)
    BY <1>3, InstallCaskKeeps
  <1>4. CASE \E c \in Casks : UninstallCask(c)
    BY <1>4, UninstallCaskKeeps
  <1>5. CASE KillCaskJob
    <2>1. job.at # "idle"
      BY <1>5 DEF KillCaskJob
    <2>2. job.cask \in Casks
      BY <2>1, AtJob
    <2> QED BY <1>5, <2>2, KillCaskJobKeeps
  <1>6. CASE \E p \in Paths : UserPuts(p)
    BY <1>6, UserPutsKeeps
  <1> QED BY <1>1, <1>2, <1>3, <1>4, <1>5, <1>6 DEF CaskNext

\* CaskInstaller: the types of casks, what is where of a cask that is half installed or
\* half removed, and that nothing is in a place that no row accounts for.
THEOREM CaskInductive == CaskSpec => []CaskInv
  <1>1. CaskInit => CaskInv
    BY CaskStarts
  <1>2. CaskInv /\ [CaskNext]_caskVars => CaskInv'
    BY CaskStepsKeep
  <1> QED BY <1>1, <1>2, PTL DEF CaskSpec

\* CaskInstaller::install and uninstall: whichever step of whichever cask fails or dies,
\* a cask that is recorded and not at work has its directory and all that it placed, but
\* for what a removal could not finish, and one that is not recorded is not half there.
THEOREM CasksCorrect == CaskSpec => []CasksAreWholeOrGone
  <1>1. CaskInv => CasksAreWholeOrGone
    <2> SUFFICES ASSUME CaskInv, NEW c \in caskRows, job.cask # c \/ job.at = "idle"
                 PROVE  Excused(c) /\ Together(c)
      BY DEF Excused, CaskInv, CasksAreWholeOrGone, RecordedCasksAreWhole, Together, Counting, InPlace
    <2>1. c \in Casks
      BY CaskTypes DEF CaskInv
    <2> QED BY <2>1 DEF CaskInv, KegsFit, Settled, Busy
  <1> QED BY <1>1, CaskInductive, PTL

\* stage_binary, move_artifact, link_appimages: what the user put at an artifact's target
\* is replaced only under --force, or by the link of a binary that was staged for it.
THEOREM UserFilesCorrect == CaskSpec => UserFilesSurvive
  <1> DEFINE Survives0 ==
          \A p \in Paths :
             path[p] = User /\ path'[p] # User =>
                job.force \/ \E a \in DOMAIN TargetOf : TargetOf[a] = p /\ staged[a] = "link"
  <1>1. CaskInv /\ [CaskNext]_caskVars => [Survives0]_caskVars
    <2> SUFFICES ASSUME CaskInv, CaskNext, NEW p \in Paths, path[p] = User, path'[p] # User,
                        ~job.force
                 PROVE  \E a \in DOMAIN TargetOf : TargetOf[a] = p /\ staged[a] = "link"
      OBVIOUS
    <2>1. path \in [Paths -> {Free, User} \cup Artifacts] /\ User \notin Artifacts
      BY CaskTypes, Targets DEF CaskInv
    <2>2. CASE \E a \in Artifacts : RemoveMoved(a)
      <3>1. PICK x \in Artifacts : RemoveMoved(x)
        BY <2>2
      <3>2. p = TargetOf[x] /\ job.at = "moved" /\ x \in job.todo
        BY <2>1, <3>1 DEF RemoveMoved
      <3>3. KindOf[x] \in MovedKinds /\ staged[x] = "link"
        BY <3>2, AtJob DEF JobFits
      <3>4. x \in DOMAIN TargetOf
        BY <3>3, Targets DEF MovedKinds
      <3> QED BY <3>2, <3>3, <3>4
    <2>3. CASE LinkBinaries
      <3>1. \A a \in job.todo : KindOf[a] = "binary" =>
                path[TargetOf[a]] = Free \/ path[TargetOf[a]] = a \/ path' = path
        BY <2>3 DEF LinkBinaries, Blocked
      <3>2. PICK a \in job.todo : KindOf[a] = "binary" /\ TargetOf[a] = p
        BY <2>1, <2>3 DEF LinkBinaries
      <3>3. a \in Artifacts
        BY <2>3, <3>2, AtJob DEF LinkBinaries
      <3> QED BY <2>1, <3>1, <3>2, <3>3, Targets
    <2>4. CASE \E a \in Artifacts : MoveArtifact(a) \/ MoveBreaks(a) \/ LinkAppImage(a)
      BY <2>1, <2>4, Targets DEF MoveArtifact, MoveBreaks, LinkAppImage, Blocked
    <2>5. CASE UnlinkBinaries \/ UnlinkImages
      <3>1. Of(job.cask) \subseteq Artifacts
        BY DEF Of
      <3> QED BY <2>1, <2>5, <3>1 DEF UnlinkBinaries, UnlinkImages
    <2>6. CASE UNCHANGED path
      BY <2>6
    <2>7. CASE \E q \in Paths : UserPuts(q)
      BY <2>1, <2>7 DEF UserPuts
    <2> QED BY <2>2, <2>3, <2>4, <2>5, <2>6, <2>7
            DEF CaskNext, CaskStep, InstallCask, UninstallCask, StageArtifact, StageBinary,
                StageOne, StageFails, StageEnds, RunInstaller, RemoveFails, RecordCask,
                MovedEnds, ForgetCask, RemoveCaskKeg, KillCaskJob
  <1> HIDE DEF Survives0
  <1>2. CaskSpec => [][Survives0]_caskVars
    BY <1>1, CaskInductive, PTL DEF CaskSpec
  <1> QED BY <1>2 DEF Survives0, UserFilesSurvive

-----------------------------------------------------------------------------
(* Links.  A link leads to what its keg holds, so unlink, which goes by    *)
(* the keg's own tree, finds it.                                           *)

LinksFit ==
    \A e \in Entries :
        /\ entry[e] \in Kegs => Holds[entry[e]][e] # {}
        /\ \A f \in Files : inside[e][f] \in Kegs =>
               IsDir(inside[e][f], e) /\ f \in Holds[inside[e][f]][e]

\* No link in the prefix leads to k, but for an alias in opt/.
Unlinked(k) == /\ \A e \in Entries : entry[e] # k /\ \A f \in Files : inside[e][f] # k
               /\ opt[KegName(k)] # k

\* The inductive invariant.
LinksInv == /\ LinkerTypeOK /\ NoDanglingLinks /\ LinksFit
            /\ IF linking.at = "idle" THEN linking.keg = Nothing ELSE linking.keg \in Kegs
            /\ linking.at = "link" => linking.keg \in onDisk
            /\ linking.at = "remove" => Unlinked(linking.keg)

LinkingTypes == [at : {"idle", "link", "failed", "unlink", "remove"},
                 keg : Kegs \cup {Nothing}, todo : SUBSET Entries]

LEMMA IdleTypes == Idle \in LinkingTypes /\ Idle.at = "idle" /\ Idle.keg = Nothing
  BY DEF Idle, LinkingTypes

LEMMA NamesOfKegs == \A k \in Kegs : KegName(k) \in OptNames
  BY DEF Names, OptNames

LEMMA LinkerTypes ==
    LinkerTypeOK =>
        /\ entry \in [Entries -> {Nothing, UserFile, Directory} \cup Kegs]
        /\ inside \in [Entries -> [Files -> {Nothing, UserFile} \cup Kegs]]
        /\ \A e \in Entries : entry[e] # Directory => \A f \in Files : inside[e][f] = Nothing
        /\ opt \in [OptNames -> Kegs \cup {Nothing}]
        /\ onDisk \subseteq Kegs /\ linking \in LinkingTypes
  BY DEF LinkerTypeOK, LinkingTypes, Empty

LEMMA Marks == /\ Nothing # UserFile /\ Nothing # Directory /\ UserFile # Directory
               /\ Nothing \notin Kegs /\ UserFile \notin Kegs /\ Directory \notin Kegs
  BY LinkerAssumption DEF LinkerAssumption

LEMMA LinkerStarts == LinkerInit => LinksInv
  <1> SUFFICES ASSUME LinkerInit PROVE LinksInv
    OBVIOUS
  <1>1. LinkerTypeOK
    BY IdleTypes DEF LinkerInit, LinkerTypeOK, LinkingTypes, Empty
  <1>2. \A e \in Entries : entry[e] = Nothing /\ \A f \in Files : inside[e][f] = Nothing
    BY DEF LinkerInit, Empty
  <1>3. \A k \in Kegs : opt[KegName(k)] = Nothing
    BY NamesOfKegs DEF LinkerInit
  <1> QED BY <1>1, <1>2, <1>3, Marks, IdleTypes DEF LinksInv, LinksFit, NoDanglingLinks, LinkerInit

\* A step that changes links in opt/ only, to those of a keg that is there.
LEMMA OptStep ==
    ASSUME LinksInv, linking.at = "idle", NEW k \in onDisk, NEW S \in SUBSET OptNames,
           opt' = OptLinks(k, S), UNCHANGED <<entry, inside, onDisk>>,
           linking' \in LinkingTypes,
           \/ linking' = linking
           \/ linking'.at \in {"link", "failed"} /\ linking'.keg = k
    PROVE  LinksInv'
  <1>1. LinkerTypeOK'
    BY LinkerTypes DEF LinksInv, LinkerTypeOK, LinkingTypes, OptLinks
  <1>2. NoDanglingLinks'
    BY NamesOfKegs DEF LinksInv, NoDanglingLinks, OptLinks
  <1>3. k \in Kegs
    BY DEF LinksInv, LinkerTypeOK
  <1> QED BY <1>1, <1>2, <1>3, Marks DEF LinksInv, LinksFit

LEMMA LinkKegKeeps ==
    ASSUME LinksInv, NEW k \in Kegs, LinkKeg(k)
    PROVE  LinksInv'
  <1>1. PICK S \in SUBSET AliasesOf[KegName(k)] :
            IF \E e \in Entries : Conflict(k, e)
            THEN /\ opt' = OptLinks(k, S)
                 /\ linking' = [at |-> "failed", keg |-> k, todo |-> {}]
            ELSE /\ opt' = OptLinks(k, S \cup {KegName(k)})
                 /\ linking' = [at |-> "link", keg |-> k,
                                todo |-> {e \in Entries : Holds[k][e] # {}}]
    BY DEF LinkKeg
  <1>2. S \subseteq OptNames /\ KegName(k) \in OptNames
    BY NamesOfKegs DEF OptNames, Names
  <1>3. linking.at = "idle" /\ k \in onDisk /\ UNCHANGED <<entry, inside, onDisk>>
    BY DEF LinkKeg
  <1>4. CASE \E e \in Entries : Conflict(k, e)
    <2>1. linking' \in LinkingTypes /\ linking'.at = "failed" /\ linking'.keg = k
      BY <1>1, <1>4 DEF LinkingTypes
    <2> QED BY <1>1, <1>2, <1>3, <1>4, <2>1, OptStep
  <1>5. CASE ~ \E e \in Entries : Conflict(k, e)
    <2>1. linking' \in LinkingTypes /\ linking'.at = "link" /\ linking'.keg = k
      BY <1>1, <1>5 DEF LinkingTypes
    <2>2. opt' = OptLinks(k, S \cup {KegName(k)})
      BY <1>1, <1>5
    <2>3. S \cup {KegName(k)} \in SUBSET OptNames
      BY <1>2
    <2> QED BY <1>3, <2>1, <2>2, <2>3, OptStep
  <1> QED BY <1>4, <1>5

LEMMA LinkOptOnlyKeeps ==
    ASSUME LinksInv, NEW k \in Kegs, LinkOptOnly(k)
    PROVE  LinksInv'
  <1>1. PICK S \in SUBSET ({KegName(k)} \cup AliasesOf[KegName(k)]) : opt' = OptLinks(k, S)
    BY DEF LinkOptOnly
  <1>2. S \subseteq OptNames
    BY NamesOfKegs DEF OptNames, Names
  <1>3. linking \in LinkingTypes
    BY LinkerTypes DEF LinksInv
  <1> QED BY <1>1, <1>2, <1>3, OptStep DEF LinkOptOnly

-----------------------------------------------------------------------------
(* Linking one entry.                                                      *)

\* The entry e after a step: it changes by links of k and of keg j, which it led to.
LEMMA EntryStep ==
    ASSUME LinksInv, NEW k \in Kegs, linking.at = "link", linking.keg = k, NEW e \in Entries,
           NEW what \in {Nothing, UserFile, Directory} \cup Kegs,
           NEW in \in [Files -> {Nothing, UserFile} \cup Kegs],
           entry' = [entry EXCEPT ![e] = what], inside' = [inside EXCEPT ![e] = in],
           what # Directory => in = Empty,
           what \in Kegs => what \in onDisk /\ Holds[what][e] # {},
           \A f \in Files : in[f] \in Kegs =>
               in[f] \in onDisk /\ IsDir(in[f], e) /\ f \in Holds[in[f]][e],
           \/ linking' = [linking EXCEPT !.todo = @ \ {e}]
           \/ linking' = [linking EXCEPT !.at = "failed"],
           UNCHANGED <<opt, onDisk>>
    PROVE  LinksInv'
  <1>1. /\ linking' \in LinkingTypes /\ linking'.keg = k
        /\ linking'.at \in {"link", "failed"}
    BY LinkerTypes DEF LinksInv, LinkingTypes
  <1>2. \A d \in Entries : /\ entry'[d] = IF d = e THEN what ELSE entry[d]
                           /\ inside'[d] = IF d = e THEN in ELSE inside[d]
    BY LinkerTypes DEF LinksInv
  <1>3. LinkerTypeOK'
    <2>1. entry' \in [Entries -> {Nothing, UserFile, Directory} \cup Kegs]
      BY LinkerTypes DEF LinksInv
    <2>2. inside' \in [Entries -> [Files -> {Nothing, UserFile} \cup Kegs]]
      BY LinkerTypes DEF LinksInv
    <2>3. \A d \in Entries : entry'[d] # Directory => inside'[d] = Empty
      BY <1>2 DEF LinksInv, LinkerTypeOK
    <2> QED BY <1>1, <2>1, <2>2, <2>3, LinkerTypes DEF LinksInv, LinkerTypeOK, LinkingTypes
  <1>4. NoDanglingLinks'
    BY <1>2 DEF LinksInv, NoDanglingLinks
  <1>5. LinksFit'
    BY <1>2 DEF LinksInv, LinksFit
  <1> QED BY <1>1, <1>3, <1>4, <1>5 DEF LinksInv

LEMMA LinkFileKeeps ==
    ASSUME LinksInv, NEW k \in Kegs, linking.at = "link", linking.keg = k, NEW e \in Entries,
           LinkFile(k, e), UNCHANGED <<opt, onDisk>>
    PROVE  LinksInv'
  <1>1. IsFile(k, e) /\ inside' = inside /\ k \in onDisk
    BY DEF LinkFile, LinksInv
  <1>2. inside' = [inside EXCEPT ![e] = inside[e]] /\ inside[e] \in [Files -> {Nothing, UserFile} \cup Kegs]
    BY <1>1, LinkerTypes DEF LinksInv
  <1>3. \A f \in Files : inside[e][f] \in Kegs =>
            /\ inside[e][f] \in onDisk /\ IsDir(inside[e][f], e)
            /\ f \in Holds[inside[e][f]][e]
    BY DEF LinksInv, NoDanglingLinks, LinksFit
  <1>4. CASE entry[e] \in {Nothing, k}
    <2>1. /\ entry' = [entry EXCEPT ![e] = k]
          /\ linking' = [linking EXCEPT !.todo = @ \ {e}]
      BY <1>4 DEF LinkFile
    <2>2. inside[e] = Empty
      BY <1>4, Marks DEF LinksInv, LinkerTypeOK
    <2>3. Holds[k][e] # {}
      BY <1>1 DEF IsFile
    <2> QED BY <1>1, <1>2, <1>3, <2>1, <2>2, <2>3, EntryStep
  <1>5. CASE entry[e] \notin {Nothing, k}
    <2>1. linking' = [linking EXCEPT !.at = "failed"] /\ entry' = entry
      BY <1>5 DEF LinkFile
    <2>2. entry' = [entry EXCEPT ![e] = entry[e]]
      BY <2>1, LinkerTypes DEF LinksInv
    <2>3. /\ entry[e] \in {Nothing, UserFile, Directory} \cup Kegs
          /\ entry[e] # Directory => inside[e] = Empty
          /\ entry[e] \in Kegs => entry[e] \in onDisk /\ Holds[entry[e]][e] # {}
      BY DEF LinksInv, LinkerTypeOK, NoDanglingLinks, LinksFit
    <2> QED BY <1>2, <1>3, <2>1, <2>2, <2>3, EntryStep
  <1> QED BY <1>4, <1>5

\* What LinkDirectory finds at e: with the link taken apart, if it is one to a directory.
Leads(e) == entry[e] \in Kegs /\ entry[e] \in onDisk /\ IsDir(entry[e], e)
Found(e) == IF Leads(e) THEN Expanded(entry[e], e) ELSE inside[e]
Vacant(k, e) == {f \in Linkable(k, e) : Found(e)[f] \in {Nothing, k}}
Merged(k, e, S) == [f \in Files |-> IF f \in S THEN k ELSE Found(e)[f]]

LEMMA FoundFits ==
    ASSUME LinksInv, NEW e \in Entries
    PROVE  /\ Found(e) \in [Files -> {Nothing, UserFile} \cup Kegs]
           /\ \A f \in Files : Found(e)[f] \in Kegs =>
                  Found(e)[f] \in onDisk /\ IsDir(Found(e)[f], e) /\ f \in Holds[Found(e)[f]][e]
  <1>1. CASE Leads(e)
    BY <1>1, Marks DEF Found, Expanded, Leads, Linkable
  <1>2. CASE ~Leads(e)
    <2>1. inside[e] \in [Files -> {Nothing, UserFile} \cup Kegs]
      BY LinkerTypes DEF LinksInv
    <2> QED BY <1>2, <2>1 DEF Found, LinksInv, NoDanglingLinks, LinksFit
  <1> QED BY <1>1, <1>2

\* Linking a directory makes links in vacant places only.
LEMMA DirectoryStep ==
    ASSUME LinksInv, NEW k \in Kegs, NEW e \in Entries, LinkDirectory(k, e)
    PROVE  /\ IsDir(k, e)
           /\ entry' = [entry EXCEPT ![e] = IF entry[e] = UserFile THEN entry[e] ELSE Directory]
           /\ \E S \in SUBSET Vacant(k, e) :
                  /\ entry[e] = UserFile => S = {}
                  /\ inside' = [inside EXCEPT ![e] = Merged(k, e, S)]
           /\ \/ linking' = [linking EXCEPT !.todo = @ \ {e}]
              \/ linking' = [linking EXCEPT !.at = "failed"]
  <1> DEFINE isLink == entry[e] \in Kegs
             leads  == isLink /\ entry[e] \in onDisk /\ IsDir(entry[e], e)
             old    == IF leads THEN Expanded(entry[e], e) ELSE inside[e]
             free   == {f \in Linkable(k, e) : old[f] \in {Nothing, k}}
             With(S) == [f \in Files |-> IF f \in S THEN k ELSE old[f]]
             fails  == IF isLink THEN ~leads \/ free # Linkable(k, e)
                       ELSE free # Linkable(k, e) \/ (entry[e] = UserFile /\ free # {})
  <1>1. old = Found(e) /\ free = Vacant(k, e) /\ \A S : With(S) = Merged(k, e, S)
    BY DEF Found, Leads, Vacant, Merged
  <1>2. /\ IsDir(k, e)
        /\ entry' = [entry EXCEPT ![e] = IF entry[e] = UserFile THEN entry[e] ELSE Directory]
    BY DEF LinkDirectory
  <1>3. /\ entry'[e] = IF entry[e] = UserFile THEN UserFile ELSE Directory
        /\ inside = [inside EXCEPT ![e] = inside[e]]
    BY <1>2, LinkerTypes DEF LinksInv
  <1>4. entry[e] = UserFile => Merged(k, e, {}) = inside[e]
    <2>1. inside[e] \in [Files -> {Nothing, UserFile} \cup Kegs]
      BY LinkerTypes DEF LinksInv
    <2> QED BY <2>1, Marks DEF Merged, Found, Leads
  <1>5. CASE fails
    <2>1. /\ \E S \in SUBSET (IF entry'[e] = Directory THEN free ELSE {}) :
                inside' = [inside EXCEPT ![e] = With(S)]
          /\ linking' = [linking EXCEPT !.at = "failed"]
      BY <1>5 DEF LinkDirectory
    <2> HIDE DEF free, With
    <2> QED BY <1>1, <1>2, <1>3, <2>1, Marks
  <1>6. CASE ~fails
    <2>1. /\ inside' = [inside EXCEPT ![e] = IF entry'[e] = Directory THEN With(free)
                                             ELSE inside[e]]
          /\ linking' = [linking EXCEPT !.todo = @ \ {e}]
      BY <1>6 DEF LinkDirectory
    <2> HIDE DEF free, With
    <2>2. CASE entry[e] = UserFile
      <3>1. inside' = [inside EXCEPT ![e] = Merged(k, e, {})]
        BY <1>3, <1>4, <2>1, <2>2, Marks
      <3> QED BY <1>2, <2>1, <3>1
    <2>3. CASE entry[e] # UserFile
      <3>1. inside' = [inside EXCEPT ![e] = Merged(k, e, free)]
        BY <1>1, <1>3, <2>1, <2>3
      <3> QED BY <1>1, <1>2, <2>1, <2>3, <3>1
    <2> QED BY <2>2, <2>3
  <1> QED BY <1>5, <1>6

LEMMA LinkDirectoryKeeps ==
    ASSUME LinksInv, NEW k \in Kegs, linking.at = "link", linking.keg = k, NEW e \in Entries,
           LinkDirectory(k, e), UNCHANGED <<opt, onDisk>>
    PROVE  LinksInv'
  <1> DEFINE what == IF entry[e] = UserFile THEN entry[e] ELSE Directory
  <1>1. PICK S \in SUBSET Vacant(k, e) :
            /\ entry[e] = UserFile => S = {}
            /\ inside' = [inside EXCEPT ![e] = Merged(k, e, S)]
    BY DirectoryStep
  <1>2. /\ IsDir(k, e) /\ k \in onDisk
        /\ S \subseteq Linkable(k, e)
        /\ entry' = [entry EXCEPT ![e] = what]
        /\ \/ linking' = [linking EXCEPT !.todo = @ \ {e}]
           \/ linking' = [linking EXCEPT !.at = "failed"]
    BY DirectoryStep DEF LinksInv, Vacant
  <1>3. Merged(k, e, S) \in [Files -> {Nothing, UserFile} \cup Kegs]
    BY FoundFits DEF Merged
  <1>4. \A f \in Files : Merged(k, e, S)[f] \in Kegs =>
            /\ Merged(k, e, S)[f] \in onDisk /\ IsDir(Merged(k, e, S)[f], e)
            /\ f \in Holds[Merged(k, e, S)[f]][e]
    BY <1>2, FoundFits DEF Merged, Linkable
  <1>5. what # Directory => Merged(k, e, S) = Empty
    <2> SUFFICES ASSUME entry[e] = UserFile PROVE Merged(k, e, {}) = Empty
      BY <1>1
    <2>1. inside[e] = Empty
      BY Marks DEF LinksInv, LinkerTypeOK
    <2> QED BY <2>1, Marks DEF Merged, Found, Leads, Empty
  <1>6. what \in {Nothing, UserFile, Directory} \cup Kegs /\ what \notin Kegs
    BY Marks
  <1> HIDE DEF what
  <1> QED BY <1>1, <1>2, <1>3, <1>4, <1>5, <1>6, EntryStep

-----------------------------------------------------------------------------
(* Unlinking.                                                              *)

LEMMA UnlinkKegKeeps ==
    ASSUME LinksInv, NEW k \in Kegs, NEW next \in {"done", "remove"}, UnlinkKeg(k, next)
    PROVE  LinksInv' /\ Unlinked(k)'
  <1>1. /\ opt' = [opt EXCEPT ![KegName(k)] = IF @ = k THEN Nothing ELSE @]
        /\ entry' = [e \in Entries |->
              IF entry[e] = k /\ Holds[k][e] # {} THEN Nothing
              ELSE IF entry[e] = Directory /\ IsDir(k, e)
                      /\ \A f \in Files :
                             inside[e][f] \in {Nothing} \cup {x \in {k} : f \in Holds[k][e]}
                   THEN Nothing ELSE entry[e]]
        /\ inside' = [e \in Entries |-> [f \in Files |->
              IF inside[e][f] = k /\ HoldsFile(k, e, f) THEN Nothing ELSE inside[e][f]]]
        /\ linking' = IF next = "remove" THEN [at |-> "remove", keg |-> k, todo |-> {}] ELSE Idle
        /\ onDisk' = onDisk
    BY DEF UnlinkKeg
  <1>2. \A e \in Entries, f \in Files : inside[e][f] = k => HoldsFile(k, e, f)
    BY DEF LinksInv, NoDanglingLinks, LinksFit, HoldsFile
  <1>3. \A e \in Entries, f \in Files :
            inside'[e][f] = IF inside[e][f] = k THEN Nothing ELSE inside[e][f]
    BY <1>1, <1>2
  <1>4. \A e \in Entries :
            \/ entry'[e] = entry[e] /\ entry[e] # k
            \/ entry'[e] = Nothing /\ (entry[e] = Directory =>
                                          \A f \in Files : inside[e][f] \in {Nothing, k})
    <2> SUFFICES ASSUME NEW e \in Entries
                 PROVE  \/ entry'[e] = entry[e] /\ entry[e] # k
                        \/ entry'[e] = Nothing /\ (entry[e] = Directory =>
                               \A f \in Files : inside[e][f] \in {Nothing, k})
      OBVIOUS
    <2>1. entry[e] = k => Holds[k][e] # {}
      BY DEF LinksInv, LinksFit
    <2>2. CASE entry[e] = k
      BY <1>1, <2>1, <2>2, Marks
    <2>3. CASE entry[e] # k
      BY <1>1, <2>3
    <2> QED BY <2>2, <2>3
  <1>5. \A x \in OptNames : opt'[x] = IF x = KegName(k) /\ opt[x] = k THEN Nothing ELSE opt[x]
    BY <1>1, LinkerTypes DEF LinksInv
  <1>6. linking' \in LinkingTypes
    BY <1>1, IdleTypes DEF LinkingTypes
  <1>7. LinkerTypeOK'
    <2>1. entry' \in [Entries -> {Nothing, UserFile, Directory} \cup Kegs]
      BY <1>1, <1>4, LinkerTypes DEF LinksInv
    <2>2. inside' \in [Entries -> [Files -> {Nothing, UserFile} \cup Kegs]]
      BY <1>1, LinkerTypes DEF LinksInv
    <2>3. \A e \in Entries : entry'[e] # Directory => inside'[e] = Empty
      <3> SUFFICES ASSUME NEW e \in Entries, entry'[e] # Directory
                   PROVE  \A f \in Files : inside'[e][f] = Nothing
        BY <2>2 DEF Empty
      <3> QED BY <1>3, <1>4, LinkerTypes DEF LinksInv
    <2>4. opt' \in [OptNames -> Kegs \cup {Nothing}]
      BY <1>1, LinkerTypes DEF LinksInv
    <2> QED BY <1>1, <1>6, <2>1, <2>2, <2>3, <2>4, LinkerTypes DEF LinksInv, LinkerTypeOK, LinkingTypes
  <1>8. Unlinked(k)'
    BY <1>3, <1>4, <1>5, Marks, NamesOfKegs DEF Unlinked
  <1>9. NoDanglingLinks'
    BY <1>1, <1>3, <1>4, <1>5, Marks, NamesOfKegs DEF LinksInv, NoDanglingLinks
  <1>10. LinksFit'
    BY <1>3, <1>4, Marks DEF LinksInv, LinksFit
  <1>11. \/ linking'.at = "idle" /\ linking'.keg = Nothing
         \/ linking'.at = "remove" /\ linking'.keg = k
    BY <1>1, IdleTypes
  <1> QED BY <1>7, <1>8, <1>9, <1>10, <1>11 DEF LinksInv

LEMMA RemoveUnlinkedKeeps ==
    ASSUME LinksInv, RemoveUnlinked
    PROVE  LinksInv'
  <1>1. LinkerTypeOK'
    BY IdleTypes DEF LinksInv, LinkerTypeOK, LinkingTypes, RemoveUnlinked
  <1>2. NoDanglingLinks'
    BY DEF LinksInv, NoDanglingLinks, RemoveUnlinked, Unlinked
  <1> QED BY <1>1, <1>2, IdleTypes DEF LinksInv, LinksFit, RemoveUnlinked

\* A step between commands.
LEMMA IdleStep ==
    ASSUME LinksInv, linking.at = "idle",
           \/ \E k \in Kegs : AddKeg(k) \/ \E e \in Entries : LinkWholeDirectory(k, e)
           \/ \E e \in Entries, f \in Files : UserPutsFile(e, f)
    PROVE  LinksInv'
  <1>1. CASE \E k \in Kegs : AddKeg(k)
    BY <1>1 DEF LinksInv, LinkerTypeOK, NoDanglingLinks, LinksFit, AddKeg
  <1>2. CASE \E k \in Kegs, e \in Entries : LinkWholeDirectory(k, e)
    <2>1. PICK k \in Kegs, e \in Entries : LinkWholeDirectory(k, e)
      BY <1>2
    <2>2. /\ k \in onDisk /\ Holds[k][e] # {} /\ entry[e] = Nothing
          /\ entry' = [entry EXCEPT ![e] = k] /\ UNCHANGED <<inside, opt, onDisk, linking>>
      BY <2>1 DEF LinkWholeDirectory, IsDir
    <2>3. \A d \in Entries : entry'[d] = IF d = e THEN k ELSE entry[d]
      BY <2>2, LinkerTypes DEF LinksInv
    <2>4. LinkerTypeOK'
      <3>1. entry' \in [Entries -> {Nothing, UserFile, Directory} \cup Kegs]
        BY <2>2, LinkerTypes DEF LinksInv
      <3>2. \A d \in Entries : entry'[d] # Directory => inside'[d] = Empty
        BY <2>2, <2>3, Marks DEF LinksInv, LinkerTypeOK
      <3> QED BY <2>2, <3>1, <3>2 DEF LinksInv, LinkerTypeOK
    <2> QED BY <2>2, <2>3, <2>4 DEF LinksInv, NoDanglingLinks, LinksFit
  <1>3. CASE \E e \in Entries, f \in Files : UserPutsFile(e, f)
    <2>1. PICK e \in Entries, f \in Files : UserPutsFile(e, f)
      BY <1>3
    <2>2. UNCHANGED <<opt, onDisk, linking>>
      BY <2>1 DEF UserPutsFile
    <2>3. /\ \A d \in Entries : \/ entry'[d] = entry[d]
                                \/ entry[d] = Nothing /\ entry'[d] = UserFile
          /\ \A d \in Entries, g \in Files :
                 \/ inside'[d][g] = inside[d][g]
                 \/ inside'[d][g] = UserFile /\ entry'[d] = Directory
      BY <2>1, LinkerTypes DEF UserPutsFile, LinksInv
    <2>4. LinkerTypeOK'
      <3>1. entry' \in [Entries -> {Nothing, UserFile, Directory} \cup Kegs]
        BY <2>1, LinkerTypes DEF LinksInv, UserPutsFile
      <3>2. inside' \in [Entries -> [Files -> {Nothing, UserFile} \cup Kegs]]
        BY <2>1, LinkerTypes DEF LinksInv, UserPutsFile
      <3>3. \A d \in Entries : entry'[d] # Directory => inside'[d] = Empty
        <4> SUFFICES ASSUME NEW d \in Entries, entry'[d] # Directory
                     PROVE  \A g \in Files : inside'[d][g] = Nothing
          BY <3>2 DEF Empty
        <4> QED BY <2>3, LinkerTypes, Marks DEF LinksInv
      <3> QED BY <2>2, <3>1, <3>2, <3>3 DEF LinksInv, LinkerTypeOK
    <2> QED BY <2>2, <2>3, <2>4, Marks DEF LinksInv, NoDanglingLinks, LinksFit
  <1> QED BY <1>1, <1>2, <1>3

LEMMA EndKeeps ==
    ASSUME LinksInv, LinkEnds \/ KillLink
    PROVE  LinksInv'
  BY IdleTypes DEF LinksInv, LinkerTypeOK, LinkingTypes, LinksFit, NoDanglingLinks, LinkEnds, KillLink

LEMMA LinkerStepsKeep ==
    ASSUME LinksInv, [LinkerNext]_linkVars
    PROVE  LinksInv'
  <1>1. CASE UNCHANGED linkVars
    BY <1>1 DEF linkVars, LinksInv, LinkerTypeOK, LinksFit, NoDanglingLinks, Unlinked
  <1>2. CASE \E k \in Kegs : LinkKeg(k) \/ LinkOptOnly(k)
    BY <1>2, LinkKegKeeps, LinkOptOnlyKeeps
  <1>3. CASE \/ \E k \in Kegs : AddKeg(k) \/ \E e \in Entries : LinkWholeDirectory(k, e)
             \/ \E e \in Entries, f \in Files : UserPutsFile(e, f)
    BY <1>3, IdleStep DEF AddKeg, LinkWholeDirectory, UserPutsFile
  <1>4. CASE \E k \in Kegs, next \in {"done", "remove"} : UnlinkKeg(k, next)
    BY <1>4, UnlinkKegKeeps
  <1>5. CASE \E e \in Entries : LinkEntry(e)
    <2>1. linking.at = "link" /\ linking.keg \in Kegs
      BY <1>5 DEF LinkEntry, LinksInv
    <2> QED BY <1>5, <2>1, LinkFileKeeps, LinkDirectoryKeeps DEF LinkEntry
  <1>6. CASE LinkEnds \/ RemoveUnlinked \/ KillLink
    BY <1>6, EndKeeps, RemoveUnlinkedKeeps
  <1> QED BY <1>1, <1>2, <1>3, <1>4, <1>5, <1>6 DEF LinkerNext

\* Linker: the types of the prefix, and that a link leads to what its keg holds there.
THEOREM LinksInductive == LinkerSpec => []LinksInv
  <1>1. LinkerInit => LinksInv
    BY LinkerStarts
  <1>2. LinksInv /\ [LinkerNext]_linkVars => LinksInv'
    BY LinkerStepsKeep
  <1> QED BY <1>1, <1>2, PTL DEF LinkerSpec

\* Linker::link_keg, unlink_keg: no link of the prefix dangles while kegs are linked,
\* unlinked and removed, and link_keg dies between any two entries.
THEOREM LinksResolve == LinkerSpec => []NoDanglingLinks
  <1>1. LinksInv => NoDanglingLinks
    BY DEF LinksInv
  <1> QED BY <1>1, LinksInductive, PTL

-----------------------------------------------------------------------------

\* No entry is a file in one keg and a directory in another.  Without it the code does take
\* a link from another keg: check_conflicts (link.rs:156-216) sees no conflict where the
\* new keg has a directory and the prefix another keg's link to a file, and
\* link_recursive (link.rs:271-277) removes that link before it reads what it led to.
SameShapes == \A j, k \in Kegs, e \in Entries : ~(IsFile(j, e) /\ IsDir(k, e))

LEMMA LinkEntryKeepsOthers ==
    ASSUME SameShapes, LinksInv, NEW e \in Entries, LinkEntry(e)
    PROVE  /\ UserFiles \subseteq UserFiles'
           /\ \A j \in Kegs \ {linking.keg} : Shows(j) \subseteq Shows(j)'
  <1> DEFINE k == linking.keg
  <1>1. k \in Kegs /\ onDisk' = onDisk
    BY DEF LinkEntry, LinksInv
  <1> HIDE DEF k
  <1>2. CASE LinkFile(k, e)
    <2>1. \A d \in Entries : entry'[d] = entry[d] \/ entry[d] \in {Nothing, k}
      BY <1>2, LinkerTypes DEF LinkFile, LinksInv
    <2>2. inside' = inside
      BY <1>2 DEF LinkFile
    <2> QED BY <1>1, <2>1, <2>2, Marks DEF Shows, UserFiles, HoldsFile, k
  <1>3. CASE LinkDirectory(k, e)
    <2>1. PICK S \in SUBSET Vacant(k, e) : inside' = [inside EXCEPT ![e] = Merged(k, e, S)]
      BY <1>1, <1>3, DirectoryStep
    <2>2. \A d \in Entries : d # e => entry'[d] = entry[d] /\ inside'[d] = inside[d]
      BY <1>1, <1>3, <2>1, DirectoryStep, LinkerTypes DEF LinksInv
    <2>3. inside'[e] = Merged(k, e, S) /\ (entry[e] = UserFile => entry'[e] = UserFile)
      BY <1>1, <1>3, <2>1, DirectoryStep, LinkerTypes DEF LinksInv
    <2>4. \A f \in Files : Found(e)[f] \notin {Nothing, k} => inside'[e][f] = Found(e)[f]
      BY <2>3 DEF Merged, Vacant
    <2>5. CASE entry[e] \notin Kegs
      <3>1. Found(e) = inside[e]
        BY <2>5 DEF Found, Leads
      <3> QED BY <1>1, <2>2, <2>3, <2>4, <2>5, <3>1, Marks DEF Shows, UserFiles, HoldsFile, k
    <2>6. CASE entry[e] \in Kegs
      <3>1. Leads(e)
        <4>1. entry[e] \in onDisk /\ Holds[entry[e]][e] # {}
          BY <2>6 DEF LinksInv, NoDanglingLinks, LinksFit
        <4>2. IsDir(k, e)
          BY <1>3 DEF LinkDirectory
        <4> QED BY <1>1, <2>6, <4>1, <4>2 DEF Leads, SameShapes, IsDir, IsFile
      <3>2. Found(e) = Expanded(entry[e], e) /\ ~IsFile(entry[e], e)
        BY <3>1 DEF Found, Leads, IsDir, IsFile
      <3>3. \A f \in Files : inside[e][f] = Nothing
        BY <2>6, Marks, LinkerTypes DEF LinksInv
      <3>4. entry[e] # k => \A f \in Files :
                HoldsFile(entry[e], e, f) /\ f \notin Private[e] => inside'[e][f] = entry[e]
        BY <2>4, <2>6, <3>2, Marks DEF Expanded, Linkable, HoldsFile
      <3> QED BY <1>1, <2>2, <2>6, <3>2, <3>3, <3>4, Marks DEF Shows, UserFiles, HoldsFile, k
    <2> QED BY <2>5, <2>6
  <1> QED BY <1>2, <1>3 DEF LinkEntry, k

LEMMA UnlinkKeepsOthers ==
    ASSUME LinksInv, NEW k \in Kegs, NEW next \in {"done", "remove"}, UnlinkKeg(k, next)
    PROVE  /\ UserFiles \subseteq UserFiles'
           /\ \A j \in Kegs \ {k} : Shows(j) \subseteq Shows(j)'
  <1>1. \A e \in Entries, f \in Files : inside[e][f] # k => inside'[e][f] = inside[e][f]
    BY DEF UnlinkKeg
  <1>2. \A e \in Entries : entry[e] \notin {k, Directory} => entry'[e] = entry[e]
    BY DEF UnlinkKeg
  <1>3. onDisk' = onDisk
    BY DEF UnlinkKeg
  <1> QED BY <1>1, <1>2, <1>3, Marks DEF Shows, UserFiles, HoldsFile

LEMMA StepsKeepOthers ==
    ASSUME SameShapes, LinksInv, [LinkerNext]_linkVars
    PROVE  [KeepsOthers]_linkVars
  <1> SUFFICES ASSUME LinkerNext, linking.keg # Nothing \/ linking'.keg # Nothing
               PROVE  /\ UserFiles \subseteq UserFiles'
                      /\ \A j \in Kegs \ {linking.keg, linking'.keg} : Shows(j) \subseteq Shows(j)'
    BY DEF KeepsOthers
  <1>1. CASE \E e \in Entries : LinkEntry(e)
    BY <1>1, LinkEntryKeepsOthers
  <1>2. CASE \E k \in Kegs, next \in {"done", "remove"} : UnlinkKeg(k, next)
    <2>1. PICK k \in Kegs, next \in {"done", "remove"} : UnlinkKeg(k, next)
      BY <1>2
    <2>2. k \in {linking.keg, linking'.keg}
      BY <2>1, IdleTypes DEF UnlinkKeg, LinksInv
    <2> QED BY <2>1, <2>2, UnlinkKeepsOthers
  <1>3. CASE RemoveUnlinked
    BY <1>3 DEF RemoveUnlinked, Shows, UserFiles, HoldsFile
  <1>4. CASE LinkEnds \/ KillLink \/ \E k \in Kegs : LinkKeg(k) \/ LinkOptOnly(k)
    BY <1>4 DEF LinkEnds, KillLink, LinkKeg, LinkOptOnly, Shows, UserFiles, HoldsFile
  <1>5. CASE \/ \E k \in Kegs : AddKeg(k) \/ \E e \in Entries : LinkWholeDirectory(k, e)
             \/ \E e \in Entries, f \in Files : UserPutsFile(e, f)
    BY <1>5 DEF AddKeg, LinkWholeDirectory, UserPutsFile, LinksInv
  <1> QED BY <1>1, <1>2, <1>3, <1>4, <1>5 DEF LinkerNext

\* Linker::link_keg, unlink_keg: with entries of one shape, no step of a keg's linking or
\* unlinking, failed ones and deaths included, takes away the user's files or what
\* another keg shows in the prefix.
THEOREM LinksCorrect == ASSUME SameShapes PROVE LinkerSpec => LinksAreKept
  <1>1. LinksInv /\ [LinkerNext]_linkVars /\ LinksInv' =>
            [KeepsOthers /\ NoDanglingLinks']_linkVars
    BY StepsKeepOthers DEF LinksInv
  <1> QED BY <1>1, LinksInductive, PTL DEF LinkerSpec, LinksAreKept

-----------------------------------------------------------------------------
(* Relocation.  An inode is written to by one name, or its names agree.    *)

OldInode(x) == <<layout.link[x], "old">>
NewInode(x) == <<x, "new">>

Dynamic == {x \in FileNames : FileKind[x] = "dynamic"}

\* Inodes of temporary files that a name may come by.
NewFor(x) == {NewInode(y) : y \in {z \in Dynamic : TempOf[z] = TempOf[x]}}

\* Which inode a name has, and where its patcher can be, whatever fails.
ShapeFits(x) ==
    LET at == patcher[x].at IN
    /\ inodeOf[x] = OldInode(x) \/ (x \in Dynamic /\ inodeOf[x] \in NewFor(x))
    /\ x \in Dynamic => patcher[x].fd \in NewFor(x)
    /\ at \in {"create", "write", "rename"} =>
           IF x \in Dynamic THEN phase = "binaries"
           ELSE phase = "texts" /\ FileKind[x] = "text" /\ at = "write"
    /\ at # "end" => InPass(phase, x)
    /\ at \notin {"wait", "end"} => phase # "loads"
    /\ phase = "binaries" /\ at = "wait" => inodeOf[x] = OldInode(x)

TempsFit == \A t \in TempPaths : tempAt[t] # NoInode =>
                \E y \in Dynamic : TempOf[y] = t /\ tempAt[t] = NewInode(y)

SeenFits == phase = "binaries" =>
                \A i \in seenInodes :
                    \E y \in FileNames : i = OldInode(y) /\ patcher[y].at # "wait"

ShapesFit == /\ \A x \in FileNames : ShapeFits(x)
             /\ TempsFit /\ SeenFits
             /\ phase = "loads" => platform = "macos"

\* The bytes of a file that was there are not written to but by the pass for it.
OldBytesFit ==
    \A x \in FileNames :
        \/ FileKind[x] = "static"
        \/ FileKind[x] = "dynamic" /\ phase = "binaries"
        \/ FileKind[x] = "text" /\ phase = "binaries"
        => content[OldInode(x)] = OwnBytes(layout.link[x])

PatchedBytes(x, done) == [of |-> layout.link[x], done |-> done, whole |-> TRUE]

\* What a binary's patcher writes, and what its load commands make of that.
WrittenBytes(x) == PatchedBytes(x, TempPatches(x))
LoadedBytes(x) == PatchedBytes(x, Wanted(x))

\* The bytes of a binary that was there: its own, patched in place at most by the last pass.
OldBinaryFits(x) == content[OldInode(x)] \in {OwnBytes(layout.link[x]), PatchedBytes(x, {"loads"})}

\* A binary that has a temporary file of its own is whole under its name, and that file
\* once it was written, whatever fails.
WholeFits(x) ==
    LET at == patcher[x].at IN
    /\ HoldsOwnBytes(x)
    /\ phase = "binaries" =>
        /\ at \in {"wait", "chmod", "read", "create", "write", "rename"} =>
               inodeOf[x] = OldInode(x)
        /\ at \in {"create", "write"} => patcher[x].read = OwnBytes(layout.link[x])
        /\ at = "write" => content[NewInode(x)] = NoBytes(x)
        /\ at = "rename" => /\ content[NewInode(x)].whole
                            /\ content[NewInode(x)].of = layout.link[x]

\* A dynamic binary that has a temporary file, and on Linux an inode, of its own.
TempIsOwn(x) == x \in Dynamic /\ ~SharesTemp(x)
Single(x) == /\ TempIsOwn(x) /\ ~FailedAt(x)
             /\ ~(platform = "linux" /\ HardLinked(x))

\* A file nothing was written for, though it is done with.
Passed(x) == TooShort(x) /\ inodeOf[x] = OldInode(x)
Replaced(x, b) == inodeOf[x] = NewInode(x) /\ content[NewInode(x)] = b

BinaryFits(x) ==
    LET at == patcher[x].at IN
    /\ phase = "binaries" =>
        /\ at \in {"wait", "chmod", "read", "create"} => tempAt[TempOf[x]] = NoInode
        /\ at \in {"write", "rename"} => tempAt[TempOf[x]] = NewInode(x)
        /\ at = "write" => patcher[x].fd = NewInode(x)
        /\ at = "rename" => content[NewInode(x)] = WrittenBytes(x)
        /\ at \in {"mode", "end"} => Replaced(x, WrittenBytes(x)) \/ Passed(x)
    /\ phase = "texts" => Replaced(x, WrittenBytes(x)) \/ Passed(x)
    /\ phase = "loads" =>
           \/ Replaced(x, IF at = "end" THEN LoadedBytes(x) ELSE WrittenBytes(x))
           \/ Passed(x) /\ (at = "end" => content[OldInode(x)] = LoadedBytes(x))
    /\ phase = "ok" =>
           \/ Replaced(x, LoadedBytes(x))
           \/ Passed(x) /\ content[OldInode(x)] = LoadedBytes(x)

\* The names of a text that share the inode of x patch it in any order: one that
\* finds it emptied leaves it to the one that emptied it.
TextFits(x) ==
    LET b == content[OldInode(x)]
        names == {y \in FileNames : layout.link[y] = layout.link[x]}
    IN
    /\ phase = "texts" =>
        /\ \A y \in names : patcher[y].at \in {"chmod", "read", "write"} =>
               patcher[y].read = OwnBytes(layout.link[x])
        /\ \/ /\ b = OwnBytes(layout.link[x])
              /\ \A y \in names : patcher[y].at \in {"wait", "chmod", "read"}
           \/ ~b.whole /\ \E y \in names : patcher[y].at = "write"
           \/ b = PatchedBytes(x, {"paths"})
    /\ phase \in {"loads", "ok"} => b = PatchedBytes(x, {"paths"})

\* Of a file with one name, and not left writable by design.
OwnsMode(x) == /\ ~HardLinked(x) /\ ~FailedAt(x) /\ ~(x \in Dynamic /\ SharesTemp(x))
               /\ ~(platform = "linux" /\ FileKind[x] = "static")

ModeFits(x) ==
    IF patcher[x].at \in {"wait", "chmod", "end"} THEN KeepsMode(x)
    ELSE inodeOf[x] \notin readOnly /\ (patcher[x].wasReadOnly <=> x \in layout.readOnly)

\* The inode of the temporary file is writable until it is the file's.
NewModeFits(x) ==
    phase = "binaries" /\ patcher[x].at \in {"wait", "chmod", "read", "create", "write", "rename"} =>
        NewInode(x) \notin readOnly

\* The inductive invariant.
RelocateInv ==
    /\ RelocateTypeOK /\ ShapesFit /\ OldBytesFit
    /\ \A x \in FileNames :
          /\ Single(x) => BinaryFits(x)
          /\ TempIsOwn(x) => WholeFits(x)
          /\ x \in Dynamic => OldBinaryFits(x)
          /\ FileKind[x] = "text" /\ ~FailedAt(x) => TextFits(x)
          /\ OwnsMode(x) => ModeFits(x)
          /\ x \in Dynamic /\ ~SharesTemp(x) => NewModeFits(x)

PatcherTypes == [FileNames -> [at : PatcherSteps, read : Bytes, fd : Inodes,
                               wasReadOnly : BOOLEAN]]

\* What the assumption says of layouts.
LEMMA Layouts ==
    /\ \A l \in KegLayouts, x \in FileNames :
          /\ l.link[x] \in FileNames /\ l.link[l.link[x]] = l.link[x]
          /\ FileKind[l.link[x]] = FileKind[x]
          /\ x \in l.readOnly <=> l.link[x] \in l.readOnly
    /\ \A l \in KegLayouts : l.readOnly \subseteq FileNames
    /\ \A x \in FileNames : FileKind[x] \in {"dynamic", "static", "text"}
    /\ NoInode \notin Inodes
  <1>1. \A l \in KegLayouts : l.link \in [FileNames -> FileNames]
    BY RelocateAssumption DEF RelocateAssumption
  <1>2. FileKind \in [FileNames -> {"dynamic", "static", "text"}]
    BY RelocateAssumption DEF RelocateAssumption
  <1>3. \A l \in KegLayouts : l.readOnly \subseteq FileNames
    BY RelocateAssumption DEF RelocateAssumption
  <1>4. \A l \in KegLayouts, x \in FileNames :
          /\ l.link[l.link[x]] = l.link[x]
          /\ FileKind[l.link[x]] = FileKind[x]
          /\ x \in l.readOnly <=> l.link[x] \in l.readOnly
    BY RelocateAssumption DEF RelocateAssumption
  <1>5. NoInode \notin Inodes
    BY RelocateAssumption DEF RelocateAssumption, Inodes
  <1>6. \A l \in KegLayouts, x \in FileNames : l.link[x] \in FileNames
    BY <1>1
  <1>7. \A x \in FileNames : FileKind[x] \in {"dynamic", "static", "text"}
    BY <1>2
  <1> HIDE DEF Inodes
  <1> QED BY <1>3, <1>4, <1>5, <1>6, <1>7

LEMMA LayoutFits ==
    ASSUME RelocateTypeOK, NEW x \in FileNames
    PROVE  /\ layout.link[x] \in FileNames
           /\ layout.link[layout.link[x]] = layout.link[x]
           /\ FileKind[layout.link[x]] = FileKind[x]
           /\ x \in layout.readOnly <=> layout.link[x] \in layout.readOnly
           /\ FileKind[x] \in {"dynamic", "static", "text"}
           /\ OldInode(x) \in Inodes /\ NewInode(x) \in Inodes /\ TempOf[x] \in TempPaths
           /\ NoInode \notin Inodes
  <1>1. layout \in KegLayouts
    BY DEF RelocateTypeOK
  <1> QED BY <1>1, Layouts DEF OldInode, NewInode, Inodes, TempPaths

\* What hangs on the platform and the layout alone.
LEMMA LayoutKeeps ==
    ASSUME UNCHANGED <<platform, layout>>, NEW x \in FileNames
    PROVE  /\ OldInode(x)' = OldInode(x) /\ NewInode(x)' = NewInode(x)
           /\ WrittenBytes(x)' = WrittenBytes(x) /\ LoadedBytes(x)' = LoadedBytes(x)
           /\ OwnBytes(layout.link[x])' = OwnBytes(layout.link[x])
           /\ (TooShort(x)' <=> TooShort(x)) /\ (HardLinked(x)' <=> HardLinked(x))
           /\ (TempIsOwn(x)' <=> TempIsOwn(x))
  <1>1. platform' = platform /\ layout' = layout
    OBVIOUS
  <1>2. (TooShort(x)' <=> TooShort(x)) /\ (HardLinked(x)' <=> HardLinked(x))
    BY <1>1 DEF TooShort, HardLinked
  <1>3. TempPatches(x)' = TempPatches(x) /\ Wanted(x)' = Wanted(x)
    BY <1>1, <1>2 DEF TempPatches, Wanted
  <1> QED BY <1>1, <1>2, <1>3
          DEF OldInode, NewInode, WrittenBytes, LoadedBytes, PatchedBytes, TempIsOwn, SharesTemp

\* The bytes with the load commands patched.
Loaded(b) == [b EXCEPT !.done = @ \cup {"loads"}]

LEMMA LoadedRecord ==
    \A of, done, whole :
        Loaded([of |-> of, done |-> done, whole |-> whole]) =
            [of |-> of, done |-> done \cup {"loads"}, whole |-> whole]
  BY DEF Loaded

LEMMA LoadedKeeps ==
    ASSUME NEW x \in FileNames
    PROVE  /\ Loaded(OwnBytes(layout.link[x])) = PatchedBytes(x, {"loads"})
           /\ \A done : Loaded(PatchedBytes(x, done)) = PatchedBytes(x, done \cup {"loads"})
  <1>1. ASSUME NEW d PROVE Loaded(PatchedBytes(x, d)) = PatchedBytes(x, d \cup {"loads"})
    BY LoadedRecord, Zenon DEF PatchedBytes
  <1>2. OwnBytes(layout.link[x]) = PatchedBytes(x, {})
    BY DEF OwnBytes, PatchedBytes
  <1>3. {} \cup {"loads"} = {"loads"}
    OBVIOUS
  <1>4. Loaded(OwnBytes(layout.link[x])) = Loaded(PatchedBytes(x, {}))
    BY <1>2
  <1>5. Loaded(PatchedBytes(x, {})) = PatchedBytes(x, {"loads"})
    BY <1>1, <1>3
  <1> QED BY <1>1, <1>4, <1>5

\* A binary's load commands are what is left to be patched of what was written.
LEMMA LoadsAreLeft ==
    ASSUME NEW x \in Dynamic
    PROVE  /\ Loaded(LoadedBytes(x)) = LoadedBytes(x)
           /\ platform = "linux" => LoadedBytes(x) = WrittenBytes(x)
           /\ platform = "macos" => Loaded(WrittenBytes(x)) = LoadedBytes(x)
           /\ TooShort(x) => LoadedBytes(x) = PatchedBytes(x, {"loads"})
  <1>1. FileKind[x] = "dynamic" /\ x \in FileNames
    BY DEF Dynamic
  <1>2. Wanted(x) = IF platform = "linux" \/ x \in layout.short THEN {"loads"}
                    ELSE {"paths", "loads"}
    BY <1>1 DEF Wanted
  <1>3. /\ Wanted(x) \cup {"loads"} = Wanted(x)
        /\ platform = "linux" => Wanted(x) = TempPatches(x)
        /\ platform = "macos" => TempPatches(x) \cup {"loads"} = Wanted(x)
        /\ TooShort(x) => Wanted(x) = {"loads"}
    BY <1>2 DEF TempPatches, TooShort
  <1> QED BY <1>1, <1>3, LoadedKeeps DEF LoadedBytes, WrittenBytes

LEMMA RelocateTypes ==
    RelocateTypeOK =>
        /\ inodeOf \in [FileNames -> Inodes] /\ tempAt \in [TempPaths -> Inodes \cup {NoInode}]
        /\ content \in [Inodes -> Bytes] /\ patcher \in PatcherTypes
        /\ \A x \in FileNames : /\ patcher[x].at \in PatcherSteps /\ patcher[x].read \in Bytes
                                /\ patcher[x].fd \in Inodes /\ patcher[x].wasReadOnly \in BOOLEAN
  BY DEF RelocateTypeOK, PatcherTypes

LEMMA BytesTypes ==
    \A x \in FileNames : OwnBytes(x) \in Bytes /\ NoBytes(x) \in Bytes
  BY DEF OwnBytes, NoBytes, Bytes

\* Of another name, which inodes are not those of x.
LEMMA Apart ==
    ASSUME RelocateInv, NEW x \in FileNames, NEW z \in FileNames, z # x
    PROVE  /\ x \in Dynamic /\ ~SharesTemp(x) =>
                  /\ inodeOf[z] # NewInode(x)
                  /\ z \in Dynamic => /\ TempOf[z] # TempOf[x]
                                      /\ NewInode(x) \notin NewFor(z)
           /\ ~HardLinked(x) => OldInode(z) # OldInode(x)
           /\ OwnsMode(x) => inodeOf[z] # inodeOf[x]
  <1>1. ~HardLinked(x) => OldInode(z) # OldInode(x)
    BY DEF HardLinked, OldInode
  <1>2. ASSUME x \in Dynamic, ~SharesTemp(x), z \in Dynamic
        PROVE  TempOf[z] # TempOf[x] /\ NewInode(x) \notin NewFor(z)
    BY <1>2 DEF SharesTemp, Dynamic, NewFor, NewInode
  <1>3. x \in Dynamic /\ ~SharesTemp(x) => inodeOf[z] # NewInode(x)
    BY <1>2 DEF RelocateInv, ShapesFit, ShapeFits, OldInode, NewInode
  <1>4. OwnsMode(x) => inodeOf[z] # inodeOf[x]
    <2> SUFFICES ASSUME OwnsMode(x) PROVE inodeOf[z] # inodeOf[x]
      OBVIOUS
    <2>1. CASE inodeOf[x] = OldInode(x)
      BY <1>1, <2>1 DEF RelocateInv, ShapesFit, ShapeFits, OwnsMode, NewFor, NewInode, OldInode
    <2>2. CASE x \in Dynamic /\ inodeOf[x] \in NewFor(x)
      <3>1. inodeOf[x] = NewInode(x)
        BY <2>2 DEF OwnsMode, SharesTemp, NewFor, Dynamic
      <3> QED BY <1>3, <2>2, <3>1 DEF OwnsMode
    <2> QED BY <2>1, <2>2 DEF RelocateInv, ShapesFit, ShapeFits
  <1> QED BY <1>1, <1>2, <1>3, <1>4

LEMMA RelocateStarts == RelocateInit => RelocateInv
  <1> SUFFICES ASSUME RelocateInit PROVE RelocateInv
    OBVIOUS
  <1>1. platform \in {"linux", "macos"} /\ layout \in KegLayouts
    BY DEF RelocateInit
  <1>2. \A x \in FileNames :
            /\ layout.link[x] \in FileNames /\ FileKind[layout.link[x]] = FileKind[x]
            /\ x \in layout.readOnly <=> layout.link[x] \in layout.readOnly
            /\ inodeOf[x] = OldInode(x)
            /\ FileKind[x] \in {"dynamic", "static", "text"}
    BY <1>1, Layouts DEF RelocateInit, OldInode
  <1>3. /\ patcher = [x \in FileNames |-> [at |-> IF InPass("binaries", x) THEN "wait" ELSE "end",
                          read |-> OwnBytes(x), fd |-> <<x, "new">>, wasReadOnly |-> FALSE]]
        /\ phase = "binaries" /\ failed = {} /\ seenInodes = {}
    BY DEF RelocateInit, Patchers
  <1>4. RelocateTypeOK
    <2>1. inodeOf \in [FileNames -> Inodes]
      BY <1>2 DEF RelocateInit, Inodes
    <2>2. readOnly \subseteq Inodes
      BY <1>1, <2>1, Layouts DEF RelocateInit
    <2>3. content \in [Inodes -> Bytes]
      BY BytesTypes DEF RelocateInit, Inodes
    <2>4. patcher \in PatcherTypes
      BY <1>3, BytesTypes DEF PatcherTypes, PatcherSteps, Inodes
    <2> QED BY <1>1, <1>3, <2>1, <2>2, <2>3, <2>4 DEF RelocateInit, RelocateTypeOK, PatcherTypes
  <1>5. \A x \in FileNames :
            /\ content[OldInode(x)] = OwnBytes(layout.link[x])
            /\ patcher[x].at = IF InPass("binaries", x) THEN "wait" ELSE "end"
            /\ patcher[x].fd = NewInode(x)
            /\ NewInode(x) \notin readOnly /\ tempAt[TempOf[x]] = NoInode
    <2>1. \A x \in FileNames : NewInode(x) \notin readOnly
      BY <1>1, <1>2, Layouts DEF RelocateInit, OldInode, NewInode
    <2>2. \A x \in FileNames : content[OldInode(x)] = OwnBytes(layout.link[x])
      BY <1>4, LayoutFits DEF RelocateInit, OldInode
    <2>3. \A x \in FileNames : tempAt[TempOf[x]] = NoInode
      BY <1>4, LayoutFits DEF RelocateInit
    <2> QED BY <1>3, <2>1, <2>2, <2>3 DEF NewInode
  <1>6. \A x \in FileNames : KeepsMode(x)
    <2> SUFFICES ASSUME NEW x \in FileNames PROVE inodeOf[x] \in readOnly <=> x \in layout.readOnly
      BY DEF KeepsMode
    <2>1. readOnly = {inodeOf[y] : y \in layout.readOnly} /\ layout.readOnly \subseteq FileNames
      BY <1>1, Layouts DEF RelocateInit
    <2>2. \A y \in FileNames : inodeOf[y] = inodeOf[x] => layout.link[y] = layout.link[x]
      BY <1>2 DEF OldInode
    <2> QED BY <1>2, <2>1, <2>2
  <1>7. ShapesFit
    BY <1>2, <1>3, <1>5 DEF ShapesFit, ShapeFits, TempsFit, SeenFits, RelocateInit, NewFor, Dynamic
  <1>8. OldBytesFit
    BY <1>5 DEF OldBytesFit
  <1>9. \A x \in FileNames : x \in Dynamic => BinaryFits(x) /\ WholeFits(x) /\ OldBinaryFits(x)
    <2>1. ASSUME NEW x \in FileNames PROVE HoldsOwnBytes(x)
      <3>1. content[inodeOf[x]] = OwnBytes(layout.link[x])
        BY <1>2, <1>5
      <3> QED BY <3>1 DEF HoldsOwnBytes, OwnBytes
    <2>2. \A x \in FileNames : x \in Dynamic => patcher[x].at = "wait"
      BY <1>5 DEF InPass, Dynamic
    <2>3. \A x \in FileNames : x \in Dynamic => BinaryFits(x)
      BY <1>3, <1>5, <2>2 DEF BinaryFits
    <2>4. \A x \in FileNames : x \in Dynamic => WholeFits(x)
      BY <1>2, <2>1, <2>2 DEF WholeFits
    <2>5. \A x \in FileNames : OldBinaryFits(x)
      BY <1>5 DEF OldBinaryFits
    <2> QED BY <2>3, <2>4, <2>5
  <1>10. \A x \in FileNames : TextFits(x) /\ ModeFits(x) /\ NewModeFits(x)
    BY <1>3, <1>5, <1>6 DEF TextFits, ModeFits, NewModeFits
  <1> QED BY <1>4, <1>7, <1>8, <1>9, <1>10 DEF RelocateInv, Single, TempIsOwn

\* A step of z keeps what it does not come near; what remains is about z.
LEMMA NameKeeps ==
    ASSUME RelocateInv, NEW z \in FileNames, UNCHANGED <<platform, layout, phase>>,
           RelocateTypeOK', ShapeFits(z)', TempsFit', SeenFits', failed \subseteq failed',
           \A x \in FileNames \ {z} : patcher'[x] = patcher[x] /\ inodeOf'[x] = inodeOf[x],
           \A t \in TempPaths : tempAt'[t] # tempAt[t] => z \in Dynamic /\ t = TempOf[z],
           \A i \in Inodes : content'[i] # content[i] =>
               \/ /\ i = inodeOf[z] /\ phase # "binaries"
                  /\ z \in Dynamic => content'[i] = Loaded(content[i])
               \/ z \in Dynamic /\ i \in NewFor(z),
           FileKind[z] = "static" => content' = content,
           \A i \in Inodes : (i \in readOnly' <=> i \in readOnly) \/ i = inodeOf[z],
           Single(z)' => BinaryFits(z)', TempIsOwn(z) => WholeFits(z)',
           FileKind[z] = "text" /\ ~FailedAt(z)' => TextFits(z)',
           OwnsMode(z)' => ModeFits(z)',
           z \in Dynamic /\ ~SharesTemp(z) => NewModeFits(z)'
    PROVE  RelocateInv'
  <1>1. \A x \in FileNames : FailedAt(x) => FailedAt(x)'
    BY DEF FailedAt
  <1>2. \A x \in FileNames : /\ OldInode(x)' = OldInode(x) /\ (HardLinked(x)' <=> HardLinked(x))
                             /\ OldInode(x) \in Inodes /\ NewInode(x) \in Inodes
                             /\ OldInode(x) \notin NewFor(z)
    BY LayoutFits DEF RelocateInv, OldInode, HardLinked, NewFor, NewInode
  <1>3. \A x \in FileNames : layout.link[x] # layout.link[z] => inodeOf[z] # OldInode(x)
    BY DEF RelocateInv, ShapesFit, ShapeFits, OldInode, NewFor, NewInode
  <1>4. OldBytesFit'
    <2> SUFFICES ASSUME NEW x \in FileNames,
                        FileKind[x] = "static" \/ phase = "binaries",
                        content'[OldInode(x)] # content[OldInode(x)]
                 PROVE  FALSE
      BY <1>2, LayoutFits DEF RelocateInv, OldBytesFit, OldInode
    <2>1. inodeOf[z] = OldInode(x) /\ phase # "binaries"
      BY <1>2
    <2>2. layout.link[x] = layout.link[z]
      BY <1>3, <2>1
    <2> QED BY <2>1, <2>2, LayoutFits DEF RelocateInv
  <1>4a. \A x \in Dynamic : \/ content'[OldInode(x)] = content[OldInode(x)]
                              \/ content'[OldInode(x)] = Loaded(content[OldInode(x)])
    <2> SUFFICES ASSUME NEW x \in Dynamic, content'[OldInode(x)] # content[OldInode(x)]
                 PROVE  content'[OldInode(x)] = Loaded(content[OldInode(x)])
      OBVIOUS
    <2>1. x \in FileNames /\ FileKind[x] = "dynamic"
      BY DEF Dynamic
    <2>2. inodeOf[z] = OldInode(x) /\ (z \in Dynamic => content'[OldInode(x)] = Loaded(content[OldInode(x)]))
      BY <1>2, <2>1
    <2>3. layout.link[x] = layout.link[z]
      BY <1>3, <2>1, <2>2
    <2>4. z \in Dynamic
      BY <2>1, <2>3, LayoutFits DEF RelocateInv, Dynamic
    <2> QED BY <2>2, <2>4
  <1>4b. ASSUME NEW x \in FileNames, x \in Dynamic PROVE OldBinaryFits(x)'
    <2>1. /\ OldBinaryFits(x)
          /\ content'[OldInode(x)] \in {content[OldInode(x)], Loaded(content[OldInode(x)])}
      BY <1>4a, <1>4b DEF RelocateInv
    <2>2. /\ Loaded(OwnBytes(layout.link[x])) = PatchedBytes(x, {"loads"})
          /\ Loaded(PatchedBytes(x, {"loads"})) = PatchedBytes(x, {"loads"})
      <3>1. {"loads"} \cup {"loads"} = {"loads"}
        OBVIOUS
      <3> QED BY <3>1, LoadedKeeps
    <2>3. content'[OldInode(x)] \in {OwnBytes(layout.link[x]), PatchedBytes(x, {"loads"})}
      BY <2>1, <2>2 DEF OldBinaryFits
    <2> QED BY <2>3, LayoutKeeps DEF OldBinaryFits, PatchedBytes
  <1>4c. ASSUME NEW x \in FileNames, TempIsOwn(x)' PROVE WholeFits(x)'
    <2>1. TempIsOwn(x)
      BY <1>4c, LayoutKeeps
    <2>2. CASE x = z
      BY <2>1, <2>2
    <2>3. CASE x # z
      <3>1. WholeFits(x) /\ OldBinaryFits(x) /\ x \in Dynamic
        BY <2>1 DEF RelocateInv, TempIsOwn
      <3>2. content'[NewInode(x)] = content[NewInode(x)]
        BY <1>2, <2>1, <2>3, Apart DEF RelocateInv, TempIsOwn
      <3>3. inodeOf[x] = OldInode(x) \/ inodeOf[x] = NewInode(x)
        BY <2>1 DEF RelocateInv, ShapesFit, ShapeFits, TempIsOwn, SharesTemp, NewFor, Dynamic
      <3>4. HoldsOwnBytes(x)'
        <4>1. CASE inodeOf[x] = NewInode(x)
          BY <2>3, <3>1, <3>2, <4>1 DEF WholeFits, HoldsOwnBytes
        <4>2. CASE inodeOf[x] = OldInode(x)
          <5>1. content'[OldInode(x)] \in {OwnBytes(layout.link[x]), PatchedBytes(x, {"loads"})}
            BY <1>4b, <3>1, LayoutKeeps DEF OldBinaryFits, PatchedBytes
          <5> QED BY <2>3, <4>2, <5>1 DEF HoldsOwnBytes, OwnBytes, PatchedBytes
        <4> QED BY <3>3, <4>1, <4>2
      <3> QED BY <2>3, <3>1, <3>2, <3>4, LayoutKeeps DEF WholeFits
    <2> QED BY <2>2, <2>3
  <1>5. ASSUME NEW x \in FileNames, Single(x)' PROVE BinaryFits(x)'
    <2>1. CASE x = z
      BY <1>5, <2>1
    <2>2. CASE x # z
      <3>1. Single(x) /\ BinaryFits(x)
        BY <1>1, <1>2, <1>5 DEF RelocateInv, Single
      <3>2. tempAt'[TempOf[x]] = tempAt[TempOf[x]] /\ content'[NewInode(x)] = content[NewInode(x)]
        BY <1>2, <2>2, <3>1, Apart, LayoutFits DEF RelocateInv, Single, TempIsOwn
      <3>3. content[OldInode(x)] = LoadedBytes(x) => content'[OldInode(x)] = LoadedBytes(x)
        BY <1>4a, <3>1, LoadsAreLeft DEF Single, TempIsOwn
      <3> QED BY <2>2, <3>1, <3>2, <3>3, LayoutKeeps DEF BinaryFits, Passed, Replaced
    <2> QED BY <2>1, <2>2
  <1>6. ASSUME NEW x \in FileNames, FileKind[x] = "text", ~FailedAt(x)' PROVE TextFits(x)'
    <2>1. CASE layout.link[x] = layout.link[z]
      <3>1. FileKind[z] = "text" /\ ~FailedAt(z)'
        BY <1>6, <2>1, LayoutFits DEF RelocateInv, FailedAt
      <3>2. TextFits(z)'
        BY <3>1
      <3> QED BY <2>1, <3>2 DEF TextFits, OldInode, PatchedBytes
    <2>2. CASE layout.link[x] # layout.link[z]
      <3>1. TextFits(x)
        BY <1>1, <1>6 DEF RelocateInv
      <3>2. content'[OldInode(x)] = content[OldInode(x)]
        BY <1>2, <1>3, <2>2
      <3>3. \A y \in FileNames : layout.link[y] = layout.link[x] => patcher'[y] = patcher[y]
        BY <2>2
      <3> QED BY <1>2, <3>1, <3>2, <3>3 DEF TextFits, PatchedBytes
    <2> QED BY <2>1, <2>2
  <1>7. ASSUME NEW x \in FileNames, OwnsMode(x)' PROVE ModeFits(x)'
    <2>1. CASE x = z
      BY <1>7, <2>1
    <2>2. CASE x # z
      <3>1. OwnsMode(x) /\ ModeFits(x)
        BY <1>1, <1>2, <1>7 DEF RelocateInv, OwnsMode
      <3>2. inodeOf[x] \in readOnly' <=> inodeOf[x] \in readOnly
        BY <2>2, <3>1, Apart, RelocateTypes DEF RelocateInv
      <3> QED BY <2>2, <3>1, <3>2 DEF ModeFits, KeepsMode
    <2> QED BY <2>1, <2>2
  <1>8. ASSUME NEW x \in FileNames, x \in Dynamic, ~SharesTemp(x) PROVE NewModeFits(x)'
    <2>1. CASE x = z
      BY <1>8, <2>1
    <2>2. CASE x # z
      <3>1. NewModeFits(x) /\ (NewInode(x) \in readOnly' <=> NewInode(x) \in readOnly)
        BY <1>2, <1>8, <2>2, Apart DEF RelocateInv
      <3> QED BY <2>2, <3>1 DEF NewModeFits
    <2> QED BY <2>1, <2>2
  <1>9. ShapesFit'
    <2>1. \A x \in FileNames \ {z} : ShapeFits(x)'
      BY <1>2 DEF RelocateInv, ShapesFit, ShapeFits
    <2> QED BY <2>1 DEF RelocateInv, ShapesFit
  <1> QED BY <1>4, <1>5, <1>6, <1>7, <1>8, <1>9, <1>4b, <1>4c DEF RelocateInv, SharesTemp, Dynamic

LEMMA Goes ==
    ASSUME RelocateTypeOK, NEW z \in FileNames, NEW to \in PatcherSteps,
           patcher' = [patcher EXCEPT ![z].at = to]
    PROVE  /\ patcher' \in PatcherTypes
           /\ patcher'[z].at = to /\ patcher'[z].read = patcher[z].read
           /\ patcher'[z].fd = patcher[z].fd
           /\ patcher'[z].wasReadOnly = patcher[z].wasReadOnly
           /\ \A x \in FileNames \ {z} : patcher'[x] = patcher[x]
  BY RelocateTypes DEF PatcherTypes

\* A name that fails is left alone.
LEMMA NameFails ==
    ASSUME RelocateInv, NEW z \in FileNames, NEW how \in {"counted", "dropped"},
           patcher' = [patcher EXCEPT ![z].at = "end"], failed' = failed \cup {<<z, how>>},
           UNCHANGED <<platform, layout, phase, inodeOf, tempAt, content, readOnly, seenInodes>>
    PROVE  RelocateInv'
  <1>1. /\ patcher' \in PatcherTypes /\ patcher'[z].at = "end"
        /\ patcher'[z].fd = patcher[z].fd
        /\ \A x \in FileNames \ {z} : patcher'[x] = patcher[x]
    BY Goes DEF RelocateInv, PatcherSteps
  <1>2. RelocateTypeOK'
    BY <1>1 DEF RelocateInv, RelocateTypeOK, PatcherTypes
  <1>3. FailedAt(z)'
    <2>1. <<z, how>> \in failed' /\ <<z, how>>[1] = z
      OBVIOUS
    <2> QED BY <2>1 DEF FailedAt
  <1>4. ShapeFits(z)' /\ TempsFit'
    BY <1>1 DEF RelocateInv, ShapesFit, ShapeFits, TempsFit, OldInode
  <1>5. SeenFits'
    BY <1>1 DEF RelocateInv, ShapesFit, SeenFits, OldInode
  <1>6. TempIsOwn(z) => WholeFits(z)'
    BY <1>1 DEF RelocateInv, WholeFits, HoldsOwnBytes
  <1> QED BY <1>1, <1>2, <1>3, <1>4, <1>5, <1>6, NameKeeps DEF Single, OwnsMode, NewModeFits

LEMMA TakeOnKeeps ==
    ASSUME RelocateInv, NEW z \in FileNames, TakeOn(z), UNCHANGED <<platform, layout, phase>>
    PROVE  RelocateInv'
  <1>1. /\ phase = "binaries" /\ patcher[z].at = "wait"
        /\ UNCHANGED <<inodeOf, tempAt, content, readOnly, failed>>
    BY DEF TakeOn, PatcherGoes
  <1>2. /\ InPass("binaries", z) /\ inodeOf[z] = OldInode(z) /\ FileKind[z] # "text"
    BY <1>1 DEF RelocateInv, ShapesFit, ShapeFits, InPass
  <1>3. PICK to \in {"chmod", "end"} :
            /\ patcher' = [patcher EXCEPT ![z].at = to]
            /\ to = "chmod" => seenInodes' = seenInodes \cup {inodeOf[z]}
            /\ to = "end" => /\ platform = "linux" /\ inodeOf[z] \in seenInodes
                             /\ seenInodes' = seenInodes
    BY DEF TakeOn, PatcherGoes
  <1>4. /\ patcher' \in PatcherTypes /\ patcher'[z].at = to
        /\ patcher'[z].fd = patcher[z].fd
        /\ \A x \in FileNames \ {z} : patcher'[x] = patcher[x]
    BY <1>3, Goes DEF RelocateInv, PatcherSteps
  <1>5. RelocateTypeOK'
    <2>1. seenInodes' \subseteq Inodes
      BY <1>3, RelocateTypes DEF RelocateInv, RelocateTypeOK
    <2> QED BY <1>1, <1>4, <2>1 DEF RelocateInv, RelocateTypeOK, PatcherTypes
  <1>6. ShapeFits(z)' /\ TempsFit'
    BY <1>1, <1>2, <1>4 DEF RelocateInv, ShapesFit, ShapeFits, TempsFit, OldInode, InPass
  <1>7. SeenFits'
    BY <1>1, <1>2, <1>3, <1>4 DEF RelocateInv, ShapesFit, SeenFits, OldInode
  <1>8. to = "end" => HardLinked(z)
    BY <1>1, <1>2, <1>3 DEF RelocateInv, ShapesFit, SeenFits, OldInode, HardLinked
  <1>9. Single(z)' => BinaryFits(z)'
    <2>1. Single(z)' => Single(z) /\ to = "chmod"
      BY <1>1, <1>3, <1>8, LayoutKeeps DEF Single, FailedAt
    <2> QED BY <1>1, <1>4, <2>1, LayoutKeeps DEF RelocateInv, BinaryFits
  <1>10. OwnsMode(z)' => ModeFits(z)'
    BY <1>1, <1>4 DEF RelocateInv, OwnsMode, ModeFits, KeepsMode, FailedAt, HardLinked
  <1>11. z \in Dynamic /\ ~SharesTemp(z) => NewModeFits(z)'
    BY <1>1, <1>4 DEF RelocateInv, NewModeFits
  <1>12. TempIsOwn(z) => WholeFits(z)'
    BY <1>1, <1>4, LayoutKeeps DEF RelocateInv, WholeFits, HoldsOwnBytes
  <1> QED BY <1>1, <1>2, <1>4, <1>5, <1>6, <1>7, <1>9, <1>10, <1>11, <1>12, NameKeeps

LEMMA MakeWritableKeeps ==
    ASSUME RelocateInv, NEW z \in FileNames, MakeWritable(z), UNCHANGED <<platform, layout, phase>>
    PROVE  RelocateInv'
  <1>1. CASE PatchFails(z, "chmod", "chmod")
    BY <1>1, NameFails DEF PatchFails, PatcherGoes, NoteFailure
  <1>2. CASE /\ patcher[z].at = "chmod"
             /\ patcher' = [patcher EXCEPT ![z].at = "read",
                                           ![z].wasReadOnly = inodeOf[z] \in readOnly]
             /\ readOnly' = readOnly \ {inodeOf[z]}
             /\ UNCHANGED <<inodeOf, tempAt, content, seenInodes, failed>>
    <2> DEFINE was == inodeOf[z] \in readOnly
    <2>1. /\ patcher' = [patcher EXCEPT ![z].at = "read", ![z].wasReadOnly = was]
          /\ was \in BOOLEAN /\ (was <=> inodeOf[z] \in readOnly)
      BY <1>2
    <2> HIDE DEF was
    <2>2. /\ patcher' \in PatcherTypes /\ patcher'[z].at = "read"
          /\ patcher'[z].fd = patcher[z].fd /\ patcher'[z].read = patcher[z].read
          /\ patcher'[z].wasReadOnly = was
          /\ \A x \in FileNames \ {z} : patcher'[x] = patcher[x]
      BY <2>1, RelocateTypes DEF RelocateInv, PatcherTypes, PatcherSteps
    <2>3. RelocateTypeOK'
      BY <1>2, <2>2 DEF RelocateInv, RelocateTypeOK, PatcherTypes
    <2>4. ShapeFits(z)' /\ TempsFit'
      BY <1>2, <2>2 DEF RelocateInv, ShapesFit, ShapeFits, TempsFit, OldInode, InPass
    <2>5. SeenFits'
      <3>1. \A y \in FileNames : patcher[y].at # "wait" => patcher'[y].at # "wait"
        BY <2>2
      <3> QED BY <1>2, <3>1 DEF RelocateInv, ShapesFit, SeenFits, OldInode
    <2>6. Single(z)' => BinaryFits(z)'
      <3> SUFFICES ASSUME Single(z)' PROVE BinaryFits(z)'
        OBVIOUS
      <3>1. Single(z) /\ BinaryFits(z)
        BY <1>2, LayoutKeeps DEF RelocateInv, Single, FailedAt
      <3>2. phase = "binaries"
        BY <1>2, <3>1 DEF RelocateInv, Single, TempIsOwn, ShapesFit, ShapeFits, InPass, Dynamic
      <3> QED BY <1>2, <2>2, <3>1, <3>2 DEF BinaryFits
    <2>7. FileKind[z] = "text" /\ ~FailedAt(z)' => TextFits(z)'
      <3> SUFFICES ASSUME FileKind[z] = "text", ~FailedAt(z)' PROVE TextFits(z)'
        OBVIOUS
      <3>1. TextFits(z) /\ phase = "texts"
        BY <1>2 DEF RelocateInv, FailedAt, ShapesFit, ShapeFits, InPass
      <3>2. \A y \in FileNames :
                /\ patcher'[y].read = patcher[y].read
                /\ patcher[y].at = "write" <=> patcher'[y].at = "write"
                /\ patcher[y].at \in {"wait", "chmod", "read"} <=>
                       patcher'[y].at \in {"wait", "chmod", "read"}
                /\ patcher'[y].at \in {"chmod", "read", "write"} =>
                       patcher[y].at \in {"chmod", "read", "write"}
        BY <1>2, <2>2
      <3> QED BY <1>2, <3>1, <3>2 DEF TextFits, OldInode, PatchedBytes
    <2>8. OwnsMode(z)' => ModeFits(z)'
      <3> SUFFICES ASSUME OwnsMode(z)' PROVE ModeFits(z)'
        OBVIOUS
      <3>1. KeepsMode(z)
        BY <1>2 DEF RelocateInv, OwnsMode, FailedAt, HardLinked, ModeFits
      <3> QED BY <1>2, <2>1, <2>2, <3>1 DEF ModeFits, KeepsMode
    <2>9. z \in Dynamic /\ ~SharesTemp(z) => NewModeFits(z)'
      BY <1>2, <2>2 DEF RelocateInv, NewModeFits
    <2>10. TempIsOwn(z) => WholeFits(z)'
      BY <1>2, <2>2, LayoutKeeps DEF RelocateInv, WholeFits, HoldsOwnBytes
    <2> QED BY <1>2, <2>2, <2>3, <2>4, <2>5, <2>6, <2>7, <2>8, <2>9, <2>10, NameKeeps
  <1> QED BY <1>1, <1>2 DEF MakeWritable

LEMMA ReadBinaryKeeps ==
    ASSUME RelocateInv, NEW z \in FileNames, ReadBinary(z), UNCHANGED <<platform, layout, phase>>
    PROVE  RelocateInv'
  <1>1. CASE PatchFails(z, "read", "read")
    BY <1>1, NameFails DEF PatchFails, PatcherGoes, NoteFailure
  <1>2. CASE ~PatchFails(z, "read", "read")
    <2> DEFINE b == content[inodeOf[z]]
    <2>1. /\ phase = "binaries" /\ patcher[z].at = "read"
          /\ UNCHANGED <<inodeOf, tempAt, content, readOnly, seenInodes, failed>>
      BY <1>2 DEF ReadBinary
    <2>14. PICK to \in AfterRead(z) : patcher' = [patcher EXCEPT ![z].read = b, ![z].at = to]
      BY <1>2 DEF ReadBinary
    <2>2. to \in PatcherSteps /\ b \in Bytes
      BY RelocateTypes DEF RelocateInv, PatcherSteps, AfterRead
    <2>3. /\ to = "create" => z \in Dynamic
          /\ to = "end" => platform = "linux" /\ FileKind[z] # "dynamic"
          /\ z \in Dynamic /\ to = "mode" => TooShort(z)
          /\ to \in {"create", "end", "mode"}
      BY DEF Dynamic, AfterRead
    <2>4. inodeOf[z] = OldInode(z) /\ z \in Dynamic => b = OwnBytes(layout.link[z])
      BY <2>1 DEF RelocateInv, OldBytesFit, Dynamic
    <2> HIDE DEF b
    <2>5. /\ patcher' \in PatcherTypes /\ patcher'[z].at = to
          /\ patcher'[z].fd = patcher[z].fd /\ patcher'[z].read = b
          /\ patcher'[z].wasReadOnly = patcher[z].wasReadOnly
          /\ \A x \in FileNames \ {z} : patcher'[x] = patcher[x]
      BY <2>2, <2>14, RelocateTypes DEF RelocateInv, PatcherTypes
    <2>6. RelocateTypeOK'
      BY <2>1, <2>5 DEF RelocateInv, RelocateTypeOK, PatcherTypes
    <2>7. FileKind[z] # "text" /\ InPass("binaries", z)
      BY <2>1 DEF RelocateInv, ShapesFit, ShapeFits, InPass
    <2>8. ShapeFits(z)' /\ TempsFit'
      BY <2>1, <2>3, <2>5, <2>7
         DEF RelocateInv, ShapesFit, ShapeFits, TempsFit, OldInode, InPass
    <2>9. SeenFits'
      BY <2>1, <2>3, <2>5 DEF RelocateInv, ShapesFit, SeenFits, OldInode
    <2>10. Single(z)' => BinaryFits(z)'
      <3> SUFFICES ASSUME Single(z)' PROVE BinaryFits(z)'
        OBVIOUS
      <3>1. Single(z) /\ BinaryFits(z) /\ WholeFits(z) /\ z \in Dynamic
        BY <2>1, LayoutKeeps DEF RelocateInv, Single, TempIsOwn, FailedAt
      <3>2. to = "mode" => Passed(z)'
        BY <2>1, <2>3, <3>1, LayoutKeeps DEF Passed, WholeFits
      <3> QED BY <2>1, <2>3, <2>5, <3>1, <3>2 DEF BinaryFits, Dynamic
    <2>11. OwnsMode(z)' => ModeFits(z)'
      <3> SUFFICES ASSUME OwnsMode(z)' PROVE ModeFits(z)'
        OBVIOUS
      <3>1. OwnsMode(z) /\ ModeFits(z) /\ to # "end"
        BY <2>1, <2>3, <2>7, LayoutFits
           DEF RelocateInv, OwnsMode, FailedAt, HardLinked
      <3> QED BY <2>1, <2>3, <2>5, <3>1 DEF ModeFits
    <2>12. z \in Dynamic /\ ~SharesTemp(z) => NewModeFits(z)'
      BY <2>1, <2>5 DEF RelocateInv, NewModeFits
    <2>13. TempIsOwn(z) => WholeFits(z)'
      BY <2>1, <2>3, <2>4, <2>5, LayoutKeeps DEF RelocateInv, TempIsOwn, WholeFits, HoldsOwnBytes
    <2> QED BY <2>1, <2>5, <2>6, <2>7, <2>8, <2>9, <2>10, <2>11, <2>12, <2>13, NameKeeps
  <1> QED BY <1>1, <1>2

LEMMA CreateTempKeeps ==
    ASSUME RelocateInv, NEW z \in FileNames, CreateTemp(z), UNCHANGED <<platform, layout, phase>>
    PROVE  RelocateInv'
  <1> DEFINE i == IF tempAt[TempOf[z]] = NoInode THEN NewInode(z) ELSE tempAt[TempOf[z]]
  <1>1. /\ patcher[z].at = "create"
        /\ patcher' = [patcher EXCEPT ![z].at = "write", ![z].fd = i]
        /\ tempAt' = [tempAt EXCEPT ![TempOf[z]] = i]
        /\ content' = [content EXCEPT ![i] = NoBytes(z)]
        /\ UNCHANGED <<inodeOf, readOnly, seenInodes, failed>>
    BY DEF CreateTemp, NewInode
  <1>2. z \in Dynamic /\ phase = "binaries" /\ FileKind[z] = "dynamic"
    BY <1>1 DEF RelocateInv, ShapesFit, ShapeFits, Dynamic
  <1>3. TempOf[z] \in TempPaths /\ NewInode(z) \in Inodes /\ NoInode \notin Inodes
    BY LayoutFits DEF RelocateInv
  <1>4. i \in NewFor(z) /\ \E y \in Dynamic : TempOf[y] = TempOf[z] /\ i = NewInode(y)
    BY <1>2, <1>3 DEF RelocateInv, ShapesFit, TempsFit, NewFor
  <1>5. i \in Inodes
    BY <1>4 DEF NewInode, Inodes, Dynamic
  <1>6. tempAt[TempOf[z]] = NoInode => i = NewInode(z)
    OBVIOUS
  <1> HIDE DEF i
  <1>7. /\ patcher' \in PatcherTypes /\ patcher'[z].at = "write"
        /\ patcher'[z].fd = i /\ patcher'[z].read = patcher[z].read
        /\ patcher'[z].wasReadOnly = patcher[z].wasReadOnly
        /\ \A x \in FileNames \ {z} : patcher'[x] = patcher[x]
    BY <1>1, <1>5, RelocateTypes DEF RelocateInv, PatcherTypes, PatcherSteps
  <1>8. /\ content' \in [Inodes -> Bytes] /\ content'[i] = NoBytes(z)
        /\ \A k \in Inodes \ {i} : content'[k] = content[k]
    BY <1>1, <1>5, RelocateTypes, BytesTypes DEF RelocateInv
  <1>9. /\ tempAt' \in [TempPaths -> Inodes \cup {NoInode}] /\ tempAt'[TempOf[z]] = i
        /\ \A t \in TempPaths \ {TempOf[z]} : tempAt'[t] = tempAt[t]
    BY <1>1, <1>3, <1>5, RelocateTypes DEF RelocateInv
  <1>10. RelocateTypeOK'
    BY <1>1, <1>7, <1>8, <1>9 DEF RelocateInv, RelocateTypeOK, PatcherTypes
  <1>11. ShapeFits(z)'
    BY <1>1, <1>2, <1>4, <1>7 DEF RelocateInv, ShapesFit, ShapeFits, OldInode, InPass
  <1>12. TempsFit'
    BY <1>4, <1>9 DEF RelocateInv, ShapesFit, TempsFit
  <1>13. SeenFits'
    <2>1. \A y \in FileNames : patcher[y].at # "wait" => patcher'[y].at # "wait"
      BY <1>7
    <2> QED BY <1>1, <2>1 DEF RelocateInv, ShapesFit, SeenFits, OldInode
  <1>14. Single(z)' => BinaryFits(z)'
    <2> SUFFICES ASSUME Single(z)' PROVE BinaryFits(z)'
      OBVIOUS
    <2>1. Single(z) /\ BinaryFits(z)
      BY <1>1, LayoutKeeps DEF RelocateInv, Single, FailedAt
    <2>2. i = NewInode(z)
      BY <1>1, <1>2, <1>6, <2>1 DEF BinaryFits
    <2> QED BY <1>1, <1>2, <1>7, <1>9, <2>1, <2>2 DEF BinaryFits
  <1>15. OwnsMode(z)' => ModeFits(z)'
    BY <1>1, <1>7 DEF RelocateInv, OwnsMode, ModeFits, KeepsMode, FailedAt, HardLinked
  <1>16. z \in Dynamic /\ ~SharesTemp(z) => NewModeFits(z)'
    BY <1>1, <1>2, <1>7 DEF RelocateInv, NewModeFits
  <1>17. \A k \in Inodes : content'[k] # content[k] => z \in Dynamic /\ k \in NewFor(z)
    BY <1>2, <1>4, <1>8
  <1>18. TempIsOwn(z) => WholeFits(z)'
    <2> SUFFICES ASSUME TempIsOwn(z) PROVE WholeFits(z)'
      OBVIOUS
    <2>1. i = NewInode(z)
      BY <1>2, <1>4 DEF TempIsOwn, SharesTemp, NewFor, Dynamic
    <2>2. WholeFits(z) /\ inodeOf[z] = OldInode(z) /\ OldInode(z) # NewInode(z)
      BY <1>1, <1>2 DEF RelocateInv, WholeFits, OldInode, NewInode
    <2>3. content'[OldInode(z)] = content[OldInode(z)]
      BY <1>8, <2>1, <2>2, LayoutFits DEF RelocateInv
    <2>4. HoldsOwnBytes(z)'
      BY <1>1, <2>2, <2>3 DEF WholeFits, HoldsOwnBytes
    <2> QED BY <1>1, <1>2, <1>7, <1>8, <2>1, <2>2, <2>4, LayoutKeeps DEF WholeFits
  <1> QED BY <1>1, <1>2, <1>7, <1>9, <1>10, <1>11, <1>12, <1>13, <1>14, <1>15, <1>16, <1>17,
             <1>18, NameKeeps

LEMMA WriteTempKeeps ==
    ASSUME RelocateInv, NEW z \in FileNames, WriteTemp(z), UNCHANGED <<platform, layout, phase>>
    PROVE  RelocateInv'
  <1>1. CASE PatchFails(z, "write", "write")
    BY <1>1, NameFails DEF PatchFails, PatcherGoes, NoteFailure
  <1>2. CASE ~PatchFails(z, "write", "write")
    <2> DEFINE i == patcher[z].fd
               b(done) == IF content[i].whole /\ content[i].of # z THEN NoBytes(z)
                          ELSE [patcher[z].read EXCEPT !.done = @ \cup done]
    <2>1. /\ phase = "binaries" /\ patcher[z].at = "write"
          /\ patcher' = [patcher EXCEPT ![z].at = "rename"]
          /\ UNCHANGED <<inodeOf, tempAt, readOnly, seenInodes>>
          /\ failed \subseteq failed'
      BY <1>2 DEF WriteTemp, PatcherGoes
    <2>2. \E done \in {TempPatches(z), {}} :
              /\ content' = [content EXCEPT ![i] = b(done)]
              /\ \/ done = TempPatches(z) /\ failed' = failed
                 \/ failed' = failed \cup {<<z, "dropped">>}
      BY <1>2 DEF WriteTemp, WriteBytes
    <2> PICK done \in {TempPatches(z), {}} :
              /\ content' = [content EXCEPT ![i] = b(done)]
              /\ \/ done = TempPatches(z) /\ failed' = failed
                 \/ failed' = failed \cup {<<z, "dropped">>}
      BY <2>2
    <2>3. z \in Dynamic /\ FileKind[z] = "dynamic"
      BY <2>1 DEF RelocateInv, ShapesFit, ShapeFits, Dynamic
    <2>4. i \in NewFor(z) /\ i \in Inodes
      BY <2>3, RelocateTypes DEF RelocateInv, ShapesFit, ShapeFits
    <2>5. b(done) \in Bytes /\ failed' \subseteq FileNames \X {"counted", "dropped"}
      <3>1. patcher[z].read \in Bytes
        BY RelocateTypes DEF RelocateInv
      <3>2. done \subseteq {"paths", "loads"}
        BY DEF TempPatches
      <3>3. [patcher[z].read EXCEPT !.done = @ \cup done] \in Bytes
        BY <3>1, <3>2 DEF Bytes
      <3>4. <<z, "dropped">> \in FileNames \X {"counted", "dropped"}
        OBVIOUS
      <3>5. b(done) \in Bytes
        BY <3>3, BytesTypes
      <3> HIDE DEF b
      <3> QED BY <3>4, <3>5 DEF RelocateInv, RelocateTypeOK
    <2>6. TempIsOwn(z) => i = NewInode(z) /\ b(done) = PatchedBytes(z, done)
      <3> SUFFICES ASSUME TempIsOwn(z)
                   PROVE  i = NewInode(z) /\ b(done) = PatchedBytes(z, done)
        OBVIOUS
      <3>1. i = NewInode(z)
        BY <2>3, <2>4 DEF TempIsOwn, SharesTemp, NewFor, Dynamic
      <3>2. patcher[z].read = OwnBytes(layout.link[z]) /\ content[i] = NoBytes(z)
        BY <2>1, <3>1 DEF RelocateInv, WholeFits
      <3>3. b(done) = [OwnBytes(layout.link[z]) EXCEPT !.done = @ \cup done]
        BY <3>2 DEF NoBytes
      <3>4. {} \cup done = done
        OBVIOUS
      <3>5. b(done) = PatchedBytes(z, done)
        BY <3>3, <3>4 DEF OwnBytes, PatchedBytes
      <3> QED BY <3>1, <3>5
    <2> HIDE DEF i, b
    <2>7. /\ patcher' \in PatcherTypes /\ patcher'[z].at = "rename"
          /\ patcher'[z].fd = patcher[z].fd
          /\ patcher'[z].wasReadOnly = patcher[z].wasReadOnly
          /\ \A x \in FileNames \ {z} : patcher'[x] = patcher[x]
      BY <2>1, Goes DEF RelocateInv, PatcherSteps
    <2>8. /\ content' \in [Inodes -> Bytes] /\ content'[i] = b(done)
          /\ \A k \in Inodes \ {i} : content'[k] = content[k]
      BY <2>4, <2>5, RelocateTypes DEF RelocateInv
    <2>9. RelocateTypeOK'
      BY <2>1, <2>5, <2>7, <2>8 DEF RelocateInv, RelocateTypeOK, PatcherTypes
    <2>10. ShapeFits(z)' /\ TempsFit'
      BY <2>1, <2>3, <2>7
         DEF RelocateInv, ShapesFit, ShapeFits, TempsFit, OldInode, InPass
    <2>11. SeenFits'
      BY <2>1, <2>7 DEF RelocateInv, ShapesFit, SeenFits, OldInode
    <2>12. ASSUME ~FailedAt(z)'
           PROVE  /\ ~FailedAt(z) /\ failed' = failed /\ done = TempPatches(z)
      <3>1. failed' # failed \cup {<<z, "dropped">>}
        <4>1. <<z, "dropped">>[1] = z
          OBVIOUS
        <4> QED BY <2>12, <4>1 DEF FailedAt
      <3> QED BY <2>1, <2>12, <3>1 DEF FailedAt
    <2>13. Single(z)' => BinaryFits(z)'
      <3> SUFFICES ASSUME Single(z)' PROVE BinaryFits(z)'
        OBVIOUS
      <3>1. Single(z) /\ BinaryFits(z) /\ TempIsOwn(z) /\ done = TempPatches(z)
        BY <2>1, <2>12, LayoutKeeps DEF RelocateInv, Single
      <3>2. content'[NewInode(z)] = WrittenBytes(z)
        BY <2>6, <2>8, <3>1 DEF WrittenBytes
      <3> QED BY <2>1, <2>7, <3>1, <3>2, LayoutKeeps DEF BinaryFits
    <2>14. OwnsMode(z)' => ModeFits(z)'
      BY <2>1, <2>7, <2>12 DEF RelocateInv, OwnsMode, ModeFits, KeepsMode, HardLinked
    <2>15. z \in Dynamic /\ ~SharesTemp(z) => NewModeFits(z)'
      BY <2>1, <2>7 DEF RelocateInv, NewModeFits
    <2>16. \A k \in Inodes : content'[k] # content[k] => z \in Dynamic /\ k \in NewFor(z)
      BY <2>3, <2>4, <2>8
    <2>17. TempIsOwn(z) => WholeFits(z)'
      <3> SUFFICES ASSUME TempIsOwn(z) PROVE WholeFits(z)'
        OBVIOUS
      <3>1. WholeFits(z) /\ inodeOf[z] = OldInode(z) /\ OldInode(z) # NewInode(z)
        BY <2>1 DEF RelocateInv, WholeFits, OldInode, NewInode
      <3>2. content'[OldInode(z)] = content[OldInode(z)]
        BY <2>6, <2>8, <3>1, LayoutFits DEF RelocateInv
      <3>3. HoldsOwnBytes(z)'
        BY <2>1, <3>1, <3>2 DEF WholeFits, HoldsOwnBytes
      <3>4. content'[NewInode(z)].whole /\ content'[NewInode(z)].of = layout.link[z]
        BY <2>6, <2>8 DEF PatchedBytes
      <3> QED BY <2>1, <2>7, <3>1, <3>3, <3>4, LayoutKeeps DEF WholeFits
    <2> QED BY <2>1, <2>3, <2>7, <2>9, <2>10, <2>11, <2>13, <2>14, <2>15, <2>16, <2>17, NameKeeps
  <1> QED BY <1>1, <1>2

LEMMA RenameTempKeeps ==
    ASSUME RelocateInv, NEW z \in FileNames, RenameTemp(z), UNCHANGED <<platform, layout, phase>>
    PROVE  RelocateInv'
  <1> DEFINE i == tempAt[TempOf[z]]
  <1>1. patcher[z].at = "rename" /\ UNCHANGED <<content, readOnly, seenInodes>>
    BY DEF RenameTemp
  <1>2. CASE i = NoInode
    BY <1>1, <1>2, NameFails DEF RenameTemp, PatcherGoes, NoteFailure
  <1>3. CASE i # NoInode
    <2>1. /\ patcher' = [patcher EXCEPT ![z].at = "mode"]
          /\ inodeOf' = [inodeOf EXCEPT ![z] = i]
          /\ tempAt' = [tempAt EXCEPT ![TempOf[z]] = NoInode]
          /\ failed' = failed
      BY <1>3 DEF RenameTemp, PatcherGoes
    <2>2. z \in Dynamic /\ phase = "binaries" /\ FileKind[z] = "dynamic"
      BY <1>1 DEF RelocateInv, ShapesFit, ShapeFits, Dynamic
    <2>3. TempOf[z] \in TempPaths
      BY LayoutFits DEF RelocateInv
    <2>4. i \in NewFor(z) /\ i \in Inodes
      BY <1>3, <2>3 DEF RelocateInv, ShapesFit, TempsFit, NewFor, NewInode, Inodes, Dynamic
    <2>5. ~SharesTemp(z) => i = NewInode(z)
      BY <2>2, <2>4 DEF SharesTemp, NewFor, Dynamic
    <2> HIDE DEF i
    <2>6. /\ patcher' \in PatcherTypes /\ patcher'[z].at = "mode"
          /\ patcher'[z].fd = patcher[z].fd
          /\ patcher'[z].wasReadOnly = patcher[z].wasReadOnly
          /\ \A x \in FileNames \ {z} : patcher'[x] = patcher[x]
      BY <2>1, Goes DEF RelocateInv, PatcherSteps
    <2>7. /\ inodeOf' \in [FileNames -> Inodes] /\ inodeOf'[z] = i
          /\ \A x \in FileNames \ {z} : inodeOf'[x] = inodeOf[x]
      BY <2>1, <2>4, RelocateTypes DEF RelocateInv
    <2>8. /\ tempAt' \in [TempPaths -> Inodes \cup {NoInode}] /\ tempAt'[TempOf[z]] = NoInode
          /\ \A t \in TempPaths \ {TempOf[z]} : tempAt'[t] = tempAt[t]
      BY <2>1, <2>3, RelocateTypes DEF RelocateInv
    <2>9. RelocateTypeOK'
      BY <1>1, <2>1, <2>6, <2>7, <2>8 DEF RelocateInv, RelocateTypeOK, PatcherTypes
    <2>10. ShapeFits(z)' /\ TempsFit'
      BY <1>1, <2>2, <2>4, <2>6, <2>7, <2>8
         DEF RelocateInv, ShapesFit, ShapeFits, TempsFit, OldInode, InPass
    <2>11. SeenFits'
      BY <1>1, <2>6 DEF RelocateInv, ShapesFit, SeenFits, OldInode
    <2>12. Single(z)' => BinaryFits(z)'
      <3> SUFFICES ASSUME Single(z)' PROVE BinaryFits(z)'
        OBVIOUS
      <3>1. Single(z) /\ BinaryFits(z) /\ ~SharesTemp(z)
        BY <2>1, LayoutKeeps DEF RelocateInv, Single, TempIsOwn, FailedAt
      <3>2. content'[NewInode(z)] = WrittenBytes(z)
        BY <1>1, <2>2, <3>1 DEF BinaryFits
      <3>3. Replaced(z, WrittenBytes(z))'
        BY <2>5, <2>7, <3>1, <3>2, LayoutKeeps DEF Replaced
      <3> QED BY <2>2, <2>6, <3>3 DEF BinaryFits
    <2>13. OwnsMode(z)' => ModeFits(z)'
      <3> SUFFICES ASSUME OwnsMode(z)' PROVE ModeFits(z)'
        OBVIOUS
      <3>1. OwnsMode(z) /\ ModeFits(z) /\ NewModeFits(z) /\ ~SharesTemp(z)
        BY <2>1, <2>2 DEF RelocateInv, OwnsMode, FailedAt, HardLinked
      <3> QED BY <1>1, <2>2, <2>5, <2>6, <2>7, <3>1 DEF ModeFits, NewModeFits
    <2>14. z \in Dynamic /\ ~SharesTemp(z) => NewModeFits(z)'
      BY <2>6 DEF NewModeFits
    <2>15. TempIsOwn(z) => WholeFits(z)'
      <3> SUFFICES ASSUME TempIsOwn(z) PROVE WholeFits(z)'
        OBVIOUS
      <3>1. content[NewInode(z)].whole /\ content[NewInode(z)].of = layout.link[z]
        BY <1>1, <2>2 DEF RelocateInv, WholeFits
      <3>2. HoldsOwnBytes(z)'
        BY <1>1, <2>5, <2>7, <3>1 DEF HoldsOwnBytes, TempIsOwn
      <3> QED BY <2>6, <3>2 DEF WholeFits
    <2> QED BY <1>1, <2>1, <2>2, <2>6, <2>7, <2>8, <2>9, <2>10, <2>11, <2>12, <2>13, <2>14,
               <2>15, NameKeeps
  <1> QED BY <1>2, <1>3

LEMMA RestoreModeKeeps ==
    ASSUME RelocateInv, NEW z \in FileNames, RestoreMode(z), UNCHANGED <<platform, layout, phase>>
    PROVE  RelocateInv'
  <1>1. /\ patcher[z].at = "mode" /\ patcher' = [patcher EXCEPT ![z].at = "end"]
        /\ readOnly' = IF patcher[z].wasReadOnly THEN readOnly \cup {inodeOf[z]} ELSE readOnly
        /\ UNCHANGED <<inodeOf, tempAt, content, seenInodes, failed>>
    BY DEF RestoreMode, PatcherGoes
  <1>2. /\ patcher' \in PatcherTypes /\ patcher'[z].at = "end"
        /\ patcher'[z].fd = patcher[z].fd /\ patcher'[z].read = patcher[z].read
        /\ \A x \in FileNames \ {z} : patcher'[x] = patcher[x]
    BY <1>1, Goes DEF RelocateInv, PatcherSteps
  <1>3. RelocateTypeOK'
    <2>1. readOnly' \subseteq Inodes
      BY <1>1, RelocateTypes DEF RelocateInv, RelocateTypeOK
    <2> QED BY <1>1, <1>2, <2>1 DEF RelocateInv, RelocateTypeOK, PatcherTypes
  <1>4. ShapeFits(z)' /\ TempsFit'
    BY <1>1, <1>2 DEF RelocateInv, ShapesFit, ShapeFits, TempsFit, OldInode
  <1>5. SeenFits'
    <2>1. \A y \in FileNames : patcher[y].at # "wait" => patcher'[y].at # "wait"
      BY <1>2
    <2> QED BY <1>1, <2>1 DEF RelocateInv, ShapesFit, SeenFits, OldInode
  <1>6. Single(z)' => BinaryFits(z)'
    <2> SUFFICES ASSUME Single(z)' PROVE BinaryFits(z)'
      OBVIOUS
    <2>1. Single(z) /\ BinaryFits(z)
      BY <1>1, LayoutKeeps DEF RelocateInv, Single, FailedAt
    <2>2. phase = "binaries"
      BY <1>1, <2>1 DEF RelocateInv, Single, TempIsOwn, ShapesFit, ShapeFits, InPass, Dynamic
    <2>3. (Replaced(z, WrittenBytes(z)) \/ Passed(z))'
      BY <1>1, <2>1, <2>2, LayoutKeeps DEF BinaryFits, Replaced, Passed
    <2> QED BY <1>1, <1>2, <2>2, <2>3 DEF BinaryFits
  <1>7. FileKind[z] = "text" /\ ~FailedAt(z)' => TextFits(z)'
    <2> SUFFICES ASSUME FileKind[z] = "text", ~FailedAt(z)' PROVE TextFits(z)'
      OBVIOUS
    <2>1. TextFits(z) /\ phase = "texts"
      BY <1>1 DEF RelocateInv, FailedAt, ShapesFit, ShapeFits, InPass
    <2>2. \A y \in FileNames \ {z} : patcher'[y] = patcher[y]
      BY <1>2
    <2> QED BY <1>1, <1>2, <2>1, <2>2 DEF TextFits, OldInode, PatchedBytes
  <1>8. OwnsMode(z)' => ModeFits(z)'
    <2> SUFFICES ASSUME OwnsMode(z)' PROVE ModeFits(z)'
      OBVIOUS
    <2>1. ModeFits(z)
      BY <1>1 DEF RelocateInv, OwnsMode, FailedAt, HardLinked
    <2> QED BY <1>1, <1>2, <2>1 DEF ModeFits, KeepsMode
  <1>9. z \in Dynamic /\ ~SharesTemp(z) => NewModeFits(z)'
    BY <1>2 DEF NewModeFits
  <1>10. \A i \in Inodes : (i \in readOnly' <=> i \in readOnly) \/ i = inodeOf[z]
    BY <1>1
  <1>11. TempIsOwn(z) => WholeFits(z)'
    BY <1>1, <1>2 DEF RelocateInv, WholeFits, HoldsOwnBytes
  <1> QED BY <1>1, <1>2, <1>3, <1>4, <1>5, <1>6, <1>7, <1>8, <1>9, <1>10, <1>11, NameKeeps

\* What is known of a text in its pass.
LEMMA AtText ==
    ASSUME RelocateInv, NEW z \in FileNames, phase = "texts", patcher[z].at # "end"
    PROVE  /\ FileKind[z] = "text" /\ z \notin Dynamic /\ inodeOf[z] = OldInode(z)
           /\ InPass("texts", z) /\ OldInode(z) \in Inodes
           /\ ~FailedAt(z) => TextFits(z)
  <1>1. InPass("texts", z)
    BY DEF RelocateInv, ShapesFit, ShapeFits
  <1>2. FileKind[z] = "text" /\ z \notin Dynamic
    BY <1>1 DEF InPass, Dynamic
  <1> QED BY <1>1, <1>2, LayoutFits DEF RelocateInv, ShapesFit, ShapeFits

\* A step of a text, from its own part of the invariant.
LEMMA TextStep ==
    ASSUME RelocateInv, NEW z \in FileNames, UNCHANGED <<platform, layout, phase>>,
           phase = "texts", patcher[z].at # "end",
           patcher' \in PatcherTypes, patcher'[z].fd = patcher[z].fd,
           patcher'[z].at \in {"chmod", "write", "mode", "end"},
           \A x \in FileNames \ {z} : patcher'[x] = patcher[x],
           content' \in [Inodes -> Bytes],
           \A i \in Inodes \ {OldInode(z)} : content'[i] = content[i],
           failed' = failed, UNCHANGED <<inodeOf, tempAt, readOnly, seenInodes>>,
           ~FailedAt(z) => TextFits(z)',
           OwnsMode(z) => ModeFits(z)'
    PROVE  RelocateInv'
  <1>1. /\ FileKind[z] = "text" /\ z \notin Dynamic /\ inodeOf[z] = OldInode(z)
        /\ InPass("texts", z)
    BY AtText
  <1>2. RelocateTypeOK'
    BY DEF RelocateInv, RelocateTypeOK, PatcherTypes
  <1>3. ShapeFits(z)' /\ TempsFit' /\ SeenFits'
    BY <1>1 DEF RelocateInv, ShapesFit, ShapeFits, TempsFit, SeenFits, OldInode
  <1>4. FileKind[z] = "text" /\ ~FailedAt(z)' => TextFits(z)'
    BY DEF FailedAt
  <1>5. OwnsMode(z)' => ModeFits(z)'
    BY DEF OwnsMode, FailedAt, HardLinked
  <1>6. \A i \in Inodes : content'[i] # content[i] => i = inodeOf[z] /\ phase # "binaries"
    BY <1>1
  <1>7. ~Single(z)' /\ ~TempIsOwn(z) /\ FileKind[z] # "static"
    BY <1>1 DEF Single, TempIsOwn, Dynamic
  <1> QED BY <1>1, <1>2, <1>3, <1>4, <1>5, <1>6, <1>7, NameKeeps

LEMMA ReadTextKeeps ==
    ASSUME RelocateInv, NEW z \in FileNames, ReadText(z), UNCHANGED <<platform, layout, phase>>
    PROVE  RelocateInv'
  <1> DEFINE b  == content[inodeOf[z]]
             to == IF b.whole /\ b.done = {} THEN "chmod" ELSE "end"
  <1>1. /\ phase = "texts" /\ patcher[z].at = "wait"
        /\ patcher' = [patcher EXCEPT ![z].read = b, ![z].at = to]
        /\ UNCHANGED <<inodeOf, tempAt, content, readOnly, seenInodes, failed>>
    BY DEF ReadText
  <1>2. b \in Bytes /\ to \in {"chmod", "end"} /\ to \in PatcherSteps
    BY RelocateTypes DEF RelocateInv, PatcherSteps
  <1>3. b = content[OldInode(z)] /\ (to = "chmod" <=> b.whole /\ b.done = {})
    BY <1>1, AtText
  <1> HIDE DEF b, to
  <1>4. /\ patcher' \in PatcherTypes /\ patcher'[z].at = to
        /\ patcher'[z].fd = patcher[z].fd /\ patcher'[z].read = b
        /\ patcher'[z].wasReadOnly = patcher[z].wasReadOnly
        /\ \A x \in FileNames \ {z} : patcher'[x] = patcher[x]
    BY <1>1, <1>2, RelocateTypes DEF RelocateInv, PatcherTypes
  <1>5. ~FailedAt(z) => TextFits(z)'
    <2> SUFFICES ASSUME ~FailedAt(z) PROVE TextFits(z)'
      OBVIOUS
    <2>1. TextFits(z)
      BY <1>1, AtText
    <2> DEFINE same == {y \in FileNames : layout.link[y] = layout.link[z]}
    <2>2. /\ layout' = layout /\ phase' = "texts" /\ OldInode(z)' = OldInode(z)
          /\ content'[OldInode(z)] = b
          /\ \A y \in same : patcher[y].at \in {"chmod", "read", "write"} =>
                 patcher[y].read = OwnBytes(layout.link[z])
      BY <1>1, <1>3, <2>1 DEF TextFits, OldInode
    <2>3. \/ /\ b = OwnBytes(layout.link[z])
             /\ \A y \in same : patcher[y].at \in {"wait", "chmod", "read"}
          \/ ~b.whole /\ \E y \in same : patcher[y].at = "write"
          \/ b = PatchedBytes(z, {"paths"})
      BY <1>1, <1>3, <2>1 DEF TextFits
    <2>4. to = "chmod" => b = OwnBytes(layout.link[z])
      BY <1>3, <2>3 DEF PatchedBytes
    <2>5. b = OwnBytes(layout.link[z]) => to = "chmod"
      BY <1>3 DEF OwnBytes
    <2>6. \A y \in same : patcher'[y].at \in {"chmod", "read", "write"} =>
              patcher'[y].read = OwnBytes(layout.link[z])
      BY <1>2, <1>4, <2>2, <2>4
    <2>7. \/ /\ b = OwnBytes(layout.link[z])
             /\ \A y \in same : patcher'[y].at \in {"wait", "chmod", "read"}
          \/ ~b.whole /\ \E y \in same : patcher'[y].at = "write"
          \/ b = PatchedBytes(z, {"paths"})
      <3>1. z \in same
        OBVIOUS
      <3>2. \A y \in same : patcher[y].at = "write" => patcher'[y].at = "write"
        BY <1>1, <1>4
      <3> QED BY <1>4, <2>3, <2>5, <3>1, <3>2
    <2> QED BY <2>2, <2>6, <2>7 DEF TextFits, PatchedBytes
  <1>6. OwnsMode(z) => ModeFits(z)'
    BY <1>1, <1>2, <1>4 DEF RelocateInv, ModeFits, KeepsMode
  <1>7. content' \in [Inodes -> Bytes] /\ \A i \in Inodes \ {OldInode(z)} : content'[i] = content[i]
    BY <1>1, RelocateTypes DEF RelocateInv
  <1> QED BY <1>1, <1>2, <1>4, <1>5, <1>6, <1>7, TextStep

LEMMA TruncateTextKeeps ==
    ASSUME RelocateInv, NEW z \in FileNames, TruncateText(z), UNCHANGED <<platform, layout, phase>>
    PROVE  RelocateInv'
  <1>1. /\ phase = "texts" /\ patcher[z].at = "read"
        /\ UNCHANGED <<inodeOf, tempAt, readOnly, seenInodes>>
    BY DEF TruncateText
  <1>2. inodeOf[z] = OldInode(z) /\ OldInode(z) \in Inodes
    BY <1>1, AtText
  <1>3. CASE /\ patcher' = [patcher EXCEPT ![z].at = "end"] /\ NoteFailure(z)
             /\ UNCHANGED content
    BY <1>1, <1>3, NameFails DEF NoteFailure
  <1>4. CASE /\ content' = [content EXCEPT ![inodeOf[z]] = NoBytes(z)]
             /\ patcher' = [patcher EXCEPT ![z].at = "write"] /\ UNCHANGED failed
    <2>1. /\ patcher' \in PatcherTypes /\ patcher'[z].at = "write"
          /\ patcher'[z].fd = patcher[z].fd /\ patcher'[z].read = patcher[z].read
          /\ patcher'[z].wasReadOnly = patcher[z].wasReadOnly
          /\ \A x \in FileNames \ {z} : patcher'[x] = patcher[x]
      BY <1>4, Goes DEF RelocateInv, PatcherSteps
    <2>2. /\ content' \in [Inodes -> Bytes] /\ content'[OldInode(z)] = NoBytes(z)
          /\ \A i \in Inodes \ {OldInode(z)} : content'[i] = content[i]
      BY <1>2, <1>4, RelocateTypes, BytesTypes DEF RelocateInv
    <2>3. ~FailedAt(z) => TextFits(z)'
      <3> SUFFICES ASSUME ~FailedAt(z) PROVE TextFits(z)'
        OBVIOUS
      <3>1. TextFits(z)
        BY <1>1, AtText
      <3>2. content'[OldInode(z)].whole = FALSE
        BY <2>2 DEF NoBytes
      <3>3. \A y \in FileNames : /\ patcher'[y].read = patcher[y].read
                                 /\ patcher'[y].at \in {"chmod", "read", "write"} =>
                                        patcher[y].at \in {"chmod", "read", "write"}
        BY <1>1, <2>1
      <3> QED BY <1>1, <2>1, <3>1, <3>2, <3>3 DEF TextFits, OldInode
    <2>4. OwnsMode(z) => ModeFits(z)'
      BY <1>1, <2>1 DEF RelocateInv, ModeFits
    <2> QED BY <1>1, <1>4, <2>1, <2>2, <2>3, <2>4, TextStep
  <1> QED BY <1>3, <1>4 DEF TruncateText

LEMMA WriteTextKeeps ==
    ASSUME RelocateInv, NEW z \in FileNames, WriteText(z), UNCHANGED <<platform, layout, phase>>
    PROVE  RelocateInv'
  <1> DEFINE b == [patcher[z].read EXCEPT !.done = {"paths"}]
  <1>1. /\ phase = "texts" /\ patcher[z].at = "write"
        /\ UNCHANGED <<inodeOf, tempAt, readOnly, seenInodes>>
    BY DEF WriteText
  <1>2. inodeOf[z] = OldInode(z) /\ OldInode(z) \in Inodes
    BY <1>1, AtText
  <1>3. CASE /\ patcher' = [patcher EXCEPT ![z].at = "end"] /\ NoteFailure(z)
             /\ UNCHANGED content
    BY <1>1, <1>3, NameFails DEF NoteFailure
  <1>4. CASE /\ content' = [content EXCEPT ![inodeOf[z]] = b]
             /\ patcher' = [patcher EXCEPT ![z].at = "mode"] /\ UNCHANGED failed
    <2>1. /\ patcher' \in PatcherTypes /\ patcher'[z].at = "mode"
          /\ patcher'[z].fd = patcher[z].fd /\ patcher'[z].read = patcher[z].read
          /\ patcher'[z].wasReadOnly = patcher[z].wasReadOnly
          /\ \A x \in FileNames \ {z} : patcher'[x] = patcher[x]
      BY <1>4, Goes DEF RelocateInv, PatcherSteps
    <2>2. b \in Bytes
      <3>1. patcher[z].read \in Bytes
        BY RelocateTypes DEF RelocateInv
      <3> QED BY <3>1 DEF Bytes
    <2>3. ~FailedAt(z) => b = PatchedBytes(z, {"paths"})
      <3> SUFFICES ASSUME ~FailedAt(z) PROVE b = PatchedBytes(z, {"paths"})
        OBVIOUS
      <3>1. TextFits(z)
        BY <1>1, AtText
      <3>2. patcher[z].read = OwnBytes(layout.link[z])
        BY <1>1, <3>1 DEF TextFits
      <3>3. b = [OwnBytes(layout.link[z]) EXCEPT !.done = {"paths"}]
        BY <3>2
      <3> HIDE DEF b
      <3> QED BY <3>3 DEF OwnBytes, PatchedBytes
    <2> HIDE DEF b
    <2>4. /\ content' \in [Inodes -> Bytes] /\ content'[OldInode(z)] = b
          /\ \A i \in Inodes \ {OldInode(z)} : content'[i] = content[i]
      BY <1>2, <1>4, <2>2, RelocateTypes DEF RelocateInv
    <2>5. ~FailedAt(z) => TextFits(z)'
      <3> SUFFICES ASSUME ~FailedAt(z) PROVE TextFits(z)'
        OBVIOUS
      <3>1. TextFits(z)
        BY <1>1, AtText
      <3>2. \A y \in FileNames \ {z} : patcher'[y] = patcher[y]
        BY <2>1
      <3>3. content'[OldInode(z)] = PatchedBytes(z, {"paths"})
        BY <2>3, <2>4
      <3> QED BY <1>1, <2>1, <3>1, <3>2, <3>3 DEF TextFits, OldInode, PatchedBytes
    <2>6. OwnsMode(z) => ModeFits(z)'
      BY <1>1, <2>1 DEF RelocateInv, ModeFits
    <2> QED BY <1>1, <1>4, <2>1, <2>4, <2>5, <2>6, TextStep
  <1> QED BY <1>3, <1>4 DEF WriteText

LEMMA RunToolKeeps ==
    ASSUME RelocateInv, NEW z \in FileNames, RunTool(z)
    PROVE  RelocateInv'
  <1> DEFINE i == inodeOf[z]
             b == Loaded(content[i])
  <1>1. /\ phase = "loads" /\ patcher[z].at = "wait" /\ FileKind[z] = "dynamic" /\ z \in Dynamic
        /\ patcher' = [patcher EXCEPT ![z].at = "end"]
        /\ UNCHANGED <<platform, layout, inodeOf, tempAt, readOnly, seenInodes, phase>>
    BY DEF RunTool, Dynamic
  <1>2. CASE \E how \in {"counted", "dropped"} :
                 failed' = failed \cup {<<z, how>>} /\ content' = content
    BY <1>1, <1>2, NameFails
  <1>3. CASE content' = [content EXCEPT ![i] = b] /\ failed' = failed
    <2>1. /\ patcher' \in PatcherTypes /\ patcher'[z].at = "end"
          /\ patcher'[z].fd = patcher[z].fd /\ patcher'[z].read = patcher[z].read
          /\ \A x \in FileNames \ {z} : patcher'[x] = patcher[x]
      BY <1>1, Goes DEF RelocateInv, PatcherSteps
    <2>2. i \in Inodes /\ b \in Bytes
      <3>1. i \in Inodes /\ content[i] \in Bytes
        BY RelocateTypes DEF RelocateInv
      <3> QED BY <3>1 DEF Bytes, Loaded
    <2>3. Single(z) => /\ i = NewInode(z) \/ (i = OldInode(z) /\ TooShort(z))
                       /\ b = LoadedBytes(z)
      <3> SUFFICES ASSUME Single(z)
                   PROVE  /\ i = NewInode(z) \/ (i = OldInode(z) /\ TooShort(z))
                          /\ b = LoadedBytes(z)
        OBVIOUS
      <3>1. \/ i = NewInode(z) /\ content[i] = WrittenBytes(z)
            \/ i = OldInode(z) /\ TooShort(z)
        BY <1>1 DEF RelocateInv, BinaryFits, Replaced, Passed
      <3>2. CASE i = NewInode(z) /\ content[i] = WrittenBytes(z)
        BY <1>1, <3>2, LoadsAreLeft DEF RelocateInv, ShapesFit
      <3>3. CASE i = OldInode(z) /\ TooShort(z)
        <4>1. content[i] \in {OwnBytes(layout.link[z]), PatchedBytes(z, {"loads"})}
          BY <1>1, <3>3 DEF RelocateInv, OldBinaryFits
        <4>2. {"loads"} \cup {"loads"} = {"loads"}
          OBVIOUS
        <4>3. b = PatchedBytes(z, {"loads"})
          BY <4>1, <4>2, LoadedKeeps
        <4> QED BY <1>1, <3>3, <4>3, LoadsAreLeft
      <3> QED BY <3>1, <3>2, <3>3
    <2>11. TempIsOwn(z) => b.whole /\ b.of = layout.link[z]
      BY <1>1 DEF RelocateInv, WholeFits, HoldsOwnBytes, Loaded
    <2> HIDE DEF i, b
    <2>4. /\ content' \in [Inodes -> Bytes] /\ content'[i] = b
          /\ \A k \in Inodes \ {i} : content'[k] = content[k]
      BY <1>3, <2>2, RelocateTypes DEF RelocateInv
    <2>5. RelocateTypeOK'
      BY <1>1, <1>3, <2>1, <2>4 DEF RelocateInv, RelocateTypeOK, PatcherTypes
    <2>6. ShapeFits(z)' /\ TempsFit' /\ SeenFits'
      BY <1>1, <2>1 DEF RelocateInv, ShapesFit, ShapeFits, TempsFit, SeenFits, OldInode
    <2>7. Single(z)' => BinaryFits(z)'
      <3> SUFFICES ASSUME Single(z)' PROVE BinaryFits(z)'
        OBVIOUS
      <3>1. Single(z) /\ BinaryFits(z)
        BY <1>1, <1>3, LayoutKeeps DEF RelocateInv, Single, FailedAt
      <3>2. (Replaced(z, LoadedBytes(z)) \/ (Passed(z) /\ content[OldInode(z)] = LoadedBytes(z)))'
        BY <1>1, <2>3, <2>4, <3>1, LayoutKeeps DEF Replaced, Passed, i
      <3> QED BY <1>1, <2>1, <3>2 DEF BinaryFits
    <2>8. OwnsMode(z)' => ModeFits(z)'
      BY <1>1, <1>3, <2>1 DEF RelocateInv, OwnsMode, ModeFits, KeepsMode, FailedAt, HardLinked
    <2>9. \A k \in Inodes : content'[k] # content[k] =>
              k = inodeOf[z] /\ content'[k] = Loaded(content[k])
      BY <2>4 DEF i, b
    <2>10. NewModeFits(z)'
      BY <1>1 DEF NewModeFits
    <2>12. TempIsOwn(z) => WholeFits(z)'
      BY <1>1, <2>1, <2>4, <2>11 DEF WholeFits, HoldsOwnBytes, i
    <2> QED BY <1>1, <1>3, <2>1, <2>5, <2>6, <2>7, <2>8, <2>9, <2>10, <2>12, NameKeeps
  <1>4. content' = [content EXCEPT ![inodeOf[z]].done = @ \cup {"loads"}] =>
            content' = [content EXCEPT ![i] = b]
    BY DEF Loaded
  <1> HIDE DEF i, b
  <1> QED BY <1>2, <1>3, <1>4 DEF RunTool

LEMMA PassEndsKeeps ==
    ASSUME RelocateInv, PassEnds
    PROVE  RelocateInv'
  <1>1. /\ phase \in {"binaries", "texts", "loads"}
        /\ \A x \in FileNames : patcher[x].at = "end" \/ (phase = "loads" /\ FileKind[x] = "static")
        /\ patcher' = Patchers(phase')
        /\ UNCHANGED <<platform, layout, inodeOf, tempAt, content, readOnly, seenInodes, failed>>
    BY DEF PassEnds
  <1>2. phase' = CASE phase = "binaries" -> IF platform = "macos" /\ Counted # {} THEN "error"
                                            ELSE "texts"
                   [] phase = "texts"    -> IF platform = "macos" THEN "loads" ELSE "ok"
                   [] phase = "loads"    -> IF Counted # {} THEN "error" ELSE "ok"
    BY DEF PassEnds
  <1>3. \/ phase = "binaries" /\ phase' \in {"error", "texts"}
        \/ phase = "texts" /\ platform = "macos" /\ phase' = "loads"
        \/ phase = "texts" /\ platform # "macos" /\ phase' = "ok"
        \/ phase = "loads" /\ phase' \in {"error", "ok"}
    BY <1>1, <1>2
  <1>4. /\ patcher' = [x \in FileNames |->
               [at |-> IF InPass(phase', x) THEN "wait" ELSE "end", read |-> OwnBytes(x),
                fd |-> NewInode(x), wasReadOnly |-> FALSE]]
    BY <1>1 DEF Patchers, NewInode
  <1>5. /\ patcher' \in PatcherTypes
        /\ \A x \in FileNames : /\ patcher'[x].at = IF InPass(phase', x) THEN "wait" ELSE "end"
                                /\ patcher'[x].fd = NewInode(x)
    BY <1>4, BytesTypes, LayoutFits DEF RelocateInv, PatcherTypes, PatcherSteps
  <1>6. RelocateTypeOK'
    BY <1>1, <1>3, <1>5 DEF RelocateInv, RelocateTypeOK, PatcherTypes
  <1>7. \A x \in FileNames : /\ FileKind[x] \in {"dynamic", "static", "text"}
                             /\ OldInode(x)' = OldInode(x) /\ NewInode(x)' = NewInode(x)
                             /\ FailedAt(x)' <=> FailedAt(x)
                             /\ HardLinked(x)' <=> HardLinked(x)
                             /\ KeepsMode(x)' <=> KeepsMode(x)
    BY <1>1, LayoutFits DEF RelocateInv, OldInode, NewInode, FailedAt, HardLinked, KeepsMode
  <1>8. ShapesFit'
    <2>1. \A x \in FileNames : ShapeFits(x)'
      BY <1>1, <1>3, <1>5, <1>7 DEF RelocateInv, ShapesFit, ShapeFits, NewFor, Dynamic
    <2>2. TempsFit' /\ SeenFits'
      BY <1>1, <1>3 DEF RelocateInv, ShapesFit, TempsFit, SeenFits
    <2> QED BY <1>1, <1>3, <2>1, <2>2 DEF ShapesFit
  <1>9. OldBytesFit'
    BY <1>1, <1>3, <1>7 DEF RelocateInv, OldBytesFit
  <1>10. ASSUME NEW x \in FileNames, Single(x)' PROVE BinaryFits(x)'
    <2>1. Single(x) /\ BinaryFits(x) /\ x \in Dynamic /\ FileKind[x] = "dynamic"
      BY <1>1, <1>7, <1>10, LayoutKeeps DEF RelocateInv, Single, TempIsOwn, Dynamic
    <2>2. patcher[x].at = "end"
      BY <1>1, <2>1
    <2>3. phase = "loads" => platform = "macos"
      BY DEF RelocateInv, ShapesFit
    <2>4. platform # "macos" => LoadedBytes(x) = WrittenBytes(x) /\ ~TooShort(x)
      BY <2>1, LoadsAreLeft DEF RelocateInv, RelocateTypeOK, TooShort
    <2>5. patcher'[x].at # "end" \/ phase' # "loads"
      BY <1>5, <2>1 DEF InPass
    <2>6. /\ \A b : Replaced(x, b) => (inodeOf[x] = NewInode(x) /\ content[NewInode(x)] = b)'
          /\ Passed(x) => Passed(x)'
      BY <1>1, <1>7, LayoutKeeps DEF Replaced, Passed
    <2>7. CASE phase' = "texts" \/ phase' = "loads"
      <3>1. Replaced(x, WrittenBytes(x)) \/ Passed(x)
        BY <1>3, <2>1, <2>2, <2>7 DEF BinaryFits
      <3> QED BY <1>1, <2>5, <2>6, <2>7, <3>1, LayoutKeeps DEF BinaryFits, Replaced
    <2>8. CASE phase' = "ok"
      <3>1. \/ Replaced(x, LoadedBytes(x))
            \/ Passed(x) /\ content[OldInode(x)] = LoadedBytes(x)
        BY <1>3, <2>1, <2>2, <2>4, <2>8 DEF BinaryFits, Passed
      <3> QED BY <1>1, <2>6, <2>8, <3>1, LayoutKeeps DEF BinaryFits, Replaced
    <2>9. CASE phase' = "error"
      BY <2>9 DEF BinaryFits
    <2> QED BY <1>3, <2>7, <2>8, <2>9
  <1>11. ASSUME NEW x \in FileNames, FileKind[x] = "text", ~FailedAt(x)' PROVE TextFits(x)'
    <2>1. TextFits(x) /\ patcher[x].at = "end"
      BY <1>1, <1>7, <1>11 DEF RelocateInv
    <2>2. CASE phase = "binaries"
      <3>1. content[OldInode(x)] = OwnBytes(layout.link[x])
        BY <1>11, <2>2 DEF RelocateInv, OldBytesFit
      <3>2. \A y \in FileNames : layout.link[y] = layout.link[x] /\ phase' = "texts" =>
                patcher'[y].at = "wait"
        BY <1>5, <1>11, LayoutFits DEF RelocateInv, InPass
      <3> QED BY <1>1, <1>3, <1>7, <2>2, <3>1, <3>2 DEF TextFits
    <2>3. CASE phase \in {"texts", "loads"}
      <3>1. content[OldInode(x)] = PatchedBytes(x, {"paths"})
        <4>1. \A y \in FileNames : layout.link[y] = layout.link[x] => patcher[y].at = "end"
          BY <1>1, <1>11, LayoutFits DEF RelocateInv
        <4> QED BY <2>1, <2>3, <4>1 DEF TextFits
      <3> QED BY <1>1, <1>3, <1>7, <2>3, <3>1 DEF TextFits, PatchedBytes
    <2> QED BY <1>1, <2>2, <2>3
  <1>12. ASSUME NEW x \in FileNames, OwnsMode(x)' PROVE ModeFits(x)'
    <2>1. ModeFits(x)
      BY <1>1, <1>7, <1>12 DEF RelocateInv, OwnsMode
    <2>2. patcher[x].at = "end" \/ patcher[x].at = "wait"
      BY <1>1 DEF RelocateInv, ShapesFit, ShapeFits
    <2> QED BY <1>5, <1>7, <2>1, <2>2 DEF ModeFits
  <1>13. \A x \in FileNames : NewModeFits(x)'
    BY <1>3 DEF NewModeFits
  <1>14. \A x \in FileNames : TempIsOwn(x)' => WholeFits(x)'
    <2>1. phase' # "binaries"
      BY <1>3
    <2>2. \A x \in FileNames : TempIsOwn(x)' => HoldsOwnBytes(x)
      BY <1>1, LayoutKeeps DEF RelocateInv, WholeFits
    <2> QED BY <1>1, <2>1, <2>2 DEF WholeFits, HoldsOwnBytes
  <1>15. \A x \in FileNames : x \in Dynamic => OldBinaryFits(x)'
    BY <1>1, <1>7 DEF RelocateInv, OldBinaryFits, PatchedBytes
  <1> QED BY <1>6, <1>8, <1>9, <1>10, <1>11, <1>12, <1>13, <1>14, <1>15 DEF RelocateInv

LEMMA RelocateStepsKeep ==
    ASSUME RelocateInv, [RelocateNext]_relocateVars
    PROVE  RelocateInv'
  <1>1. CASE UNCHANGED relocateVars
    <2>1. /\ platform' = platform /\ layout' = layout /\ inodeOf' = inodeOf
          /\ tempAt' = tempAt /\ content' = content /\ readOnly' = readOnly
          /\ seenInodes' = seenInodes /\ patcher' = patcher /\ phase' = phase
          /\ failed' = failed
      BY <1>1 DEF relocateVars
    <2>2. RelocateTypeOK'
      BY <2>1 DEF RelocateInv, RelocateTypeOK
    <2>3. ShapesFit' /\ OldBytesFit'
      BY <2>1 DEF RelocateInv, ShapesFit, ShapeFits, TempsFit, SeenFits, OldBytesFit, OldInode
    <2>4. \A x \in FileNames : /\ Single(x)' <=> Single(x) /\ (TempIsOwn(x)' <=> TempIsOwn(x))
                               /\ FailedAt(x)' <=> FailedAt(x)
                               /\ OwnsMode(x)' <=> OwnsMode(x)
      BY <2>1, LayoutKeeps DEF Single, OwnsMode, FailedAt, HardLinked
    <2>5. \A x \in FileNames : /\ BinaryFits(x) => BinaryFits(x)'
                               /\ WholeFits(x) => WholeFits(x)'
                               /\ OldBinaryFits(x) => OldBinaryFits(x)'
      BY <2>1, LayoutKeeps
         DEF BinaryFits, WholeFits, OldBinaryFits, Replaced, Passed, HoldsOwnBytes, PatchedBytes
    <2>6. \A x \in FileNames : TextFits(x)' <=> TextFits(x)
      BY <2>1 DEF TextFits, OldInode, PatchedBytes
    <2>7. \A x \in FileNames : (ModeFits(x)' <=> ModeFits(x)) /\ (NewModeFits(x)' <=> NewModeFits(x))
      BY <2>1 DEF ModeFits, NewModeFits, KeepsMode
    <2> QED BY <2>2, <2>3, <2>4, <2>5, <2>6, <2>7 DEF RelocateInv
  <1>2. CASE PassEnds
    BY <1>2, PassEndsKeeps
  <1>3. CASE \E x \in FileNames : PatchBinary(x)
    BY <1>3, TakeOnKeeps, ReadBinaryKeeps, CreateTempKeeps, WriteTempKeeps, RenameTempKeeps
       DEF PatchBinary
  <1>4. CASE \E x \in FileNames : EitherPass(x)
    BY <1>4, MakeWritableKeeps, RestoreModeKeeps DEF EitherPass
  <1>5. CASE \E x \in FileNames : PatchText(x)
    BY <1>5, ReadTextKeeps, TruncateTextKeeps, WriteTextKeeps DEF PatchText
  <1>6. CASE \E x \in FileNames : RunTool(x)
    BY <1>6, RunToolKeeps
  <1> QED BY <1>1, <1>2, <1>3, <1>4, <1>5, <1>6 DEF RelocateNext

\* patch_placeholders: the types of relocation, what each name's patcher has read and
\* written, and which bytes an inode holds, under every interleaving of the names.
THEOREM RelocateInductive == RelocateSpec => []RelocateInv
  <1>1. RelocateInit => RelocateInv
    BY RelocateStarts
  <1>2. RelocateInv /\ [RelocateNext]_relocateVars => RelocateInv'
    BY RelocateStepsKeep
  <1> QED BY <1>1, <1>2, PTL DEF RelocateSpec

\* At the end, every file that is not excepted was patched by one of its names.
LEMMA CompleteFollows == RelocateInv => RelocationIsComplete
  <1> SUFFICES ASSUME RelocateInv PROVE RelocationIsComplete
    OBVIOUS
  <1>1. ASSUME NEW x \in FileNames, FileKind[x] # "text", ~SharesTemp(x) PROVE HoldsOwnBytes(x)
    <2>1. CASE FileKind[x] = "dynamic"
      BY <1>1, <2>1 DEF RelocateInv, WholeFits, TempIsOwn, Dynamic
    <2>2. CASE FileKind[x] = "static"
      <3>1. content[inodeOf[x]] = OwnBytes(layout.link[x])
        BY <2>2 DEF RelocateInv, OldBytesFit, ShapesFit, ShapeFits, Dynamic
      <3> QED BY <3>1 DEF HoldsOwnBytes, OwnBytes
    <2> QED BY <1>1, <2>1, <2>2, LayoutFits DEF RelocateInv
  <1>2. ASSUME phase = "ok", NEW x \in FileNames, ~FailedAt(x), ~SharesTemp(x),
               ~(platform = "linux" /\ HardLinked(x) /\ FileKind[x] = "dynamic")
        PROVE  /\ HoldsOwnBytes(x) /\ content[inodeOf[x]].done = Wanted(x)
               /\ KeepsMode(x) \/ HardLinked(x) \/ (platform = "linux" /\ FileKind[x] = "static")
    <2>1. FileKind[x] \in {"dynamic", "static", "text"} /\ patcher[x].at = "end"
      BY <1>2, LayoutFits DEF RelocateInv, ShapesFit, ShapeFits, InPass
    <2>2. HoldsOwnBytes(x) /\ content[inodeOf[x]].done = Wanted(x)
      <3>1. CASE FileKind[x] = "dynamic"
        <4>1. content[inodeOf[x]] = PatchedBytes(x, Wanted(x))
          BY <1>2, <3>1
             DEF RelocateInv, Single, TempIsOwn, Dynamic, BinaryFits, Replaced, Passed, LoadedBytes
        <4> QED BY <4>1 DEF HoldsOwnBytes, PatchedBytes
      <3>2. CASE FileKind[x] = "text"
        <4>1. content[inodeOf[x]] = PatchedBytes(x, {"paths"})
          BY <1>2, <3>2 DEF RelocateInv, TextFits, ShapesFit, ShapeFits, Dynamic
        <4> QED BY <3>2, <4>1 DEF HoldsOwnBytes, PatchedBytes, Wanted
      <3>3. CASE FileKind[x] = "static"
        <4>1. content[inodeOf[x]] = OwnBytes(layout.link[x])
          BY <3>3 DEF RelocateInv, OldBytesFit, ShapesFit, ShapeFits, Dynamic
        <4> QED BY <3>3, <4>1 DEF HoldsOwnBytes, OwnBytes, Wanted
      <3> QED BY <2>1, <3>1, <3>2, <3>3
    <2>3. OwnsMode(x) => KeepsMode(x)
      BY <2>1 DEF RelocateInv, ModeFits
    <2> QED BY <1>2, <2>2, <2>3 DEF OwnsMode
  <1> QED BY <1>1, <1>2 DEF RelocationIsComplete

\* patch_placeholders: when relocation ends well, every file has patched what can be: a text
\* its placeholders, a binary its load commands and, on macOS, the paths of its data that
\* the new prefix fits into; it kept its mode.  Excepted are files a failure was at, names
\* with a temporary in common and, on Linux, binaries with a second name.  A binary
\* without such a temporary is whole at every moment, also of a relocation that fails.
THEOREM RelocationCorrect == RelocateSpec => []RelocationIsComplete
  BY RelocateInductive, CompleteFollows, PTL

-----------------------------------------------------------------------------
(* The sum.                                                                *)

PackagesInv ==
    /\ CaskInv /\ LinksInv /\ SourceInv
    /\ RelocateInv /\ CaskDepsInv /\ DbOpenInv

LEMMA PackagesStart == PackagesInit => PackagesInv
  <1> SUFFICES ASSUME PackagesInit PROVE PackagesInv
    OBVIOUS
  <1>1. RelocateInit
    BY DEF PackagesInit, RelocateRests
  <1>2. CaskInv /\ LinksInv /\ SourceInv
    BY CaskStarts, LinkerStarts, SourceStarts DEF PackagesInit
  <1>3. RelocateInv /\ CaskDepsInv /\ DbOpenInv
    BY <1>1, RelocateStarts, CaskDepsStarts, DbOpenStarts DEF PackagesInit
  <1> QED BY <1>2, <1>3 DEF PackagesInv

\* A step of one component is a stutter of every other one.
LEMMA PackagesStepsKeep == PackagesInv /\ [PackagesNext]_allVars => PackagesInv'
  <1> SUFFICES ASSUME PackagesInv, [PackagesNext]_allVars PROVE PackagesInv'
    OBVIOUS
  <1>1. /\ [CaskNext]_caskVars /\ [LinkerNext]_linkVars /\ [SourceNext]_sourceVars
        /\ [RelocateNext]_relocateVars /\ [CaskDepsNext]_caskDepsVars
        /\ [DbOpenNext]_dbOpenVars
    BY DEF PackagesNext, allVars
  <1>2. CaskInv' /\ LinksInv' /\ SourceInv'
    BY <1>1, CaskStepsKeep, LinkerStepsKeep, SourceStepsKeep DEF PackagesInv
  <1>3. RelocateInv' /\ CaskDepsInv' /\ DbOpenInv'
    BY <1>1, RelocateStepsKeep, CaskDepsStep, DbOpenStepsKeep DEF PackagesInv
  <1> QED BY <1>2, <1>3 DEF PackagesInv

\* Each component's invariant holds where the others take steps too.
THEOREM PackagesInductive == PackagesSpec => []PackagesInv
  BY PackagesStart, PackagesStepsKeep, PTL DEF PackagesSpec

\* The types of all that lays packages out: casks, links, source builds, relocation,
\* casks that depend on casks, and the opening of the database, side by side.
THEOREM PackagesTypeCorrect == PackagesSpec => []PackagesTypeOK
  <1>1. PackagesInv => PackagesTypeOK
    BY DEF PackagesInv, PackagesTypeOK, CaskInv, LinksInv, SourceInv, RelocateInv,
           CaskDepsInv, DbOpenInv
  <1> QED BY <1>1, PackagesInductive, PTL
=============================================================================
