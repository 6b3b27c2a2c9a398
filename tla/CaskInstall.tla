---------------------------- MODULE CaskInstall ----------------------------
(***************************************************************************)
(* Casks: an archive is staged into the cask's keg, its binaries are       *)
(* linked, its apps, suites, fonts and generic artifacts are moved out to  *)
(* the user's directories leaving a symlink behind in the keg, and its     *)
(* appimages are linked from there.  A guard undoes a failed install; the  *)
(* symlinks in the keg are all that uninstall knows of what was placed.    *)
(*                                                                         *)
(* No lock is taken; one process runs at a time here, and may be killed.   *)
(***************************************************************************)
EXTENDS Naturals, FiniteSets

CONSTANTS
    Casks,
    Artifacts,   \* of all casks
    CaskOf,      \* [Artifacts -> Casks]
    KindOf,      \* [Artifacts -> kinds]
    TargetOf,    \* where an artifact belongs, for those that are placed
    OtherTarget, \* the same for appimages with another --appimagedir
    Free, User,  \* what a path holds besides artifacts
    CaskFaults

\* The order of stage_cask_artifacts and of the link calls.
StageRank == [app |-> 1, font |-> 2, pkg |-> 3, suite |-> 4, artifact |-> 5,
              appimage |-> 6, binary |-> 7, installer |-> 8]
LinkRank  == [binary |-> 1, app |-> 2, suite |-> 3, font |-> 4, artifact |-> 5,
              appimage |-> 6, pkg |-> 7, installer |-> 8]

MovedKinds == {"app", "suite", "font", "artifact"}

ASSUME CaskAssumption ==
    /\ Casks # {}
    /\ CaskOf \in [Artifacts -> Casks]
    /\ KindOf \in [Artifacts -> DOMAIN StageRank]
    /\ DOMAIN TargetOf = {a \in Artifacts : KindOf[a] \notin {"pkg", "installer"}}
    /\ \A a, b \in DOMAIN TargetOf : a # b /\ CaskOf[a] = CaskOf[b] => TargetOf[a] # TargetOf[b]
    /\ DOMAIN OtherTarget = {a \in Artifacts : KindOf[a] = "appimage"}
    /\ \A a \in DOMAIN OtherTarget, b \in DOMAIN TargetOf : OtherTarget[a] # TargetOf[b]
    /\ \A a, b \in DOMAIN OtherTarget :  \* another directory, the same name
          OtherTarget[a] = OtherTarget[b] <=> TargetOf[a] = TargetOf[b]
    /\ Free # User /\ {Free, User} \cap Artifacts = {}
    /\ CaskFaults \subseteq {"stage", "move", "run", "db", "remove", "crash"}

Paths == {TargetOf[a] : a \in DOMAIN TargetOf} \cup {OtherTarget[a] : a \in DOMAIN OtherTarget}

VARIABLES
    path,     \* what each path of the user's directories holds
    staged,   \* an artifact in its keg: content, or a link to where it went
    caskKegs, \* casks with a keg
    caskRows, \* casks with a row in the database
    job,      \* the command that runs
    torn      \* history: artifacts an interrupted step left in doubt

caskVars == <<path, staged, caskKegs, caskRows, job, torn>>

Of(c) == {a \in Artifacts : CaskOf[a] = c}
Moved(S)  == {a \in S : KindOf[a] \in MovedKinds}
Ranked(S, a, rank) == a \in S /\ \A b \in S : rank[KindOf[a]] <= rank[KindOf[b]]

Phases == {"idle", "stage", "link", "place", "record",
           "unlink", "moved", "images", "unrecord", "keg"}

CaskTypeOK ==
    /\ path \in [Paths -> {Free, User} \cup Artifacts]
    /\ staged \in [Artifacts -> {"no", "content", "link"}]
    /\ caskKegs \subseteq Casks /\ caskRows \subseteq Casks
    /\ torn \subseteq Artifacts
    /\ job \in [at : Phases, op : {"install", "uninstall"}, cask : Casks,
                force : BOOLEAN, link : BOOLEAN, other : BOOLEAN,
                wanted : SUBSET Artifacts, todo : SUBSET Artifacts]

NoJob == [at |-> "idle", op |-> "install", cask |-> CHOOSE c \in Casks : TRUE,
          force |-> FALSE, link |-> FALSE, other |-> FALSE, wanted |-> {}, todo |-> {}]

CaskInit ==
    /\ path = [p \in Paths |-> Free]
    /\ staged = [a \in Artifacts |-> "no"]
    /\ caskKegs = {} /\ caskRows = {}
    /\ job = NoJob
    /\ torn = {}

-----------------------------------------------------------------------------
(* Install.                                                                *)

\* The guard's rollback starts; without --link nothing was placed.
Fail == job' = [job EXCEPT !.at = IF job.link THEN "unlink" ELSE "keg", !.todo = {}]

Blocked(p) == path[p] # Free /\ ~job.force

\* install_casks: an installed cask is skipped.  --no-binaries drops binaries.
InstallCask(c, force, link, binaries, other) ==
    LET wanted == {a \in Of(c) : KindOf[a] = "binary" => binaries} IN
    /\ job.at = "idle"
    /\ ~(c \in caskRows /\ c \in caskKegs)
    /\ (force => link) /\ (binaries \/ wanted # Of(c))
    /\ other => \E a \in wanted : KindOf[a] = "appimage"
    /\ job' = [at |-> "stage", op |-> "install", cask |-> c, force |-> force,
               link |-> link, other |-> other, wanted |-> wanted,
               todo |-> {a \in wanted : KindOf[a] # "installer"}]
    /\ UNCHANGED <<path, staged, caskKegs, caskRows, torn>>

\* An artifact is copied from the archive over what the keg holds; binaries come last.
StageOne(a) ==
    /\ job.at = "stage"
    /\ Ranked(job.todo, a, StageRank)
    /\ staged' = [staged EXCEPT ![a] = "content"]
    /\ caskKegs' = caskKegs \cup {job.cask}
    /\ job' = [job EXCEPT !.todo = @ \ {a}]
    /\ UNCHANGED <<path, caskRows, torn>>

StageArtifact(a) == KindOf[a] # "binary" /\ StageOne(a)
StageBinary(a) == KindOf[a] = "binary" /\ StageOne(a)

\* The archive does not unpack, or lacks the source of an artifact.
StageFails ==
    /\ job.at = "stage"
    /\ "stage" \in CaskFaults
    /\ Fail
    /\ UNCHANGED <<path, staged, caskKegs, caskRows, torn>>

\* Where nothing had to be staged there is no keg.
StageEnds ==
    /\ job.at = "stage"
    /\ job.todo = {}
    /\ job' = [job EXCEPT !.at = IF job.link THEN "link" ELSE "record", !.todo = job.wanted]
    /\ UNCHANGED <<path, staged, caskKegs, caskRows, torn>>

\* link_keg_with_force: all conflicts are found before the first link is made.
LinkBinaries ==
    LET bs == {a \in job.todo : KindOf[a] = "binary"} IN
    /\ job.at = "link"
    /\ IF \E a \in bs : Blocked(TargetOf[a]) /\ path[TargetOf[a]] # a
       THEN Fail /\ UNCHANGED path
       ELSE /\ path' = [p \in Paths |-> IF \E a \in bs : TargetOf[a] = p
                                        THEN CHOOSE a \in bs : TargetOf[a] = p ELSE path[p]]
            /\ job' = [job EXCEPT !.at = "place", !.todo = @ \ bs]
    /\ UNCHANGED <<staged, caskKegs, caskRows, torn>>

\* An app, suite, font or generic artifact is moved to its target.
MoveArtifactOver(a) ==
    LET p == TargetOf[a] IN
    /\ job.at = "place"
    /\ Ranked(job.todo, a, LinkRank) /\ KindOf[a] \in MovedKinds
    /\ path' = [path EXCEPT ![p] = a]
    /\ staged' = [staged EXCEPT ![a] = "link"]
    /\ job' = [job EXCEPT !.todo = @ \ {a}]
    /\ UNCHANGED <<caskKegs, caskRows, torn>>

MoveArtifact(a) ==
    LET p == TargetOf[a] IN
    /\ job.at = "place"
    /\ Ranked(job.todo, a, LinkRank) /\ KindOf[a] \in MovedKinds
    /\ IF Blocked(p) THEN Fail /\ UNCHANGED <<path, staged>>
       ELSE /\ path' = [path EXCEPT ![p] = a]
            /\ staged' = [staged EXCEPT ![a] = "link"]
            /\ job' = [job EXCEPT !.todo = @ \ {a}]
    /\ UNCHANGED <<caskKegs, caskRows, torn>>

\* The move stops half way: renamed but not linked back, or copied but not
\* removed.  The keg does not point to the target then.
MoveBreaks(a) ==
    LET p == TargetOf[a] IN
    /\ "move" \in CaskFaults
    /\ job.at = "place"
    /\ Ranked(job.todo, a, LinkRank) /\ KindOf[a] \in MovedKinds
    /\ ~Blocked(p)
    /\ path' = [path EXCEPT ![p] = a]
    /\ \E left \in {"no", "content"} : staged' = [staged EXCEPT ![a] = left]
    /\ torn' = torn \cup {a}
    /\ Fail
    /\ UNCHANGED <<caskKegs, caskRows>>

ImagePath(a, other) == IF other THEN OtherTarget[a] ELSE TargetOf[a]

LinkAppImage(a) ==
    LET p == ImagePath(a, job.other) IN
    /\ job.at = "place"
    /\ Ranked(job.todo, a, LinkRank) /\ KindOf[a] = "appimage"
    /\ IF Blocked(p) THEN Fail /\ UNCHANGED path
       ELSE /\ path' = [path EXCEPT ![p] = a]
            /\ job' = [job EXCEPT !.todo = @ \ {a}]
    /\ UNCHANGED <<staged, caskKegs, caskRows, torn>>

\* A pkg installer or an installer script.
RunInstaller(a) ==
    /\ job.at = "place"
    /\ Ranked(job.todo, a, LinkRank) /\ KindOf[a] \in {"pkg", "installer"}
    /\ \/ job' = [job EXCEPT !.todo = @ \ {a}]
       \/ "run" \in CaskFaults /\ Fail
    /\ UNCHANGED <<path, staged, caskKegs, caskRows, torn>>

\* A plausible bug: a failure while artifacts are placed does not stop the record.
RecordAnyway ==
    /\ job.at \in {"place", "record"}
    /\ caskRows' = caskRows \cup {job.cask}
    /\ job' = NoJob
    /\ UNCHANGED <<path, staged, caskKegs, torn>>

\* The rows are committed and the guard disarmed.
RecordCask ==
    /\ job.at = "record" \/ (job.at = "place" /\ job.todo = {})
    /\ \/ caskRows' = caskRows \cup {job.cask} /\ job' = NoJob
       \/ "db" \in CaskFaults /\ Fail /\ UNCHANGED caskRows
    /\ UNCHANGED <<path, staged, caskKegs, torn>>

-----------------------------------------------------------------------------
(* Uninstall, and the guard's rollback: the same steps; uninstall gives up *)
(* on an error, the rollback goes on.                                      *)

UninstallCask(c) ==
    /\ job.at = "idle"
    /\ c \in caskRows
    /\ job' = [NoJob EXCEPT !.at = "unlink", !.op = "uninstall", !.cask = c, !.link = TRUE]
    /\ UNCHANGED <<path, staged, caskKegs, caskRows, torn>>

\* A plausible bug: what was moved out of the keg is left there.
UnlinkOnlyBinaries ==
    LET bs == {a \in Of(job.cask) : KindOf[a] = "binary" /\ staged[a] # "no"} IN
    /\ job.at = "unlink"
    /\ path' = [p \in Paths |-> IF path[p] \in bs THEN Free ELSE path[p]]
    /\ job' = [job EXCEPT !.at = "moved"]
    /\ UNCHANGED <<staged, caskKegs, caskRows, torn>>

UnlinkBinaries ==
    LET bs == {a \in Of(job.cask) : KindOf[a] = "binary" /\ staged[a] # "no"} IN
    /\ job.at = "unlink"
    /\ path' = [p \in Paths |-> IF path[p] \in bs THEN Free ELSE path[p]]
    /\ job' = [job EXCEPT !.at = "moved",
                          !.todo = {a \in Moved(Of(job.cask)) : staged[a] = "link"}]
    /\ UNCHANGED <<staged, caskKegs, caskRows, torn>>

\* uninstall_moved_cask_artifacts: what a staged link points to is removed.
RemoveMoved(a) ==
    /\ job.at = "moved"
    /\ a \in job.todo
    /\ path' = [path EXCEPT ![TargetOf[a]] = Free]
    /\ job' = [job EXCEPT !.todo = @ \ {a}]
    /\ UNCHANGED <<staged, caskKegs, caskRows, torn>>

\* One removal fails: uninstall stops, the rollback leaves the other artifacts
\* of that directory and goes on.  Apps and suites share one.
RemoveFails(a) ==
    LET dir == IF KindOf[a] \in {"app", "suite"} THEN {"app", "suite"} ELSE {KindOf[a]} IN
    /\ "remove" \in CaskFaults
    /\ job.at = "moved"
    /\ a \in job.todo
    /\ torn' = torn \cup Of(job.cask)
    /\ job' = IF job.op = "uninstall" THEN NoJob
              ELSE [job EXCEPT !.todo = {b \in @ : KindOf[b] \notin dir}]
    /\ UNCHANGED <<path, staged, caskKegs, caskRows>>

MovedEnds ==
    /\ job.at = "moved"
    /\ job.todo = {}
    /\ job' = [job EXCEPT !.at = "images"]
    /\ UNCHANGED <<path, staged, caskKegs, caskRows, torn>>

\* Links into the keg's appimages, in the directory of this command.
UnlinkImages ==
    LET is == {a \in Of(job.cask) : KindOf[a] = "appimage" /\ staged[a] # "no"} IN
    /\ job.at = "images"
    /\ path' = [p \in Paths |-> IF \E a \in is : path[p] = a /\ p = ImagePath(a, job.other)
                                THEN Free ELSE path[p]]
    /\ job' = [job EXCEPT !.at = IF job.op = "uninstall" THEN "unrecord" ELSE "keg"]
    /\ UNCHANGED <<staged, caskKegs, caskRows, torn>>

ForgetCask ==
    /\ job.at = "unrecord"
    /\ \/ caskRows' = caskRows \ {job.cask} /\ job' = [job EXCEPT !.at = "keg"] /\ UNCHANGED torn
       \/ "db" \in CaskFaults /\ job' = NoJob /\ torn' = torn \cup Of(job.cask)
                              /\ UNCHANGED caskRows
    /\ UNCHANGED <<path, staged, caskKegs>>

RemoveCaskKeg ==
    /\ job.at = "keg"
    /\ \/ /\ staged' = [a \in Artifacts |-> IF CaskOf[a] = job.cask THEN "no" ELSE staged[a]]
          /\ caskKegs' = caskKegs \ {job.cask}
          /\ UNCHANGED torn
       \/ /\ "remove" \in CaskFaults
          /\ torn' = torn \cup Of(job.cask)
          /\ UNCHANGED <<staged, caskKegs>>
    /\ job' = NoJob
    /\ UNCHANGED <<path, caskRows>>

\* The process is killed: the guard does not run.
KillCaskJob ==
    /\ "crash" \in CaskFaults
    /\ job.at # "idle"
    /\ torn' = torn \cup Of(job.cask)
    /\ job' = NoJob
    /\ UNCHANGED <<path, staged, caskKegs, caskRows>>

\* The user, or another program, puts a file where there is none.
UserPuts(p) ==
    /\ path[p] = Free
    /\ path' = [path EXCEPT ![p] = User]
    /\ UNCHANGED <<staged, caskKegs, caskRows, job, torn>>

CaskStep ==
    \/ \E a \in Artifacts : \/ StageArtifact(a) \/ StageBinary(a) \/ MoveArtifact(a) \/ MoveBreaks(a)
                            \/ LinkAppImage(a) \/ RunInstaller(a)
                            \/ RemoveMoved(a) \/ RemoveFails(a)
    \/ StageFails \/ StageEnds \/ LinkBinaries \/ RecordCask
    \/ UnlinkBinaries \/ MovedEnds \/ UnlinkImages \/ ForgetCask \/ RemoveCaskKeg

CaskNext ==
    \/ \E c \in Casks, force, link, binaries, other \in BOOLEAN :
          InstallCask(c, force, link, binaries, other)
    \/ \E c \in Casks : UninstallCask(c)
    \/ CaskStep
    \/ KillCaskJob
    \/ \E p \in Paths : UserPuts(p)

CaskSpec == CaskInit /\ [][CaskNext]_caskVars

-----------------------------------------------------------------------------
(* Properties.                                                             *)

\* Without --force, no file of the user is removed or replaced, by an install,
\* its rollback or an uninstall, except where the keg says the cask's own
\* artifact was put (the user may have replaced that one).
UserFilesSurvive ==
    [][\A p \in Paths :
          path[p] = User /\ path'[p] # User =>
             job.force \/ \E a \in DOMAIN TargetOf : TargetOf[a] = p /\ staged[a] = "link"]_caskVars

Backed(a) == staged[a] = IF KindOf[a] \in MovedKinds THEN "link" ELSE "content"

\* Whatever fails, the rollback and uninstall leave nothing of the cask outside
\* its keg that the keg does not vouch for, except after a crash or a failed
\* move or removal, and except an appimage linked into another --appimagedir,
\* which a later uninstall does not look into.
NoOrphans ==
    \A p \in Paths : path[p] \in Artifacts \ torn =>
       Backed(path[p]) \/ p # TargetOf[path[p]]

Alone(a) == \A b \in DOMAIN TargetOf \ {a} : TargetOf[b] # TargetOf[a]

InOtherDirectory(a) == \E p \in Paths \ {TargetOf[a]} : path[p] = a

\* With --no-binaries nothing may be left to stage.
MayStageNothing(c) == \A a \in Of(c) : KindOf[a] \in {"binary", "installer"}

\* A recorded cask has its keg, unless nothing had to be staged, and all of its
\* artifacts where they belong or, with --no-link, none; unless another cask
\* claims the same target.
RecordedCasksAreWhole ==
    \A c \in caskRows :
       LET mine == {a \in Of(c) \ torn : KindOf[a] \in MovedKinds \cup {"appimage"} /\
                                        Alone(a) /\ ~InOtherDirectory(a)} IN
       job.cask # c \/ job.at = "idle" =>
          /\ c \in caskKegs \/ Of(c) \cap torn # {} \/ MayStageNothing(c)
          /\ \A a, b \in mine : (path[TargetOf[a]] = a) <=> (path[TargetOf[b]] = b)

\* FailedInstallGuard and uninstall: a cask is there with all it has, or gone with all
\* of it, whichever step failed.
CasksAreWholeOrGone == NoOrphans /\ RecordedCasksAreWhole
=============================================================================
