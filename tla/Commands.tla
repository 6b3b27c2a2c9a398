------------------------------ MODULE Commands ------------------------------
(***************************************************************************)
(* The commands that go through several packages: install, upgrade,        *)
(* reinstall, bundle, uninstall, run and the migration from Homebrew.      *)
(* Each step for one package is what the installer does for it as a whole; *)
(* here it is how the loops go on, stop and report when some steps fail,   *)
(* and what the commands take for installed.                               *)
(*                                                                         *)
(* A package has two versions, what it has now and what the API offers.    *)
(***************************************************************************)
EXTENDS Naturals, FiniteSets

CONSTANTS
    Packages,
    PackageKind,   \* [Packages -> {"core", "tap", "cask"}]
    UnsupportedCasks,
    NoPackage,
    CommandFaults  \* "plan", "copy", "item", "link", "db", "cask", "unlink", "remove", "brew"

Formulae == {p \in Packages : PackageKind[p] # "cask"}
CaskPackages == Packages \ Formulae

ASSUME CommandsAssumption ==
    /\ PackageKind \in [Packages -> {"core", "tap", "cask"}]
    /\ UnsupportedCasks \subseteq CaskPackages
    /\ NoPackage \notin Packages
    /\ CommandFaults \subseteq {"plan", "copy", "item", "link", "db", "cask", "unlink", "remove",
                           "brew"}

VARIABLES
    recorded,  \* the version of the row of each package, or "none"
    keg,       \* the directory of each version: "none", "torn" or "whole"
    brew,      \* packages Homebrew has
    command,   \* the command that runs: [name, at, rest, formulas, casks, force, failing]
    claimed,   \* packages the last migration says Homebrew no longer has
    atStart    \* history: the packages that were whole when the command began, and
               \* had no other directory

commandVars == <<recorded, keg, brew, command, claimed, atStart>>

CommandNames == {"none", "install", "upgrade", "reinstall", "bundle", "uninstall", "run", "migrate"}
CommandSteps == {"idle", "next", "plan", "items", "casks", "check", "formulas", "brewcasks"}

CommandsTypeOK ==
    /\ recorded \in [Packages -> {"none", "old", "new"}]
    /\ keg \in [Packages -> [{"old", "new"} -> {"none", "torn", "whole"}]]
    /\ brew \subseteq Packages
    /\ command \in [name : CommandNames, at : CommandSteps, rest : SUBSET Packages,
                    formulas : SUBSET Packages, casks : SUBSET Packages,
                    force : BOOLEAN, failing : BOOLEAN]
    /\ claimed \subseteq Packages /\ atStart \subseteq Packages

NoCommand == [name |-> "none", at |-> "idle", rest |-> {}, formulas |-> {}, casks |-> {},
              force |-> FALSE, failing |-> FALSE]

CommandsInit ==
    /\ recorded = [p \in Packages |-> "none"]
    /\ keg = [p \in Packages |-> [v \in {"old", "new"} |-> "none"]]
    /\ brew = {} /\ claimed = {} /\ atStart = {}
    /\ command = NoCommand

\* get_installed and installed_keg_exists: a formula of the core repository with
\* no row counts as installed when its directory in the cellar has any version.
IsInstalled(p) ==
    IF recorded[p] # "none" THEN keg[p][recorded[p]] # "none"
    ELSE PackageKind[p] = "core" /\ \E v \in {"old", "new"} : keg[p][v] # "none"

Whole(p) == recorded[p] # "none" /\ keg[p][recorded[p]] = "whole"

\* A directory that no row vouches for as whole: a failed copy or removal, or an
\* upgrade, left it.
Stray(p) ==
    \E v \in {"old", "new"} : keg[p][v] = "torn" \/ (keg[p][v] = "whole" /\ v # recorded[p])

\* installed_formula_is_current
IsCurrent(p) == recorded[p] = "new" /\ keg[p]["new"] # "none"

-----------------------------------------------------------------------------
(* How a command begins.                                                   *)

Begin(name, at, rest, formulas, casks) ==
    /\ command.at = "idle"
    /\ command' = [NoCommand EXCEPT !.name = name, !.at = at, !.rest = rest,
                                    !.formulas = formulas, !.casks = casks]
    /\ atStart' = {p \in Packages : Whole(p) /\ ~Stray(p)}
    /\ claimed' = {}
    /\ UNCHANGED <<recorded, keg, brew>>

BeginInstall(S) == Begin("install", "plan", {}, S \cap Formulae, S \cap CaskPackages)

\* Without names: what check_outdated reports, which no cask ever is.
BeginUpgrade(S) ==
    /\ S \subseteq {p \in Formulae : recorded[p] = "old"}
    /\ Begin("upgrade", "plan", {}, S, {})

BeginReinstall(S) ==
    /\ \A p \in S : IsInstalled(p)
    /\ Begin("reinstall", "next", S, {}, {})

BeginBundle(S) == Begin("bundle", "next", S, {}, {})

BeginUninstall(S) == Begin("uninstall", "next", S, {}, {})

\* prepare_execution
BeginRun(p) ==
    /\ p \in Formulae /\ ~IsInstalled(p)
    /\ Begin("run", "plan", {}, {p}, {})

\* All formulas of Homebrew, and the casks whose JSON can be resolved.
BeginMigrate ==
    /\ brew \ UnsupportedCasks # {}
    /\ Begin("migrate", "plan", brew \ UnsupportedCasks,
             brew \cap Formulae, (brew \cap CaskPackages) \ UnsupportedCasks)

-----------------------------------------------------------------------------
(* One package after the other.                                            *)

\* A plausible bug: reinstall goes on after an error.
DoneAnyway(failed) ==
    command' =
       IF command.name = "migrate"
       THEN [command EXCEPT !.at = IF @ \in {"plan", "items"} /\ command.casks # {}
                                   THEN "casks" ELSE "check",
                            !.formulas = {}, !.failing = FALSE]
       ELSE IF command.name \in {"bundle", "reinstall"} /\ command.rest # {}
       THEN [command EXCEPT !.at = "next", !.formulas = {}, !.casks = {}, !.failing = FALSE]
       ELSE NoCommand

\* install::execute is done, with an error or not.  bundle and reinstall stop at
\* the first error; a migration goes on to its casks whatever the formulas did.
Done(failed) ==
    command' =
       IF command.name = "migrate"
       THEN [command EXCEPT !.at = IF @ \in {"plan", "items"} /\ command.casks # {}
                                   THEN "casks" ELSE "check",
                            !.formulas = {}, !.failing = FALSE]
       ELSE IF command.name \in {"bundle", "reinstall"} /\ ~failed /\ command.rest # {}
       THEN [command EXCEPT !.at = "next", !.formulas = {}, !.casks = {}, !.failing = FALSE]
       ELSE NoCommand

\* The next package of the manifest.
NextOfBundle(p) ==
    /\ command.at = "next" /\ command.name = "bundle"
    /\ p \in command.rest
    /\ command' = [command EXCEPT !.at = "plan", !.rest = @ \ {p},
                                  !.formulas = {p} \cap Formulae, !.casks = {p} \cap CaskPackages]
    /\ UNCHANGED <<recorded, keg, brew, claimed, atStart>>

\* uninstall of what get_installed finds: the row's version, or any.
Removal(p, v, next) ==
    \/ /\ recorded' = [recorded EXCEPT ![p] = "none"]
       /\ keg' = [keg EXCEPT ![p][v] = "none"]
       /\ command' = next
    \/ /\ "remove" \in CommandFaults
       /\ recorded' = [recorded EXCEPT ![p] = "none"]
       /\ keg' = [keg EXCEPT ![p][v] = IF @ = "none" THEN @ ELSE "torn"]
       /\ command' = IF command.name = "uninstall" THEN next ELSE NoCommand
    \/ /\ "unlink" \in CommandFaults
       /\ command' = IF command.name = "uninstall" THEN next ELSE NoCommand
       /\ UNCHANGED <<recorded, keg>>

VersionsFound(p) ==
    IF recorded[p] # "none" THEN {recorded[p]} ELSE {v \in {"old", "new"} : keg[p][v] # "none"}

\* reinstall: the uninstall, then the install of this package alone.
NextOfReinstall(p) ==
    /\ command.at = "next" /\ command.name = "reinstall"
    /\ p \in command.rest
    /\ \E v \in VersionsFound(p) :
          Removal(p, v, [command EXCEPT !.at = "plan", !.rest = @ \ {p},
                           !.formulas = {p} \cap Formulae, !.casks = {p} \cap CaskPackages])
    /\ UNCHANGED <<brew, claimed, atStart>>

\* uninstall goes on after an error; a package that is not there is one.
NextOfUninstall(p) ==
    LET next == IF command.rest = {p} THEN NoCommand ELSE [command EXCEPT !.rest = @ \ {p}]
        found == recorded[p] # "none" \/ IsInstalled(p)
    IN
    /\ command.at = "next" /\ command.name = "uninstall"
    /\ p \in command.rest
    /\ IF found THEN \E v \in VersionsFound(p) : Removal(p, v, next)
       ELSE command' = next /\ UNCHANGED <<recorded, keg>>
    /\ UNCHANGED <<brew, claimed, atStart>>

-----------------------------------------------------------------------------
(* install::execute: the formulas as one plan, then the casks.             *)

PlanFormulas ==
    /\ command.at = "plan"
    /\ \/ /\ command.formulas # {}
          /\ command' = [command EXCEPT !.at = "items",
                           !.formulas = {p \in @ : ~IsCurrent(p)}]
       \/ /\ command.formulas = {} /\ command.name # "migrate"
          /\ command' = [command EXCEPT !.at = "casks"]
       \/ /\ command.formulas = {} /\ command.name = "migrate"
          /\ Done(FALSE)
       \/ /\ "plan" \in CommandFaults /\ command.formulas # {}
          /\ Done(TRUE)
    /\ UNCHANGED <<recorded, keg, brew, claimed, atStart>>

\* One item: recorded, whatever its directory held, and linked, or that fails; or the
\* copy fails and leaves a part; or nothing was done; or the database fails and the
\* keg is removed.  The others go on.
InstallItem(p) ==
    /\ command.at = "items"
    /\ p \in command.formulas
    /\ \/ /\ recorded' = [recorded EXCEPT ![p] = "new"]
          /\ keg' = [keg EXCEPT ![p]["new"] = IF @ = "none" THEN "whole" ELSE @]
          /\ \/ command' = [command EXCEPT !.formulas = @ \ {p}]
             \/ /\ "link" \in CommandFaults
                /\ command' = [command EXCEPT !.formulas = @ \ {p}, !.failing = TRUE]
       \/ /\ \/ /\ "copy" \in CommandFaults /\ keg[p]["new"] = "none"
                /\ keg' = [keg EXCEPT ![p]["new"] = "torn"]
             \/ /\ "db" \in CommandFaults
                /\ keg' = [keg EXCEPT ![p]["new"] = "none"]
             \/ "item" \in CommandFaults /\ UNCHANGED keg
          /\ command' = [command EXCEPT !.formulas = @ \ {p}, !.failing = TRUE]
          /\ UNCHANGED recorded
    /\ UNCHANGED <<brew, claimed, atStart>>

ItemsEnd ==
    /\ command.at = "items"
    /\ command.formulas = {}
    /\ IF command.failing \/ command.casks = {} \/ command.name = "migrate"
       THEN Done(command.failing)
       ELSE command' = [command EXCEPT !.at = "casks"]
    /\ UNCHANGED <<recorded, keg, brew, claimed, atStart>>

\* install_casks and install_casks_from_json: a cask that is installed is
\* skipped; an error ends the first, not the second.  After a conflict the user
\* may let the whole list run again with force.
InstallOneCask(p) ==
    /\ command.at = "casks"
    /\ p \in command.casks
    /\ \/ /\ IsInstalled(p)
          /\ command' = [command EXCEPT !.casks = @ \ {p}]
          /\ UNCHANGED <<recorded, keg>>
       \/ /\ ~IsInstalled(p)
          /\ recorded' = [recorded EXCEPT ![p] = "new"]
          /\ keg' = [keg EXCEPT ![p]["new"] = "whole"]
          /\ command' = [command EXCEPT !.casks = @ \ {p}]
       \/ /\ ~IsInstalled(p) /\ "cask" \in CommandFaults
          /\ keg' = [keg EXCEPT ![p]["new"] = "none"]
          /\ \/ command.name = "migrate" /\ command' = [command EXCEPT !.casks = @ \ {p}]
             \/ command.name # "migrate" /\ Done(TRUE)
             \/ /\ command.name # "migrate" /\ ~command.force
                /\ command' = [command EXCEPT !.force = TRUE]
          /\ UNCHANGED recorded
    /\ UNCHANGED <<brew, claimed, atStart>>

CasksEnd ==
    /\ command.at = "casks"
    /\ command.casks = {}
    /\ Done(FALSE)
    /\ UNCHANGED <<recorded, keg, brew, claimed, atStart>>

-----------------------------------------------------------------------------
(* The end of a migration.                                                 *)

\* A plausible bug: what was tried is taken for what is installed.
CheckTakesAll ==
    /\ command.at = "check"
    /\ command' = [command EXCEPT !.at = "formulas"]
    /\ UNCHANGED <<recorded, keg, brew, claimed, atStart>>

\* check_install_status, and the user agrees to the uninstall, or not.
CheckMigrated ==
    /\ command.at = "check"
    /\ LET migrated == {p \in command.rest : IsInstalled(p)} IN
       \/ command' = NoCommand
       \/ /\ migrated # {}
          /\ command' = [command EXCEPT !.at = "formulas", !.rest = migrated]
    /\ UNCHANGED <<recorded, keg, brew, claimed, atStart>>

\* A plausible bug: the output of brew list is not looked at.
BrewUninstallTrusted(S, shown) ==
    \/ brew' = brew \ S /\ claimed' = claimed \cup S
    \/ /\ "brew" \in CommandFaults
       /\ \E gone \in SUBSET S : brew' = brew \ gone /\ claimed' = claimed \cup S

\* brew uninstall of all of them at once.  When it fails, those that brew list
\* still shows have failed, or all when that fails too.  The lines of brew list
\* lose their tap, the names they are looked for in do not.
BrewUninstall(S, shown) ==
    \/ brew' = brew \ S /\ claimed' = claimed \cup S
    \/ /\ "brew" \in CommandFaults
       /\ \E gone \in SUBSET S :
             /\ brew' = brew \ gone
             /\ \/ claimed' = claimed \cup {p \in S : p \notin brew' \/ p \notin shown}
                \/ UNCHANGED claimed

UninstallFormulas ==
    /\ command.at = "formulas"
    /\ BrewUninstall(command.rest \cap Formulae, {p \in Formulae : PackageKind[p] = "core"})
    /\ command' = [command EXCEPT !.at = "brewcasks"]
    /\ UNCHANGED <<recorded, keg, atStart>>

UninstallBrewCasks ==
    /\ command.at = "brewcasks"
    /\ BrewUninstall(command.rest \cap CaskPackages, CaskPackages)
    /\ command' = NoCommand
    /\ UNCHANGED <<recorded, keg, atStart>>

-----------------------------------------------------------------------------
(* Around the commands.                                                    *)

\* The user installs a package with Homebrew.
UserBrews(p) ==
    /\ command.at = "idle"
    /\ brew' = brew \cup {p}
    /\ claimed' = {}
    /\ UNCHANGED <<recorded, keg, command, atStart>>

\* The API offers a new version of an installed formula.  Bound: not before the
\* keg of the last but one is gone.
Release(p) ==
    /\ command.at = "idle"
    /\ p \in Formulae /\ recorded[p] = "new" /\ keg[p]["old"] = "none"
    /\ recorded' = [recorded EXCEPT ![p] = "old"]
    /\ keg' = [keg EXCEPT ![p] = [old |-> keg[p]["new"], new |-> "none"]]
    /\ UNCHANGED <<brew, command, claimed, atStart>>

CommandStep ==
    \/ \E p \in Packages : \/ NextOfBundle(p) \/ NextOfReinstall(p) \/ NextOfUninstall(p)
                           \/ InstallItem(p) \/ InstallOneCask(p)
    \/ PlanFormulas \/ ItemsEnd \/ CasksEnd
    \/ CheckMigrated \/ UninstallFormulas \/ UninstallBrewCasks

CommandsNext ==
    \/ \E S \in SUBSET Packages \ {{}} :
          \/ BeginInstall(S) \/ BeginUpgrade(S) \/ BeginReinstall(S)
          \/ BeginBundle(S) \/ BeginUninstall(S)
    \/ BeginMigrate
    \/ \E p \in Packages : BeginRun(p) \/ UserBrews(p) \/ Release(p)
    \/ CommandStep

CommandsSpec == CommandsInit /\ [][CommandsNext]_commandVars

-----------------------------------------------------------------------------
(* Properties.                                                             *)

\* migrate: Homebrew gives up a package only when zerobrew has it, recorded and
\* whole; or has a directory that a failed copy, a failed removal or an upgrade
\* left behind, which is taken for the package.
GivenUpAreHere == \A p \in brew \ brew' : Whole(p) \/ Stray(p)

\* A command that fails half way takes no package away that was there before it,
\* with no torn directory beside, except reinstall, which loses at most the one
\* package it was at.
FailuresLoseOneAtMost ==
    LET lost == {p \in atStart : ~Whole(p)} IN
    command.name \in {"install", "upgrade", "bundle", "run", "migrate", "reinstall"} =>
       IF command.name = "reinstall" THEN Cardinality(lost) <= 1 ELSE lost = {}

\* What migrate reports as uninstalled from Homebrew is gone from there, but for
\* formulas of taps after a brew uninstall that failed.
ClaimsAreTrue == \A p \in claimed : p \notin brew \/ PackageKind[p] = "tap"

\* A migration, whatever fails in it, leaves every package with Homebrew or with
\* zerobrew, and tells the user which.
MigrationKeepsPackages == [][GivenUpAreHere /\ ClaimsAreTrue']_commandVars
=============================================================================
