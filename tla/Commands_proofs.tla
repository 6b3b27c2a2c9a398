-------------------------- MODULE Commands_proofs --------------------------
(***************************************************************************)
(* Proofs about Commands, for any packages and faults: the types, what a   *)
(* migration keeps, and what a failure can lose; about Plan, for any       *)
(* formulas: a plan is sound; about ShellInit, for any configuration       *)
(* files: the managed block is kept; about CaskDocument: what is staged is *)
(* what the document lists; and about all of them and TapSource together:  *)
(* texts are read right.                                                   *)
(***************************************************************************)
EXTENDS MCCommands, TapSource_proofs

Keeping == {"install", "upgrade", "bundle", "run", "migrate"}

\* Which commands can be at which step; a failure is noted among the items only.
StepFits ==
    /\ command.at = "idle" <=> command.name = "none"
    /\ command.at = "next" => command.name \in {"bundle", "reinstall", "uninstall"}
    /\ command.at \in {"plan", "items", "casks"} => command.name \in Keeping \cup {"reinstall"}
    /\ command.at \in {"check", "formulas", "brewcasks"} => command.name = "migrate"
    /\ command.failing => command.at = "items"
    /\ command.at = "casks" => command.formulas = {}
    /\ command.name = "bundle" => command.formulas \cap command.rest = {}
    /\ command.formulas \cap command.casks = {}

\* What a migration is about to give up is here.
MigratedFit ==
    command.at \in {"formulas", "brewcasks"} => \A p \in command.rest : Whole(p) \/ Stray(p)

\* A package the command has not come to yet.
Ahead(p) == p \in command.formulas \/ (command.name = "bundle" /\ p \in command.rest)

\* What was there is there, and in its way there is nothing.
KeptFit ==
    command.name \in Keeping =>
       \A p \in atStart : Whole(p) /\ (Ahead(p) => ~Stray(p))

ItemsFit == command.at = "items" => \A p \in command.formulas : ~IsCurrent(p)

Lost == {p \in atStart : ~Whole(p)}
Gone(q) == recorded[q] = "none" /\ \A v \in {"old", "new"} : keg[q][v] = "none"

\* reinstall is at package q: nothing else is lost.
AtPackage(q) ==
    /\ command.formulas \cup command.casks \subseteq {q}
    /\ q \notin command.rest
    /\ Lost \subseteq {q}
    /\ command.formulas \cup command.casks = {} => command.failing \/ Lost = {}
    /\ q \in atStart \cap (command.formulas \cup command.casks) => Gone(q)

ReinstallFits ==
    command.name = "reinstall" =>
       /\ \A p \in atStart \cap command.rest : Whole(p) /\ ~Stray(p)
       /\ IF command.at = "next" THEN Lost = {} ELSE \E q \in Packages : AtPackage(q)

\* The inductive invariant.
CommandInv ==
    /\ CommandsTypeOK /\ StepFits /\ MigratedFit /\ ClaimsAreTrue
    /\ KeptFit /\ ItemsFit /\ ReinstallFits

CommandType ==
    [name : CommandNames, at : CommandSteps, rest : SUBSET Packages,
     formulas : SUBSET Packages, casks : SUBSET Packages, force : BOOLEAN, failing : BOOLEAN]

LEMMA Initially == CommandsInit => CommandInv
  BY DEF CommandsInit, CommandInv, CommandsTypeOK, StepFits, MigratedFit, ClaimsAreTrue, KeptFit,
         ItemsFit, ReinstallFits, NoCommand, CommandNames, CommandSteps, Keeping

-----------------------------------------------------------------------------
(* What the steps have in common.                                          *)

LEMMA NoCommandFits == NoCommand \in CommandType
  BY DEF NoCommand, CommandType, CommandNames, CommandSteps

\* A step that ends the command leaves nothing to show but the types and the claims.
LEMMA Ended ==
    ASSUME CommandInv, command' = NoCommand, CommandsTypeOK', ClaimsAreTrue'
    PROVE  CommandInv'
  BY DEF CommandInv, StepFits, MigratedFit, KeptFit, ItemsFit, ReinstallFits, NoCommand, Keeping

\* The fields of a command after Done.
LEMMA DoneFields ==
    ASSUME CommandInv, NEW failed \in BOOLEAN, Done(failed)
    PROVE  /\ command' \in CommandType
           /\ \/ command' = NoCommand
              \/ /\ command.name = "migrate" /\ command'.name = "migrate"
                 /\ command'.at \in {"casks", "check"} /\ command'.formulas = {}
                 /\ command'.rest = command.rest /\ ~command'.failing
              \/ /\ command.name \in {"bundle", "reinstall"} /\ ~failed
                 /\ command'.name = command.name /\ command'.at = "next"
                 /\ command'.formulas = {} /\ command'.casks = {} /\ ~command'.failing
                 /\ command'.rest = command.rest
  <1>0. command \in CommandType
    BY DEF CommandInv, CommandsTypeOK, CommandType
  <1>1. CASE command.name = "migrate"
    BY <1>0, <1>1 DEF Done, CommandType, CommandSteps
  <1>2. CASE command.name \in {"bundle", "reinstall"} /\ ~failed /\ command.rest # {}
    BY <1>0, <1>2 DEF Done, CommandType, CommandSteps
  <1>3. CASE ~(command.name = "migrate")
             /\ ~(command.name \in {"bundle", "reinstall"} /\ ~failed /\ command.rest # {})
    BY <1>3, NoCommandFits DEF Done
  <1> QED BY <1>1, <1>2, <1>3

\* A command is done and the packages are as they were: a reinstall has lost nothing,
\* or has failed.
LEMMA DoneStep ==
    ASSUME CommandInv, NEW failed \in BOOLEAN, Done(failed),
           UNCHANGED <<recorded, keg, brew, claimed, atStart>>,
           command.at \in {"plan", "items", "casks"},
           command.name = "reinstall" => failed \/ Lost = {}
    PROVE  CommandInv'
  <1>0. command' \in CommandType /\ CommandsTypeOK' /\ ClaimsAreTrue'
    BY DoneFields DEF CommandInv, CommandsTypeOK, CommandType, ClaimsAreTrue
  <1>1. CASE command' = NoCommand
    BY <1>0, <1>1, Ended
  <1>2. CASE /\ command.name = "migrate" /\ command'.name = "migrate"
             /\ command'.at \in {"casks", "check"} /\ command'.formulas = {}
             /\ command'.rest = command.rest /\ ~command'.failing
    BY <1>0, <1>2 DEF CommandInv, StepFits, MigratedFit, KeptFit, ItemsFit, ReinstallFits,
                      Keeping, Ahead, Whole, Stray
  <1>3. CASE /\ command.name \in {"bundle", "reinstall"} /\ ~failed
             /\ command'.name = command.name /\ command'.at = "next"
             /\ command'.formulas = {} /\ command'.casks = {} /\ ~command'.failing
             /\ command'.rest = command.rest
    BY <1>0, <1>3 DEF CommandInv, StepFits, MigratedFit, KeptFit, ItemsFit, ReinstallFits,
                      Keeping, Ahead, Whole, Stray, Lost
  <1> QED BY <1>1, <1>2, <1>3, DoneFields

-----------------------------------------------------------------------------
(* The steps.                                                              *)

LEMMA BeginKeeps ==
    ASSUME CommandInv, NEW name \in CommandNames \ {"none"}, NEW at \in CommandSteps,
           NEW rest \in SUBSET Packages, NEW formulas \in SUBSET Packages,
           NEW casks \in SUBSET Packages, Begin(name, at, rest, formulas, casks),
           \/ at = "plan" /\ name \in Keeping \ {"bundle"}
           \/ /\ at = "next" /\ formulas = {} /\ casks = {}
              /\ name \in {"bundle", "reinstall", "uninstall"},
           formulas \cap casks = {}
    PROVE  CommandInv' /\ brew' = brew
  <1>1. command' = [name |-> name, at |-> at, rest |-> rest, formulas |-> formulas,
                    casks |-> casks, force |-> FALSE, failing |-> FALSE]
    BY DEF Begin, NoCommand
  <1>2. command' \in CommandType
    BY <1>1 DEF CommandType, CommandNames, CommandSteps
  <1>3. CommandsTypeOK' /\ ClaimsAreTrue'
    BY <1>2 DEF Begin, CommandInv, CommandsTypeOK, CommandType, ClaimsAreTrue
  <1>4. \A p \in atStart' : Whole(p)' /\ ~Stray(p)'
    BY DEF Begin, Whole, Stray
  <1>5. /\ command'.name = name /\ command'.at = at /\ command'.rest = rest
        /\ command'.formulas = formulas /\ command'.casks = casks /\ command'.failing = FALSE
    BY <1>1
  <1>6. StepFits' /\ MigratedFit' /\ ItemsFit'
    BY <1>5 DEF StepFits, MigratedFit, ItemsFit, Keeping, CommandNames
  <1>7. KeptFit' /\ ReinstallFits'
    BY <1>4, <1>5 DEF KeptFit, ReinstallFits, Lost, Keeping
  <1> QED BY <1>3, <1>6, <1>7 DEF CommandInv, Begin

LEMMA NextOfBundleKeeps ==
    ASSUME CommandInv, NEW p \in Packages, NextOfBundle(p)
    PROVE  CommandInv'
  <1>0. command \in CommandType
    BY DEF CommandInv, CommandsTypeOK, CommandType
  <1>1. /\ command' \in CommandType
        /\ command'.name = "bundle" /\ command'.at = "plan" /\ command'.rest = command.rest \ {p}
        /\ command'.formulas = {p} \cap Formulae /\ command'.casks = {p} \cap CaskPackages
        /\ command'.failing = command.failing
    BY <1>0 DEF NextOfBundle, CommandType, CommandSteps, Formulae, CaskPackages
  <1>2. CommandsTypeOK' /\ ClaimsAreTrue'
    BY <1>1 DEF NextOfBundle, CommandInv, CommandsTypeOK, CommandType, ClaimsAreTrue
  <1>3. StepFits' /\ MigratedFit' /\ ItemsFit' /\ ReinstallFits'
    BY <1>1 DEF NextOfBundle, CommandInv, StepFits, MigratedFit, ItemsFit, ReinstallFits, Keeping,
                CaskPackages
  <1>4. KeptFit'
    BY <1>1 DEF NextOfBundle, CommandInv, KeptFit, Keeping, Ahead, Whole, Stray
  <1> QED BY <1>2, <1>3, <1>4 DEF CommandInv

\* A version that an uninstall finds is one of the two.
LEMMA FoundIsAVersion ==
    ASSUME CommandsTypeOK, NEW p \in Packages, NEW v \in VersionsFound(p)
    PROVE  v \in {"old", "new"}
  BY DEF VersionsFound, CommandsTypeOK

\* What an uninstall leaves of p, and that it touches no other package.
LEMMA RemovalOnly ==
    ASSUME CommandsTypeOK, NEW p \in Packages, NEW v \in {"old", "new"}, NEW next,
           Removal(p, v, next)
    PROVE  /\ recorded' \in [Packages -> {"none", "old", "new"}]
           /\ keg' \in [Packages -> [{"old", "new"} -> {"none", "torn", "whole"}]]
           /\ \A q \in Packages \ {p} : recorded'[q] = recorded[q] /\ keg'[q] = keg[q]
           /\ command' = next \/ command' = NoCommand
           /\ command.name # "uninstall" /\ command' # NoCommand =>
                 recorded'[p] = "none" /\ keg' = [keg EXCEPT ![p][v] = "none"]
  BY DEF Removal, CommandsTypeOK

LEMMA NextOfReinstallKeeps ==
    ASSUME CommandInv, NEW p \in Packages, NextOfReinstall(p)
    PROVE  CommandInv'
  <1> DEFINE next == [command EXCEPT !.at = "plan", !.rest = @ \ {p},
                        !.formulas = {p} \cap Formulae, !.casks = {p} \cap CaskPackages]
  <1>0. command \in CommandType /\ CommandsTypeOK
    BY DEF CommandInv, CommandsTypeOK, CommandType
  <1>1. PICK v \in {"old", "new"} : v \in VersionsFound(p) /\ Removal(p, v, next)
    BY <1>0, FoundIsAVersion DEF NextOfReinstall
  <1>2. next \in CommandType
    BY <1>0 DEF CommandType, CommandSteps, Formulae, CaskPackages
  <1>3. command' = next \/ command' = NoCommand
    BY <1>0, <1>1, RemovalOnly
  <1>4. CommandsTypeOK' /\ ClaimsAreTrue'
    <2>1. command' \in CommandType
      BY <1>2, <1>3, NoCommandFits
    <2>2. /\ recorded' \in [Packages -> {"none", "old", "new"}]
          /\ keg' \in [Packages -> [{"old", "new"} -> {"none", "torn", "whole"}]]
      BY <1>0, <1>1, RemovalOnly
    <2> QED BY <2>1, <2>2, <1>0 DEF NextOfReinstall, CommandInv, CommandsTypeOK, CommandType,
                                    ClaimsAreTrue
  <1>5. CASE command' = NoCommand
    BY <1>4, <1>5, Ended
  <1>6. CASE command' = next /\ command' # NoCommand
    <2>1. /\ command'.name = "reinstall" /\ command'.at = "plan"
          /\ command'.rest = command.rest \ {p} /\ command'.formulas = {p} \cap Formulae
          /\ command'.casks = {p} \cap CaskPackages /\ command'.failing = command.failing
      BY <1>0, <1>6 DEF CommandType, NextOfReinstall
    <2>2. StepFits' /\ MigratedFit' /\ ItemsFit' /\ KeptFit'
      BY <2>1 DEF NextOfReinstall, CommandInv, StepFits, MigratedFit, ItemsFit, KeptFit, Keeping,
                  CaskPackages
    <2>3. /\ recorded'[p] = "none" /\ keg' = [keg EXCEPT ![p][v] = "none"]
          /\ \A q \in Packages \ {p} : recorded'[q] = recorded[q] /\ keg'[q] = keg[q]
          /\ atStart' = atStart
      BY <1>0, <1>1, <1>6, RemovalOnly DEF NextOfReinstall
    <2>4. \A q \in atStart \ {p} : (Whole(q)' <=> Whole(q)) /\ (Stray(q)' <=> Stray(q))
      BY <2>3, <1>0 DEF CommandsTypeOK, Whole, Stray
    <2>5. Lost = {} /\ \A q \in atStart \cap command.rest : Whole(q) /\ ~Stray(q)
      BY DEF NextOfReinstall, CommandInv, ReinstallFits
    <2>6. Lost' \subseteq {p}
      BY <2>3, <2>4, <2>5 DEF Lost
    <2>7. p \in atStart => Gone(p)'
      <3> SUFFICES ASSUME p \in atStart PROVE Gone(p)'
        OBVIOUS
      <3>1. Whole(p) /\ ~Stray(p)
        BY <2>5 DEF NextOfReinstall
      <3>2. v = recorded[p]
        BY <1>1, <3>1 DEF VersionsFound, Whole
      <3>3. \A w \in {"old", "new"} : w # v => keg[p][w] = "none"
        BY <3>1, <3>2, <1>0 DEF Stray, CommandsTypeOK
      <3>4. \A w \in {"old", "new"} : keg'[p][w] = IF w = v THEN "none" ELSE keg[p][w]
        BY <2>3, <1>0 DEF CommandsTypeOK
      <3> QED BY <2>3, <3>3, <3>4 DEF Gone
    <2>8. command'.formulas \cup command'.casks = {p}
      BY <2>1 DEF Formulae, CaskPackages
    <2>9. AtPackage(p)'
      BY <2>1, <2>3, <2>6, <2>7, <2>8 DEF AtPackage
    <2>10. \A q \in atStart' \cap command'.rest : Whole(q)' /\ ~Stray(q)'
      BY <2>1, <2>3, <2>4, <2>5
    <2>11. ReinstallFits'
      BY <2>1, <2>9, <2>10 DEF ReinstallFits
    <2> QED BY <1>4, <2>2, <2>11 DEF CommandInv
  <1> QED BY <1>3, <1>5, <1>6

LEMMA NextOfUninstallKeeps ==
    ASSUME CommandInv, NEW p \in Packages, NextOfUninstall(p)
    PROVE  CommandInv'
  <1> DEFINE next == IF command.rest = {p} THEN NoCommand ELSE [command EXCEPT !.rest = @ \ {p}]
  <1>0. command \in CommandType /\ CommandsTypeOK
    BY DEF CommandInv, CommandsTypeOK, CommandType
  <1>1. next \in CommandType
    BY <1>0, NoCommandFits DEF CommandType
  <1>2. /\ command' = next \/ command' = NoCommand
        /\ recorded' \in [Packages -> {"none", "old", "new"}]
        /\ keg' \in [Packages -> [{"old", "new"} -> {"none", "torn", "whole"}]]
    <2>1. CASE \E v \in VersionsFound(p) : Removal(p, v, next)
      BY <1>0, <2>1, FoundIsAVersion, RemovalOnly
    <2>2. CASE command' = next /\ UNCHANGED <<recorded, keg>>
      BY <1>0, <2>2 DEF CommandsTypeOK
    <2> QED BY <2>1, <2>2 DEF NextOfUninstall
  <1>3. CommandsTypeOK' /\ ClaimsAreTrue'
    BY <1>0, <1>1, <1>2, NoCommandFits
    DEF NextOfUninstall, CommandInv, CommandsTypeOK, CommandType, ClaimsAreTrue
  <1>4. CASE command' = NoCommand
    BY <1>3, <1>4, Ended
  <1>5. CASE command' = [command EXCEPT !.rest = @ \ {p}]
    <2>1. /\ command'.name = "uninstall" /\ command'.at = "next"
          /\ command'.failing = command.failing
          /\ command'.formulas = command.formulas /\ command'.casks = command.casks
      BY <1>0, <1>5 DEF CommandType, NextOfUninstall
    <2>2. StepFits' /\ MigratedFit' /\ ItemsFit' /\ KeptFit' /\ ReinstallFits'
      BY <2>1 DEF NextOfUninstall, CommandInv, StepFits, MigratedFit, ItemsFit, KeptFit,
                  ReinstallFits, Keeping
    <2> QED BY <1>3, <2>2 DEF CommandInv
  <1> QED BY <1>2, <1>4, <1>5

\* A step that moves a reinstall on and leaves the packages as they were.
LEMMA ReinstallMoves ==
    ASSUME CommandInv, UNCHANGED <<recorded, keg, atStart>>, command'.name = command.name,
           command'.at \in {"items", "casks"}, command.at # "next",
           command'.rest = command.rest, command'.casks \subseteq command.casks,
           command'.formulas \subseteq command.formulas,
           \A q \in (command.formulas \cup command.casks)
                    \ (command'.formulas \cup command'.casks) : q \notin atStart \/ ~Gone(q),
           command.failing => command'.failing \/ command.formulas \cup command.casks # {}
                                               \/ command.name # "reinstall"
    PROVE  ReinstallFits'
  <1> SUFFICES ASSUME command.name = "reinstall" PROVE ReinstallFits'
    BY DEF ReinstallFits
  <1>1. PICK q \in Packages : AtPackage(q)
    BY DEF CommandInv, ReinstallFits
  <1>2. AtPackage(q)'
    BY <1>1 DEF AtPackage, Lost, Whole, Gone
  <1>3. \A r \in atStart' \cap command'.rest : Whole(r)' /\ ~Stray(r)'
    BY DEF CommandInv, ReinstallFits, Whole, Stray
  <1> QED BY <1>2, <1>3 DEF ReinstallFits

LEMMA PlanFormulasKeeps ==
    ASSUME CommandInv, PlanFormulas
    PROVE  CommandInv'
  <1>0. command \in CommandType /\ CommandsTypeOK
    BY DEF CommandInv, CommandsTypeOK, CommandType
  <1>1. CASE /\ command.formulas # {}
             /\ command' = [command EXCEPT !.at = "items", !.formulas = {p \in @ : ~IsCurrent(p)}]
    <2>1. /\ command' \in CommandType
          /\ command'.name = command.name /\ command'.at = "items"
          /\ command'.rest = command.rest /\ command'.casks = command.casks
          /\ command'.formulas = {p \in command.formulas : ~IsCurrent(p)}
          /\ command'.failing = command.failing
      BY <1>0, <1>1 DEF CommandType, CommandSteps
    <2>2. CommandsTypeOK' /\ ClaimsAreTrue'
      BY <2>1 DEF PlanFormulas, CommandInv, CommandsTypeOK, CommandType, ClaimsAreTrue
    <2>3. StepFits' /\ MigratedFit'
      BY <2>1 DEF PlanFormulas, CommandInv, StepFits, MigratedFit, Keeping
    <2>4. KeptFit' /\ ItemsFit'
      BY <2>1 DEF PlanFormulas, CommandInv, KeptFit, ItemsFit, Keeping, Ahead, Whole, Stray,
                  IsCurrent
    <2>5. \A q \in Packages : IsCurrent(q) => ~Gone(q)
      BY DEF IsCurrent, Gone
    <2>6. ReinstallFits'
      BY <2>1, <2>5, <1>0, <1>1, ReinstallMoves DEF PlanFormulas, CommandType
    <2> QED BY <2>2, <2>3, <2>4, <2>6 DEF CommandInv
  <1>2. CASE /\ command.formulas = {} /\ command.name # "migrate"
             /\ command' = [command EXCEPT !.at = "casks"]
    <2>1. /\ command' \in CommandType
          /\ command'.name = command.name /\ command'.at = "casks"
          /\ command'.rest = command.rest /\ command'.casks = command.casks
          /\ command'.formulas = {} /\ command'.failing = command.failing
      BY <1>0, <1>2 DEF CommandType, CommandSteps
    <2>2. CommandsTypeOK' /\ ClaimsAreTrue'
      BY <2>1 DEF PlanFormulas, CommandInv, CommandsTypeOK, CommandType, ClaimsAreTrue
    <2>3. StepFits' /\ MigratedFit' /\ ItemsFit'
      BY <1>2, <2>1 DEF PlanFormulas, CommandInv, StepFits, MigratedFit, ItemsFit, Keeping
    <2>4. KeptFit'
      BY <1>2, <2>1 DEF PlanFormulas, CommandInv, KeptFit, Keeping, Ahead, Whole, Stray
    <2>5. ReinstallFits'
      BY <1>2, <2>1, ReinstallMoves DEF PlanFormulas
    <2> QED BY <2>2, <2>3, <2>4, <2>5 DEF CommandInv
  <1>3. CASE command.formulas = {} /\ command.name = "migrate" /\ Done(FALSE)
    BY <1>3, DoneStep DEF PlanFormulas
  <1>4. CASE Done(TRUE)
    BY <1>4, DoneStep DEF PlanFormulas
  <1> QED BY <1>1, <1>2, <1>3, <1>4 DEF PlanFormulas

LEMMA ItemsEndKeeps ==
    ASSUME CommandInv, ItemsEnd
    PROVE  CommandInv'
  <1>0. command \in CommandType /\ CommandsTypeOK
    BY DEF CommandInv, CommandsTypeOK, CommandType
  <1>1. CASE Done(command.failing) /\ ~(command.name = "reinstall")
    BY <1>0, <1>1, DoneStep DEF ItemsEnd, CommandType
  <1>2. CASE Done(command.failing) /\ command.name = "reinstall"
             /\ (command.failing \/ command.casks = {})
    <2>2. command.failing \/ Lost = {}
      BY <1>2 DEF ItemsEnd, CommandInv, ReinstallFits, AtPackage
    <2> QED BY <1>0, <1>2, <2>2, DoneStep DEF ItemsEnd, CommandType
  <1>3. CASE ~command.failing /\ command' = [command EXCEPT !.at = "casks"]
             /\ command.name # "migrate"
    <2>1. /\ command' \in CommandType
          /\ command'.name = command.name /\ command'.at = "casks"
          /\ command'.rest = command.rest /\ command'.casks = command.casks
          /\ command'.formulas = {} /\ command.formulas = {} /\ ~command'.failing
      BY <1>0, <1>3 DEF CommandType, CommandSteps, ItemsEnd
    <2>2. CommandsTypeOK' /\ ClaimsAreTrue'
      BY <2>1 DEF ItemsEnd, CommandInv, CommandsTypeOK, CommandType, ClaimsAreTrue
    <2>3. StepFits' /\ MigratedFit' /\ ItemsFit'
      BY <2>1 DEF ItemsEnd, CommandInv, StepFits, MigratedFit, ItemsFit, Keeping
    <2>4. KeptFit'
      BY <2>1 DEF ItemsEnd, CommandInv, KeptFit, Keeping, Ahead, Whole, Stray
    <2>5. ReinstallFits'
      BY <1>3, <2>1, ReinstallMoves DEF ItemsEnd
    <2> QED BY <2>2, <2>3, <2>4, <2>5 DEF CommandInv
  <1> QED BY <1>1, <1>2, <1>3 DEF ItemsEnd

LEMMA CasksEndKeeps ==
    ASSUME CommandInv, CasksEnd
    PROVE  CommandInv'
  <1>1. command.name = "reinstall" => Lost = {}
    BY DEF CasksEnd, CommandInv, StepFits, ReinstallFits, AtPackage
  <1> QED BY <1>1, DoneStep DEF CasksEnd

LEMMA CheckMigratedKeeps ==
    ASSUME CommandInv, CheckMigrated
    PROVE  CommandInv'
  <1> DEFINE migrated == {p \in command.rest : IsInstalled(p)}
  <1>0. command \in CommandType /\ CommandsTypeOK
    BY DEF CommandInv, CommandsTypeOK, CommandType
  <1>1. CASE command' = NoCommand
    <2>1. CommandsTypeOK' /\ ClaimsAreTrue'
      BY <1>1, NoCommandFits DEF CheckMigrated, CommandInv, CommandsTypeOK, CommandType,
                                 ClaimsAreTrue
    <2> QED BY <1>1, <2>1, Ended
  <1>2. CASE command' = [command EXCEPT !.at = "formulas", !.rest = migrated]
    <2>1. /\ command' \in CommandType
          /\ command'.name = command.name /\ command'.at = "formulas"
          /\ command'.rest = migrated /\ command'.formulas = command.formulas
          /\ command'.casks = command.casks /\ command'.failing = command.failing
      BY <1>0, <1>2 DEF CommandType, CommandSteps
    <2>2. CommandsTypeOK' /\ ClaimsAreTrue'
      BY <2>1 DEF CheckMigrated, CommandInv, CommandsTypeOK, CommandType, ClaimsAreTrue
    <2>3. command.name = "migrate"
      BY DEF CheckMigrated, CommandInv, StepFits
    <2>4. \A p \in migrated : Whole(p) \/ Stray(p)
      <3> SUFFICES ASSUME NEW p \in migrated PROVE Whole(p) \/ Stray(p)
        OBVIOUS
      <3>1. p \in Packages /\ IsInstalled(p)
        BY <1>0 DEF CommandType
      <3>2. PICK v \in {"old", "new"} : keg[p][v] # "none" /\ (recorded[p] # "none" => v = recorded[p])
        BY <3>1, <1>0 DEF IsInstalled, CommandsTypeOK
      <3> QED BY <3>1, <3>2, <1>0 DEF Whole, Stray, CommandsTypeOK
    <2>5. MigratedFit'
      BY <2>1, <2>4 DEF MigratedFit, CheckMigrated, Whole, Stray
    <2>6. StepFits' /\ ItemsFit' /\ ReinstallFits'
      BY <2>1, <2>3 DEF CheckMigrated, CommandInv, StepFits, ItemsFit, ReinstallFits
    <2>7. KeptFit'
      BY <2>1, <2>3 DEF CheckMigrated, CommandInv, KeptFit, Keeping, Ahead, Whole, Stray
    <2> QED BY <2>2, <2>5, <2>6, <2>7 DEF CommandInv
  <1> QED BY <1>1, <1>2 DEF CheckMigrated

\* What one item or cask changes: nothing but package p.
LEMMA OthersAsBefore ==
    ASSUME CommandsTypeOK, NEW p \in Packages, NEW v \in {"none", "torn", "whole"},
           recorded' \in {recorded, [recorded EXCEPT ![p] = "new"]},
           keg' \in {keg, [keg EXCEPT ![p]["new"] = v]}
    PROVE  /\ recorded' \in [Packages -> {"none", "old", "new"}]
           /\ keg' \in [Packages -> [{"old", "new"} -> {"none", "torn", "whole"}]]
           /\ \A q \in Packages \ {p} : recorded'[q] = recorded[q] /\ keg'[q] = keg[q]
  BY DEF CommandsTypeOK

LEMMA InstallItemKeeps ==
    ASSUME CommandInv, NEW p \in Packages, InstallItem(p)
    PROVE  CommandInv'
  <1>0. command \in CommandType /\ CommandsTypeOK
    BY DEF CommandInv, CommandsTypeOK, CommandType
  <1>1. \/ /\ recorded' = [recorded EXCEPT ![p] = "new"]
           /\ keg' = [keg EXCEPT ![p]["new"] = IF @ = "none" THEN "whole" ELSE @]
           /\ \/ command' = [command EXCEPT !.formulas = @ \ {p}]
              \/ command' = [command EXCEPT !.formulas = @ \ {p}, !.failing = TRUE]
        \/ /\ recorded' = recorded
           /\ command' = [command EXCEPT !.formulas = @ \ {p}, !.failing = TRUE]
           /\ \/ keg[p]["new"] = "none" /\ keg' = [keg EXCEPT ![p]["new"] = "torn"]
              \/ keg' = [keg EXCEPT ![p]["new"] = "none"]
              \/ keg' = keg
    BY DEF InstallItem
  <1>2. PICK v \in {"none", "torn", "whole"} : keg' \in {keg, [keg EXCEPT ![p]["new"] = v]}
    <2>1. CASE keg' = [keg EXCEPT ![p]["new"] = IF @ = "none" THEN "whole" ELSE @]
      <3>1. keg' = [keg EXCEPT ![p]["new"] = IF keg[p]["new"] = "none" THEN "whole" ELSE keg[p]["new"]]
        BY <2>1
      <3>2. keg[p]["new"] \in {"none", "torn", "whole"}
        BY <1>0 DEF CommandsTypeOK
      <3>3. CASE keg[p]["new"] = "none"
        BY <3>1, <3>3
      <3>4. CASE keg[p]["new"] # "none"
        BY <3>1, <3>2, <3>4
      <3> QED BY <3>3, <3>4
    <2>2. CASE keg' = [keg EXCEPT ![p]["new"] = "torn"]
      BY <2>2
    <2>3. CASE keg' = [keg EXCEPT ![p]["new"] = "none"]
      BY <2>3
    <2>4. CASE keg' = keg
      BY <2>4
    <2> QED BY <1>1, <2>1, <2>2, <2>3, <2>4
  <1>3. /\ recorded' \in [Packages -> {"none", "old", "new"}]
        /\ keg' \in [Packages -> [{"old", "new"} -> {"none", "torn", "whole"}]]
        /\ \A q \in Packages \ {p} : recorded'[q] = recorded[q] /\ keg'[q] = keg[q]
    BY <1>0, <1>1, <1>2, OthersAsBefore
  <1>4. /\ command' \in CommandType
        /\ command'.name = command.name /\ command'.at = "items" /\ command.at = "items"
        /\ command'.rest = command.rest /\ command'.casks = command.casks
        /\ command'.formulas = command.formulas \ {p} /\ p \in command.formulas
        /\ atStart' = atStart /\ atStart \subseteq Packages
        /\ command.failing => command'.failing
    <2>1. command \in CommandType /\ atStart \subseteq Packages
      BY <1>0 DEF CommandsTypeOK
    <2>2. command.at = "items" /\ p \in command.formulas /\ atStart' = atStart
      BY DEF InstallItem
    <2>3. \/ command' = [command EXCEPT !.formulas = command.formulas \ {p}]
          \/ command' = [command EXCEPT !.formulas = command.formulas \ {p}, !.failing = TRUE]
      BY <1>1
    <2>4. CASE command' = [command EXCEPT !.formulas = command.formulas \ {p}]
      BY <2>1, <2>2, <2>4 DEF CommandType
    <2>5. CASE command' = [command EXCEPT !.formulas = command.formulas \ {p}, !.failing = TRUE]
      BY <2>1, <2>2, <2>5 DEF CommandType
    <2> QED BY <2>3, <2>4, <2>5
  <1>5. command'.failing \/ (recorded'[p] = "new" /\ keg'[p]["new"] # "none")
    <2>1. CASE command' = [command EXCEPT !.formulas = @ \ {p}, !.failing = TRUE]
      BY <1>0, <2>1 DEF CommandType
    <2>2. CASE /\ recorded' = [recorded EXCEPT ![p] = "new"]
               /\ keg' = [keg EXCEPT ![p]["new"] = IF @ = "none" THEN "whole" ELSE @]
      BY <1>0, <2>2 DEF CommandsTypeOK
    <2> QED BY <1>1, <2>1, <2>2
  <1>6. CommandsTypeOK' /\ ClaimsAreTrue'
    BY <1>3, <1>4 DEF InstallItem, CommandInv, CommandsTypeOK, CommandType, ClaimsAreTrue
  <1>7. \A q \in Packages \ {p} : /\ Whole(q)' <=> Whole(q)
                                  /\ Stray(q)' <=> Stray(q)
                                  /\ IsCurrent(q)' <=> IsCurrent(q)
    BY <1>3 DEF Whole, Stray, IsCurrent
  <1>8. StepFits' /\ MigratedFit' /\ ItemsFit'
    BY <1>4, <1>7, <1>0 DEF CommandInv, StepFits, MigratedFit, ItemsFit, CommandType
  \* A package that was whole and had nothing in its way stays whole, or is replaced.
  <1>9. Whole(p) /\ ~Stray(p) => Whole(p)'
    <2> SUFFICES ASSUME Whole(p), ~Stray(p) PROVE Whole(p)'
      OBVIOUS
    <2>1. recorded[p] = "old" /\ keg[p]["old"] = "whole" /\ keg[p]["new"] = "none"
      BY <1>0, <1>4 DEF Whole, Stray, CommandInv, ItemsFit, IsCurrent, CommandsTypeOK
    <2>2. CASE recorded' = recorded
      BY <1>0, <1>2, <2>1, <2>2 DEF Whole, CommandsTypeOK
    <2>3. CASE /\ recorded' = [recorded EXCEPT ![p] = "new"]
               /\ keg' = [keg EXCEPT ![p]["new"] = IF @ = "none" THEN "whole" ELSE @]
      BY <1>0, <2>1, <2>3 DEF Whole, CommandsTypeOK
    <2> QED BY <1>1, <2>2, <2>3
  <1>10. KeptFit'
    <2> SUFFICES ASSUME command.name \in Keeping, NEW q \in atStart
                 PROVE  Whole(q)' /\ (Ahead(q)' => ~Stray(q)')
      BY <1>4 DEF KeptFit
    <2>1. Whole(q) /\ (Ahead(q) => ~Stray(q))
      BY DEF CommandInv, KeptFit
    <2>2. CASE q = p
      <3>1. ~Ahead(p)'
        BY <1>0, <1>4 DEF Ahead, CommandInv, StepFits
      <3> QED BY <1>4, <1>9, <2>1, <2>2, <3>1 DEF Ahead
    <2>3. CASE q # p
      BY <1>4, <1>7, <2>1, <2>3 DEF Ahead
    <2> QED BY <2>2, <2>3
  <1>11. ReinstallFits'
    <2> SUFFICES ASSUME command.name = "reinstall" PROVE ReinstallFits'
      BY <1>4 DEF ReinstallFits
    <2>1. PICK q \in Packages : AtPackage(q)
      BY <1>4 DEF CommandInv, ReinstallFits
    <2>2. q = p
      BY <1>4, <2>1 DEF AtPackage
    <2>3. command'.formulas \cup command'.casks = {}
      BY <1>4, <2>1, <2>2 DEF AtPackage, CommandInv, StepFits
    <2>4. Lost' \subseteq {p}
      BY <1>4, <1>7, <2>1, <2>2 DEF AtPackage, Lost
    <2>5. ~command'.failing => Lost' = {}
      <3> SUFFICES ASSUME ~command'.failing, p \in atStart PROVE Whole(p)'
        BY <1>4, <2>4 DEF Lost
      <3>1. Gone(p)
        BY <1>4, <2>1, <2>2 DEF AtPackage
      <3>2. /\ recorded' = [recorded EXCEPT ![p] = "new"]
            /\ keg' = [keg EXCEPT ![p]["new"] = IF @ = "none" THEN "whole" ELSE @]
        BY <1>0, <1>1 DEF CommandType
      <3> QED BY <1>0, <3>1, <3>2 DEF Gone, Whole, CommandsTypeOK
    <2>6. AtPackage(p)'
      BY <1>4, <2>1, <2>2, <2>3, <2>4, <2>5 DEF AtPackage
    <2>7. \A r \in atStart' \cap command'.rest : Whole(r)' /\ ~Stray(r)'
      BY <1>4, <1>7, <2>1, <2>2 DEF CommandInv, ReinstallFits, AtPackage
    <2> QED BY <1>4, <2>6, <2>7 DEF ReinstallFits
  <1> QED BY <1>6, <1>8, <1>10, <1>11 DEF CommandInv

LEMMA WholeIsInstalled ==
    ASSUME CommandsTypeOK, NEW p \in Packages, Whole(p)
    PROVE  IsInstalled(p) /\ ~Gone(p)
  BY DEF CommandsTypeOK, Whole, IsInstalled, Gone

LEMMA GoneIsNotInstalled ==
    ASSUME NEW p \in Packages, Gone(p)
    PROVE  ~IsInstalled(p)
  BY DEF Gone, IsInstalled

\* A cask that is installed is passed over.
LEMMA SkipCaskKeeps ==
    ASSUME CommandInv, NEW p \in Packages, command.at = "casks", p \in command.casks,
           IsInstalled(p), command' = [command EXCEPT !.casks = @ \ {p}],
           UNCHANGED <<recorded, keg, brew, claimed, atStart>>
    PROVE  CommandInv'
  <1>0. command \in CommandType /\ CommandsTypeOK
    BY DEF CommandInv, CommandsTypeOK, CommandType
  <1>1. /\ command' \in CommandType
        /\ command'.name = command.name /\ command'.at = "casks"
        /\ command'.rest = command.rest /\ command'.casks = command.casks \ {p}
        /\ command'.formulas = command.formulas /\ command'.failing = command.failing
    BY <1>0 DEF CommandType
  <1>2. CommandsTypeOK' /\ ClaimsAreTrue'
    BY <1>1 DEF CommandInv, CommandsTypeOK, CommandType, ClaimsAreTrue
  <1>3. StepFits' /\ MigratedFit' /\ ItemsFit'
    BY <1>1 DEF CommandInv, StepFits, MigratedFit, ItemsFit
  <1>4. KeptFit'
    BY <1>1 DEF CommandInv, KeptFit, Ahead, Whole, Stray
  <1>5. ReinstallFits'
    BY <1>1, GoneIsNotInstalled, ReinstallMoves DEF CommandInv, StepFits
  <1> QED BY <1>2, <1>3, <1>4, <1>5 DEF CommandInv

\* A cask that is not installed is tried: only it changes, and it was not there at
\* the start, unless a reinstall has removed it.
LEMMA TriedCask ==
    ASSUME CommandInv, NEW p \in Packages, command.at = "casks", p \in command.casks,
           ~IsInstalled(p), NEW v \in {"none", "whole"}, keg' = [keg EXCEPT ![p]["new"] = v],
           recorded' = recorded \/ (recorded' = [recorded EXCEPT ![p] = "new"] /\ v = "whole"),
           UNCHANGED <<brew, claimed, atStart>>, command' \in CommandType
    PROVE  /\ CommandsTypeOK' /\ ClaimsAreTrue'
           /\ \A q \in Packages \ {p} : recorded'[q] = recorded[q] /\ keg'[q] = keg[q]
           /\ \A q \in Packages \ {p} : Whole(q)' <=> Whole(q)
           /\ \A q \in Packages \ {p} : Stray(q)' <=> Stray(q)
           /\ p \in atStart => command.name = "reinstall"
  <1>0. CommandsTypeOK
    BY DEF CommandInv
  <1>1. /\ recorded' \in [Packages -> {"none", "old", "new"}]
        /\ keg' \in [Packages -> [{"old", "new"} -> {"none", "torn", "whole"}]]
        /\ \A q \in Packages \ {p} : recorded'[q] = recorded[q] /\ keg'[q] = keg[q]
    BY <1>0, OthersAsBefore
  <1>2. CommandsTypeOK' /\ ClaimsAreTrue'
    BY <1>0, <1>1 DEF CommandInv, CommandsTypeOK, CommandType, ClaimsAreTrue
  <1>3. /\ \A q \in Packages \ {p} : Whole(q)' <=> Whole(q)
        /\ \A q \in Packages \ {p} : Stray(q)' <=> Stray(q)
    BY <1>1 DEF Whole, Stray
  <1>4. p \in atStart => command.name = "reinstall"
    BY <1>0, WholeIsInstalled DEF CommandInv, KeptFit, StepFits
  <1> QED BY <1>1, <1>2, <1>3, <1>4

LEMMA InstallCaskKeeps ==
    ASSUME CommandInv, NEW p \in Packages, command.at = "casks", p \in command.casks,
           ~IsInstalled(p), recorded' = [recorded EXCEPT ![p] = "new"],
           keg' = [keg EXCEPT ![p]["new"] = "whole"],
           command' = [command EXCEPT !.casks = @ \ {p}],
           UNCHANGED <<brew, claimed, atStart>>
    PROVE  CommandInv'
  <1>0. command \in CommandType /\ CommandsTypeOK
    BY DEF CommandInv, CommandsTypeOK, CommandType
  <1>1. /\ command' \in CommandType
        /\ command'.name = command.name /\ command'.at = "casks"
        /\ command'.rest = command.rest /\ command'.casks = command.casks \ {p}
        /\ command'.formulas = command.formulas /\ command'.failing = command.failing
    BY <1>0 DEF CommandType
  <1>2. /\ CommandsTypeOK' /\ ClaimsAreTrue'
        /\ \A q \in Packages \ {p} : Whole(q)' <=> Whole(q)
        /\ \A q \in Packages \ {p} : Stray(q)' <=> Stray(q)
        /\ p \in atStart => command.name = "reinstall"
    BY <1>1, TriedCask
  <1>3. StepFits' /\ MigratedFit' /\ ItemsFit'
    BY <1>1 DEF CommandInv, StepFits, MigratedFit, ItemsFit
  <1>4. KeptFit'
    <2> SUFFICES ASSUME command.name \in Keeping, NEW q \in atStart
                 PROVE  Whole(q)' /\ (Ahead(q)' => ~Stray(q)')
      BY <1>1 DEF KeptFit
    <2>1. q \in Packages \ {p}
      BY <1>0, <1>2 DEF Keeping, CommandsTypeOK
    <2> QED BY <1>1, <1>2, <2>1 DEF CommandInv, KeptFit, Ahead
  <1>5. ReinstallFits'
    <2> SUFFICES ASSUME command.name = "reinstall" PROVE ReinstallFits'
      BY <1>1 DEF ReinstallFits
    <2>1. PICK q \in Packages : AtPackage(q)
      BY DEF CommandInv, ReinstallFits
    <2>2. q = p
      BY <2>1 DEF AtPackage
    <2>3. Whole(p)'
      BY <1>0 DEF Whole, CommandsTypeOK
    <2>4. Lost' = {}
      BY <1>0, <1>2, <2>1, <2>2, <2>3 DEF AtPackage, Lost, CommandsTypeOK
    <2>5. AtPackage(p)'
      BY <1>1, <2>1, <2>2, <2>4 DEF AtPackage, CommandInv, StepFits
    <2>6. \A r \in atStart' \cap command'.rest : Whole(r)' /\ ~Stray(r)'
      BY <1>0, <1>1, <1>2, <2>1, <2>2 DEF CommandInv, ReinstallFits, AtPackage, CommandsTypeOK
    <2> QED BY <1>1, <2>5, <2>6 DEF ReinstallFits
  <1> QED BY <1>2, <1>3, <1>4, <1>5 DEF CommandInv

\* A cask that fails: what the command does next, the packages as TriedCask says.
LEMMA FailedCaskKeeps ==
    ASSUME CommandInv, NEW p \in Packages, command.at = "casks", p \in command.casks,
           ~IsInstalled(p), recorded' = recorded, keg' = [keg EXCEPT ![p]["new"] = "none"],
           \/ command.name = "migrate" /\ command' = [command EXCEPT !.casks = @ \ {p}]
           \/ command.name # "migrate" /\ Done(TRUE)
           \/ command.name # "migrate" /\ command' = [command EXCEPT !.force = TRUE],
           UNCHANGED <<brew, claimed, atStart>>
    PROVE  CommandInv'
  <1>0. command \in CommandType /\ CommandsTypeOK
    BY DEF CommandInv, CommandsTypeOK, CommandType
  <1>1. \/ command' = NoCommand
        \/ /\ command' \in CommandType
           /\ command'.name = command.name /\ command'.at = "casks"
           /\ command'.rest = command.rest /\ command'.casks \subseteq command.casks
           /\ command.name # "migrate" => command'.casks = command.casks
           /\ command'.formulas = command.formulas /\ command'.failing = command.failing
    <2>1. CASE command' = [command EXCEPT !.casks = @ \ {p}] /\ command.name = "migrate"
      BY <1>0, <2>1 DEF CommandType
    <2>2. CASE command' = [command EXCEPT !.force = TRUE]
      BY <1>0, <2>2 DEF CommandType
    <2>3. CASE command.name # "migrate" /\ Done(TRUE)
      BY <2>3 DEF Done
    <2> QED BY <2>1, <2>2, <2>3
  <1>2. command' \in CommandType
    BY <1>1, NoCommandFits
  <1>3. /\ CommandsTypeOK' /\ ClaimsAreTrue'
        /\ \A q \in Packages \ {p} : recorded'[q] = recorded[q] /\ keg'[q] = keg[q]
        /\ \A q \in Packages \ {p} : Whole(q)' <=> Whole(q)
        /\ \A q \in Packages \ {p} : Stray(q)' <=> Stray(q)
        /\ p \in atStart => command.name = "reinstall"
    BY <1>2, TriedCask
  <1>4. CASE command' = NoCommand
    BY <1>3, <1>4, Ended
  <1>5. CASE command' # NoCommand
    <2>1. StepFits' /\ MigratedFit' /\ ItemsFit'
      BY <1>1, <1>5 DEF CommandInv, StepFits, MigratedFit, ItemsFit
    <2>2. KeptFit'
      <3> SUFFICES ASSUME command.name \in Keeping, NEW q \in atStart
                   PROVE  Whole(q)' /\ (Ahead(q)' => ~Stray(q)')
        BY <1>1, <1>5 DEF KeptFit
      <3>1. q \in Packages \ {p}
        BY <1>0, <1>3 DEF Keeping, CommandsTypeOK
      <3> QED BY <1>1, <1>3, <1>5, <3>1 DEF CommandInv, KeptFit, Ahead
    <2>3. ReinstallFits'
      <3> SUFFICES ASSUME command.name = "reinstall" PROVE ReinstallFits'
        BY <1>1, <1>5 DEF ReinstallFits
      <3>1. PICK q \in Packages : AtPackage(q)
        BY DEF CommandInv, ReinstallFits
      <3>2. q = p
        BY <3>1 DEF AtPackage
      <3>3. Lost' \subseteq {p}
        BY <1>0, <1>3, <3>1, <3>2 DEF AtPackage, Lost, CommandsTypeOK
      <3>4. p \in atStart => Gone(p)'
        BY <1>0, <3>1, <3>2 DEF AtPackage, Gone, CommandsTypeOK
      <3>5. AtPackage(p)'
        BY <1>1, <1>5, <3>1, <3>2, <3>3, <3>4 DEF AtPackage
      <3>6. \A r \in atStart' \cap command'.rest : Whole(r)' /\ ~Stray(r)'
        BY <1>0, <1>1, <1>3, <1>5, <3>1, <3>2
        DEF CommandInv, ReinstallFits, AtPackage, CommandsTypeOK
      <3> QED BY <1>1, <1>5, <3>5, <3>6 DEF ReinstallFits
    <2> QED BY <1>3, <2>1, <2>2, <2>3 DEF CommandInv
  <1> QED BY <1>4, <1>5

LEMMA InstallOneCaskKeeps ==
    ASSUME CommandInv, NEW p \in Packages, InstallOneCask(p)
    PROVE  CommandInv'
  <1>1. CASE /\ IsInstalled(p) /\ command' = [command EXCEPT !.casks = @ \ {p}]
             /\ UNCHANGED <<recorded, keg>>
    BY <1>1, SkipCaskKeeps DEF InstallOneCask
  <1>2. CASE /\ ~IsInstalled(p)
             /\ recorded' = [recorded EXCEPT ![p] = "new"]
             /\ keg' = [keg EXCEPT ![p]["new"] = "whole"]
             /\ command' = [command EXCEPT !.casks = @ \ {p}]
    BY <1>2, InstallCaskKeeps DEF InstallOneCask
  <1>3. CASE /\ ~IsInstalled(p) /\ recorded' = recorded
             /\ keg' = [keg EXCEPT ![p]["new"] = "none"]
             /\ \/ command.name = "migrate" /\ command' = [command EXCEPT !.casks = @ \ {p}]
                \/ command.name # "migrate" /\ Done(TRUE)
                \/ command.name # "migrate" /\ command' = [command EXCEPT !.force = TRUE]
    BY <1>3, FailedCaskKeeps DEF InstallOneCask
  <1> QED BY <1>1, <1>2, <1>3 DEF InstallOneCask

-----------------------------------------------------------------------------
(* Homebrew.                                                               *)

\* What Homebrew gives up was asked for; what is reported as gone is.
LEMMA BrewUninstallIsTrue ==
    ASSUME CommandInv, NEW S \in SUBSET Packages, NEW shown \in SUBSET Packages,
           BrewUninstall(S, shown), \A p \in S \ shown : PackageKind[p] = "tap"
    PROVE  /\ brew' \subseteq brew /\ brew \ brew' \subseteq S
           /\ brew' \subseteq Packages /\ claimed' \subseteq Packages
           /\ ClaimsAreTrue'
  BY DEF BrewUninstall, CommandInv, CommandsTypeOK, ClaimsAreTrue

LEMMA UninstallFormulasKeeps ==
    ASSUME CommandInv, UninstallFormulas
    PROVE  CommandInv' /\ GivenUpAreHere
  <1> DEFINE S == command.rest \cap Formulae
             shown == {p \in Formulae : PackageKind[p] = "core"}
  <1>0. command \in CommandType /\ CommandsTypeOK
    BY DEF CommandInv, CommandsTypeOK, CommandType
  <1>1. \A p \in S \ shown : PackageKind[p] = "tap"
    BY CommandsAssumption DEF Formulae
  <1>2. S \in SUBSET Packages /\ shown \in SUBSET Packages
    BY <1>0 DEF CommandType, Formulae
  <1>3. /\ brew' \subseteq brew /\ brew \ brew' \subseteq S
        /\ brew' \subseteq Packages /\ claimed' \subseteq Packages /\ ClaimsAreTrue'
    BY <1>1, <1>2, BrewUninstallIsTrue DEF UninstallFormulas
  <1>4. /\ command' \in CommandType
        /\ command'.name = command.name /\ command'.at = "brewcasks"
        /\ command'.rest = command.rest /\ command'.casks = command.casks
        /\ command'.formulas = command.formulas /\ command'.failing = command.failing
    BY <1>0 DEF CommandType, CommandSteps, UninstallFormulas
  <1>5. command.name = "migrate"
    BY DEF UninstallFormulas, CommandInv, StepFits
  <1>6. CommandsTypeOK'
    BY <1>3, <1>4, <1>0 DEF UninstallFormulas, CommandsTypeOK, CommandType
  <1>7. StepFits' /\ MigratedFit' /\ ItemsFit' /\ ReinstallFits'
    BY <1>4, <1>5 DEF UninstallFormulas, CommandInv, StepFits, MigratedFit, ItemsFit,
                      ReinstallFits, Whole, Stray
  <1>8. KeptFit'
    BY <1>4, <1>5 DEF UninstallFormulas, CommandInv, KeptFit, Keeping, Ahead, Whole, Stray
  <1>9. GivenUpAreHere
    BY <1>3 DEF GivenUpAreHere, UninstallFormulas, CommandInv, MigratedFit
  <1> QED BY <1>3, <1>6, <1>7, <1>8, <1>9 DEF CommandInv

LEMMA UninstallBrewCasksKeeps ==
    ASSUME CommandInv, UninstallBrewCasks
    PROVE  CommandInv' /\ GivenUpAreHere
  <1> DEFINE S == command.rest \cap CaskPackages
  <1>0. command \in CommandType /\ CommandsTypeOK
    BY DEF CommandInv, CommandsTypeOK, CommandType
  <1>1. S \in SUBSET Packages /\ CaskPackages \in SUBSET Packages
    BY <1>0 DEF CommandType, CaskPackages
  <1>2. /\ brew' \subseteq brew /\ brew \ brew' \subseteq S
        /\ brew' \subseteq Packages /\ claimed' \subseteq Packages /\ ClaimsAreTrue'
    BY <1>1, BrewUninstallIsTrue DEF UninstallBrewCasks
  <1>3. CommandsTypeOK'
    BY <1>0, <1>2, NoCommandFits DEF UninstallBrewCasks, CommandsTypeOK, CommandType
  <1>4. GivenUpAreHere
    BY <1>2 DEF GivenUpAreHere, UninstallBrewCasks, CommandInv, MigratedFit
  <1> QED BY <1>2, <1>3, <1>4, Ended DEF UninstallBrewCasks

LEMMA UserBrewsKeeps ==
    ASSUME CommandInv, NEW p \in Packages, UserBrews(p)
    PROVE  CommandInv' /\ brew \ brew' = {}
  <1>1. command.name = "none"
    BY DEF UserBrews, CommandInv, StepFits
  <1>2. CommandsTypeOK' /\ ClaimsAreTrue'
    BY DEF UserBrews, CommandInv, CommandsTypeOK, ClaimsAreTrue
  <1>3. StepFits' /\ MigratedFit' /\ KeptFit' /\ ItemsFit' /\ ReinstallFits'
    BY <1>1 DEF UserBrews, CommandInv, StepFits, MigratedFit, KeptFit, ItemsFit, ReinstallFits,
                Keeping
  <1> QED BY <1>2, <1>3 DEF CommandInv, UserBrews

LEMMA ReleaseKeeps ==
    ASSUME CommandInv, NEW p \in Packages, Release(p)
    PROVE  CommandInv' /\ brew' = brew
  <1>1. command.name = "none"
    BY DEF Release, CommandInv, StepFits
  <1>2. [old |-> keg[p]["new"], new |-> "none"] \in [{"old", "new"} -> {"none", "torn", "whole"}]
    BY DEF CommandInv, CommandsTypeOK
  <1>3. CommandsTypeOK' /\ ClaimsAreTrue'
    BY <1>2 DEF Release, CommandInv, CommandsTypeOK, ClaimsAreTrue
  <1>4. StepFits' /\ MigratedFit' /\ KeptFit' /\ ItemsFit' /\ ReinstallFits'
    BY <1>1 DEF Release, CommandInv, StepFits, MigratedFit, KeptFit, ItemsFit, ReinstallFits,
                Keeping
  <1> QED BY <1>3, <1>4 DEF CommandInv, Release

LEMMA BeginAnyKeeps ==
    ASSUME CommandInv, NEW S \in SUBSET Packages,
           BeginInstall(S) \/ BeginUpgrade(S) \/ BeginReinstall(S) \/ BeginBundle(S)
           \/ BeginUninstall(S)
    PROVE  CommandInv' /\ brew' = brew
  <1>0. /\ S \cap Formulae \in SUBSET Packages /\ S \cap CaskPackages \in SUBSET Packages
        /\ (S \cap Formulae) \cap (S \cap CaskPackages) = {}
        /\ {"next", "plan"} \subseteq CommandSteps
        /\ {"install", "upgrade", "reinstall", "bundle", "uninstall"} \subseteq CommandNames \ {"none"}
        /\ {"install", "upgrade"} \subseteq Keeping \ {"bundle"}
    BY DEF Formulae, CaskPackages, CommandSteps, CommandNames, Keeping
  <1>1. CASE BeginInstall(S)
    BY <1>0, <1>1, BeginKeeps DEF BeginInstall
  <1>2. CASE BeginUpgrade(S)
    BY <1>0, <1>2, BeginKeeps DEF BeginUpgrade
  <1>3. CASE BeginReinstall(S)
    BY <1>0, <1>3, BeginKeeps DEF BeginReinstall
  <1>4. CASE BeginBundle(S)
    BY <1>0, <1>4, BeginKeeps DEF BeginBundle
  <1>5. CASE BeginUninstall(S)
    BY <1>0, <1>5, BeginKeeps DEF BeginUninstall
  <1> QED BY <1>1, <1>2, <1>3, <1>4, <1>5

LEMMA BeginRunKeeps ==
    ASSUME CommandInv, NEW p \in Packages, BeginRun(p)
    PROVE  CommandInv' /\ brew' = brew
  BY BeginKeeps DEF BeginRun, CommandSteps, CommandNames, Keeping

LEMMA BeginMigrateKeeps ==
    ASSUME CommandInv, BeginMigrate
    PROVE  CommandInv' /\ brew' = brew
  <1>1. /\ brew \ UnsupportedCasks \in SUBSET Packages /\ brew \cap Formulae \in SUBSET Packages
        /\ (brew \cap CaskPackages) \ UnsupportedCasks \in SUBSET Packages
        /\ (brew \cap Formulae) \cap ((brew \cap CaskPackages) \ UnsupportedCasks) = {}
    BY DEF CommandInv, CommandsTypeOK, Formulae, CaskPackages
  <1> QED BY <1>1, BeginKeeps DEF BeginMigrate, CommandSteps, CommandNames, Keeping

LEMMA StepKeeps ==
    ASSUME CommandInv, [CommandsNext]_commandVars
    PROVE  CommandInv' /\ GivenUpAreHere
  <1>0. brew' = brew => GivenUpAreHere
    BY DEF GivenUpAreHere
  <1>1. ASSUME NEW S \in SUBSET Packages \ {{}},
               BeginInstall(S) \/ BeginUpgrade(S) \/ BeginReinstall(S) \/ BeginBundle(S)
               \/ BeginUninstall(S)
        PROVE  CommandInv' /\ GivenUpAreHere
    BY <1>0, <1>1, BeginAnyKeeps
  <1>2. CASE BeginMigrate
    BY <1>0, <1>2, BeginMigrateKeeps
  <1>3. ASSUME NEW p \in Packages, BeginRun(p) \/ UserBrews(p) \/ Release(p)
        PROVE  CommandInv' /\ GivenUpAreHere
    BY <1>0, <1>3, BeginRunKeeps, UserBrewsKeeps, ReleaseKeeps DEF GivenUpAreHere
  <1>4. ASSUME NEW p \in Packages,
               \/ NextOfBundle(p) \/ NextOfReinstall(p) \/ NextOfUninstall(p)
               \/ InstallItem(p) \/ InstallOneCask(p)
        PROVE  CommandInv' /\ GivenUpAreHere
    <2>1. brew' = brew
      BY <1>4 DEF NextOfBundle, NextOfReinstall, NextOfUninstall, InstallItem, InstallOneCask
    <2> QED BY <1>0, <1>4, <2>1, NextOfBundleKeeps, NextOfReinstallKeeps, NextOfUninstallKeeps,
               InstallItemKeeps, InstallOneCaskKeeps
  <1>5. CASE PlanFormulas \/ ItemsEnd \/ CasksEnd \/ CheckMigrated
    <2>1. brew' = brew
      BY <1>5 DEF PlanFormulas, ItemsEnd, CasksEnd, CheckMigrated
    <2> QED BY <1>0, <1>5, <2>1, PlanFormulasKeeps, ItemsEndKeeps, CasksEndKeeps, CheckMigratedKeeps
  <1>6. CASE UninstallFormulas \/ UninstallBrewCasks
    BY <1>6, UninstallFormulasKeeps, UninstallBrewCasksKeeps
  <1>7. CASE UNCHANGED commandVars
    BY <1>7 DEF commandVars, CommandInv, CommandsTypeOK, StepFits, MigratedFit, ClaimsAreTrue,
                KeptFit, ItemsFit, ReinstallFits, Ahead, AtPackage, Lost, Gone, Whole, Stray,
                IsCurrent, GivenUpAreHere
  <1> QED BY <1>1, <1>2, <1>3, <1>4, <1>5, <1>6, <1>7 DEF CommandsNext, CommandStep

-----------------------------------------------------------------------------
(* The theorems.                                                           *)

THEOREM CommandInductive == CommandsSpec => []CommandInv
  <1>1. CommandInv /\ [CommandsNext]_commandVars => CommandInv'
    BY StepKeeps
  <1> QED BY <1>1, Initially, PTL DEF CommandsSpec

\* The types of the state of the commands: src/zb_cli/src/commands.
THEOREM CommandsTypeCorrect == CommandsSpec => []CommandsTypeOK
  <1>1. CommandInv => CommandsTypeOK
    BY DEF CommandInv
  <1> QED BY <1>1, CommandInductive, PTL

\* A failure of install, upgrade, bundle, run or migrate takes no package away that
\* was whole and alone before; a failure of reinstall at most the one it was at
\* (commands/reinstall.rs: uninstall, then install).
THEOREM FailuresCorrect == CommandsSpec => []FailuresLoseOneAtMost
  <1>1. ASSUME CommandInv PROVE FailuresLoseOneAtMost
    <2>1. command.name \in Keeping => Lost = {}
      BY <1>1 DEF CommandInv, KeptFit, Lost
    <2>2. command.name = "reinstall" => \E q \in Packages \cup {NoPackage} : Lost \subseteq {q}
      BY <1>1 DEF CommandInv, ReinstallFits, AtPackage
    <2>3. ASSUME NEW q, Lost \subseteq {q} PROVE Cardinality(Lost) <= 1
      <3>1. IsFiniteSet({q}) /\ Cardinality({q}) = 1
        BY FS_Singleton
      <3>2. IsFiniteSet(Lost) /\ Cardinality(Lost) <= Cardinality({q})
        BY <2>3, <3>1, FS_Subset
      <3> QED BY <3>1, <3>2
    <2>4. command.name = "reinstall" => Cardinality(Lost) <= 1
      BY <2>2, <2>3
    <2> QED BY <2>1, <2>4 DEF FailuresLoseOneAtMost, Keeping, Lost
  <1> QED BY <1>1, CommandInductive, PTL

\* A migration gives a package up in Homebrew only when its keg is here, and what it
\* reports as uninstalled from Homebrew is (commands/migrate.rs).
THEOREM MigrationCorrect == CommandsSpec => MigrationKeepsPackages
  <1>1. CommandInv /\ CommandInv' /\ [CommandsNext]_commandVars
        => [GivenUpAreHere /\ ClaimsAreTrue']_commandVars
    BY StepKeeps DEF CommandInv
  <1> QED BY <1>1, CommandInductive, PTL DEF CommandsSpec, MigrationKeepsPackages

-----------------------------------------------------------------------------
(* The closure: as many rounds as there are formulas reach all that can be *)
(* reached.                                                                *)

LEMMA PlanNumbers ==
    /\ IsFiniteSet(Formulas) /\ Cardinality(Formulas) \in Nat /\ Formulas \subseteq Nat
  <1>1. IsFiniteSet(Formulas) /\ Formulas = 1..Cardinality(Formulas)
    BY PlanAssumption
  <1>2. Cardinality(Formulas) \in Nat
    BY <1>1, FS_CardinalityType
  <1> QED BY <1>1, <1>2

LEMMA DocNeeds ==
    ASSUME NEW f \in Formulas, NEW doc \in Docs[f]
    PROVE  doc.deps \subseteq Formulas
  BY PlanAssumption

LEMMA WithDepsKnown ==
    ASSUME NEW S \in SUBSET DOMAIN known
    PROVE  WithDeps(S) \in SUBSET DOMAIN known
  BY DEF WithDeps, KnownDeps

ClosureFrom(n, f) == IF n = 0 THEN ClosureRoots ELSE WithDeps(f[n - 1])

LEMMA ClosureGrows ==
    ASSUME ClosureRoots \subseteq DOMAIN known
    PROVE  \E f \in [0..Cardinality(Formulas) -> SUBSET DOMAIN known] :
              /\ \A n \in 0..Cardinality(Formulas) : f[n] = ClosureFrom(n, f)
              /\ Closure = f[Cardinality(Formulas)]
  <1> DEFINE N == Cardinality(Formulas)
             D == SUBSET DOMAIN known
             G == [n \in Nat |-> [S \in D |-> WithDeps(S)]]
             Solves(f) == f = [n \in 0..N |-> ClosureFrom(n, f)]
             c == CHOOSE f : Solves(f)
  <1>1. N \in Nat /\ ClosureRoots \in D /\ G \in [Nat -> [D -> D]]
    BY PlanNumbers, WithDepsKnown
  <1>2. PICK f \in [0..N -> D] : Steps(f, ClosureRoots, G, N)
    <2> HIDE DEF N, D, G
    <2> QED BY <1>1, Iterates
  <1>3. Solves(f)
    <2>1. ASSUME NEW n \in 0..N, n # 0 PROVE G[n][f[n - 1]] = WithDeps(f[n - 1])
      <3>1. n - 1 \in 0..N
        BY <1>1, <2>1
      <3>2. f[n - 1] \in D
        BY <1>2, <3>1
      <3> HIDE DEF D
      <3> QED BY <3>2
    <2> HIDE DEF G
    <2>2. \A n \in 0..N : f[n] = ClosureFrom(n, f)
      <3>1. \A n \in 0..N : n # 0 => n \in 1..N
        BY <1>1
      <3> QED BY <1>2, <2>1, <3>1 DEF ClosureFrom, Steps
    <2>3. f = [n \in 0..N |-> f[n]]
      OBVIOUS
    <2> QED BY <2>2, <2>3
  <1>4. Solves(c)
    <2> HIDE DEF Solves
    <2> QED BY <1>3
  <1>5. c \in [0..N -> D]
    <2> HIDE DEF c
    <2> DEFINE T == {m \in Nat : m \in 0..N => c[m] \in D}
    <2>0. ASSUME NEW n \in 0..N PROVE c[n] = ClosureFrom(n, c)
      BY <1>4
    <2>1. 0 \in T
      BY <1>1, <2>0 DEF ClosureFrom
    <2>2. ASSUME NEW m \in T PROVE m + 1 \in T
      <3> SUFFICES ASSUME m + 1 \in 0..N PROVE c[m + 1] \in D
        OBVIOUS
      <3>1. m \in 0..N /\ m + 1 # 0 /\ (m + 1) - 1 = m
        BY <1>1
      <3>2. c[m + 1] = WithDeps(c[m])
        BY <2>0, <3>1 DEF ClosureFrom
      <3> QED BY <3>1, <3>2, WithDepsKnown
    <2>3. T = Nat
      <3> HIDE DEF T
      <3>1. T \subseteq Nat
        BY DEF T
      <3> QED BY <2>1, <2>2, <3>1, AllNaturals
    <2>4. ASSUME NEW m \in 0..N PROVE c[m] \in D
      BY <2>3
    <2>5. c = [n \in 0..N |-> c[n]]
      BY <1>4
    <2> HIDE DEF D
    <2> QED BY <2>4, <2>5
  <1>6. Closure = c[N]
    <2>1. Closure = (CHOOSE h : h = [n \in 0..N |-> IF n = 0 THEN ClosureRoots ELSE WithDeps(h[n - 1])])[N]
      BY DEF Closure
    <2> QED BY <2>1 DEF ClosureFrom
  <1>7. \A n \in 0..N : c[n] = ClosureFrom(n, c)
    <2> HIDE DEF c
    <2> QED BY <1>4
  <1> HIDE DEF c, D
  <1> QED BY <1>5, <1>6, <1>7 DEF D

\* The closure has the roots and, with a formula, all its dependencies that are known.
LEMMA ClosureIsClosed ==
    ASSUME DOMAIN known \subseteq Formulas, ClosureRoots \subseteq DOMAIN known
    PROVE  /\ Closure \subseteq DOMAIN known /\ ClosureRoots \subseteq Closure
           /\ \A f \in Closure : KnownDeps(f) \subseteq Closure
  <1> DEFINE N == Cardinality(Formulas)
  <1>1. PICK f \in [0..N -> SUBSET DOMAIN known] :
            /\ \A n \in 0..N : f[n] = ClosureFrom(n, f)
            /\ Closure = f[N]
    BY ClosureGrows
  <1>2. N \in Nat /\ IsFiniteSet(Formulas)
    BY PlanNumbers
  <1>3. \A n \in 0..N : IsFiniteSet(f[n]) /\ Cardinality(f[n]) \in Nat /\ f[n] \subseteq DOMAIN known
    BY <1>1, <1>2, FS_Subset, FS_CardinalityType
  <1>4. f[0] = ClosureRoots /\ \A n \in 1..N : f[n] = WithDeps(f[n - 1])
    BY <1>1, <1>2 DEF ClosureFrom
  <1> DEFINE S == {n \in Nat : n \in 0..N => /\ ClosureRoots \subseteq f[n]
                                             /\ WithDeps(f[n]) = f[n] \/ Cardinality(f[n]) >= n}
  <1>5. 0 \in S
    BY <1>2, <1>3, <1>4
  <1>6. ASSUME NEW n \in S PROVE n + 1 \in S
    <2> SUFFICES ASSUME n + 1 \in 0..N
                 PROVE  /\ ClosureRoots \subseteq f[n + 1]
                        /\ WithDeps(f[n + 1]) = f[n + 1] \/ Cardinality(f[n + 1]) >= n + 1
      OBVIOUS
    <2>1. n \in 0..N /\ n + 1 \in 1..N /\ (n + 1) - 1 = n
      BY <1>2
    <2>2. f[n + 1] = WithDeps(f[n]) /\ f[n] \subseteq f[n + 1]
      BY <1>4, <2>1 DEF WithDeps
    <2>3. ClosureRoots \subseteq f[n] /\ (WithDeps(f[n]) = f[n] \/ Cardinality(f[n]) >= n)
      BY <2>1
    <2>4. CASE f[n + 1] = f[n]
      BY <2>2, <2>3, <2>4
    <2>5. CASE f[n + 1] # f[n]
      <3>1. Cardinality(f[n]) < Cardinality(f[n + 1])
        <4>1. Cardinality(f[n]) <= Cardinality(f[n + 1]) /\ Cardinality(f[n]) # Cardinality(f[n + 1])
          BY <1>3, <2>1, <2>2, <2>5, FS_Subset
        <4> QED BY <1>3, <2>1, <4>1
      <3>2. Cardinality(f[n]) >= n
        BY <2>2, <2>3, <2>5
      <3> QED BY <1>3, <2>1, <2>2, <2>3, <3>1, <3>2
    <2> QED BY <2>4, <2>5
  <1>7. S = Nat
    <2> HIDE DEF S
    <2>1. S \subseteq Nat
      BY DEF S
    <2> QED BY <1>5, <1>6, <2>1, AllNaturals
  <1>8. ClosureRoots \subseteq f[N] /\ (WithDeps(f[N]) = f[N] \/ Cardinality(f[N]) >= N)
    BY <1>2, <1>7
  <1>9. WithDeps(f[N]) = f[N]
    <2>1. CASE Cardinality(f[N]) >= N
      <3>1. f[N] \subseteq Formulas /\ N \in 0..N
        BY <1>2, <1>3
      <3>2. Cardinality(f[N]) <= N
        BY <1>2, <3>1, FS_Subset
      <3>3. Cardinality(f[N]) = N
        BY <1>2, <1>3, <2>1, <3>1, <3>2
      <3>4. f[N] = Formulas
        BY <1>2, <3>1, <3>3, FS_Subset
      <3>5. WithDeps(f[N]) \subseteq DOMAIN known
        BY <1>3, <3>1, WithDepsKnown
      <3> QED BY <3>4, <3>5 DEF WithDeps
    <2> QED BY <1>8, <2>1
  <1>10. \A g \in f[N] : KnownDeps(g) \subseteq f[N]
    BY <1>9 DEF WithDeps
  <1> HIDE DEF N, S
  <1> QED BY <1>1, <1>2, <1>3, <1>8, <1>10 DEF N

-----------------------------------------------------------------------------
(* The order.                                                              *)

Distinct(s) == \A i, j \in 1..Len(s) : s[i] = s[j] => i = j

\* What a member needs of T and P holds of is before it.
DepsFirst(s, T) ==
    \A i \in 1..Len(s) : \A d \in KnownDeps(s[i]) \cap T : \E j \in 1..i-1 : s[j] = d

LEMMA AppendIsDistinct ==
    ASSUME NEW S, NEW s \in Seq(S), Distinct(s), NEW e \in S, e \notin ToSet(s)
    PROVE  /\ Append(s, e) \in Seq(S) /\ Distinct(Append(s, e))
           /\ ToSet(Append(s, e)) = ToSet(s) \cup {e}
  <1> DEFINE t == Append(s, e)
  <1>1. t \in Seq(S) /\ Len(t) = Len(s) + 1 /\ Len(s) \in Nat /\ DOMAIN s = 1..Len(s) /\ DOMAIN t = 1..Len(t)
    OBVIOUS
  <1>2. t[Len(s) + 1] = e /\ \A i \in 1..Len(s) : t[i] = s[i]
    OBVIOUS
  <1>3. \A i \in 1..Len(s) : s[i] # e
    BY <1>1 DEF ToSet
  <1> HIDE DEF t
  <1>4. \A i \in 1..Len(t) : i \in 1..Len(s) \/ i = Len(s) + 1
    BY <1>1
  <1>5. Distinct(t)
    BY <1>1, <1>2, <1>3, <1>4 DEF Distinct
  <1>6. ToSet(t) = ToSet(s) \cup {e}
    BY <1>1, <1>2, <1>4 DEF ToSet
  <1> QED BY <1>1, <1>5, <1>6 DEF t

LEMMA AppendDepsFirst ==
    ASSUME NEW S, NEW s \in Seq(S), NEW T, DepsFirst(s, T), NEW e \in S,
           KnownDeps(e) \cap T \subseteq ToSet(s)
    PROVE  DepsFirst(Append(s, e), T)
  <1> DEFINE t == Append(s, e)
  <1>1. t \in Seq(S) /\ Len(t) = Len(s) + 1 /\ Len(s) \in Nat /\ DOMAIN s = 1..Len(s)
    OBVIOUS
  <1>2. t[Len(s) + 1] = e /\ \A i \in 1..Len(s) : t[i] = s[i]
    OBVIOUS
  <1> HIDE DEF t
  <1> SUFFICES ASSUME NEW i \in 1..Len(t), NEW d \in KnownDeps(t[i]) \cap T
               PROVE  \E j \in 1..i-1 : t[j] = d
    BY DEF DepsFirst, t
  <1>3. CASE i \in 1..Len(s)
    <2>1. t[i] = s[i]
      BY <1>2, <1>3
    <2>2. PICK j \in 1..i-1 : s[j] = d
      BY <1>3, <2>1 DEF DepsFirst
    <2>3. j \in 1..Len(s)
      BY <1>1, <1>3, <2>2
    <2> QED BY <1>2, <2>2, <2>3
  <1>4. CASE i = Len(s) + 1
    <2>1. t[i] = e /\ i - 1 = Len(s)
      BY <1>1, <1>2, <1>4
    <2>2. d \in ToSet(s)
      BY <2>1
    <2>3. PICK j \in 1..Len(s) : s[j] = d
      BY <1>1, <2>2 DEF ToSet
    <2> QED BY <1>2, <2>1, <2>3
  <1> QED BY <1>1, <1>3, <1>4

LEMMA FirstIsIn ==
    ASSUME NEW S, S \subseteq Nat, S # {}
    PROVE  First(S) \in S
  <1>1. \E f \in S : \A g \in S : f <= g
    BY LeastNatural
  <1> QED BY <1>1, Zenon DEF First

Ordered(S) == {s \in Seq(S) : Distinct(s) /\ DepsFirst(s, S)}

LEMMA OneMoreIsOrdered ==
    ASSUME NEW S, S \subseteq Nat, NEW s \in Ordered(S)
    PROVE  OneMore(S, s) \in Ordered(S)
  <1>1. CASE Ready(S, s) = {}
    BY <1>1 DEF OneMore
  <1>2. CASE Ready(S, s) # {}
    <2> DEFINE e == First(Ready(S, s))
    <2>1. e \in Ready(S, s)
      <3>1. Ready(S, s) \subseteq Nat
        BY DEF Ready
      <3> QED BY <1>2, <3>1, FirstIsIn
    <2> HIDE DEF e
    <2>2. e \in S /\ e \notin ToSet(s) /\ KnownDeps(e) \cap S \subseteq ToSet(s)
      BY <2>1 DEF Ready
    <2>3. s \in Seq(S) /\ Distinct(s) /\ DepsFirst(s, S)
      BY DEF Ordered
    <2>4. Append(s, e) \in Ordered(S)
      BY <2>2, <2>3, AppendIsDistinct, AppendDepsFirst DEF Ordered
    <2> QED BY <1>2, <2>4 DEF OneMore, e
  <1> QED BY <1>1, <1>2

LEMMA EmptyIsOrdered ==
    ASSUME NEW S
    PROVE  <<>> \in Ordered(S)
  BY DEF Ordered, Distinct, DepsFirst

OrderFrom(S, n, f) == IF n = 0 THEN <<>> ELSE OneMore(S, f[n - 1])

LEMMA OrderIsOrdered ==
    ASSUME NEW S, S \subseteq Nat, IsFiniteSet(S)
    PROVE  Order(S) \in Ordered(S)
  <1> DEFINE N == Cardinality(S)
             D == Ordered(S)
             G == [n \in Nat |-> [s \in D |-> OneMore(S, s)]]
             Solves(f) == f = [n \in 0..N |-> OrderFrom(S, n, f)]
             c == CHOOSE f : Solves(f)
  <1>1. N \in Nat /\ <<>> \in D /\ G \in [Nat -> [D -> D]]
    <2>1. \A s \in D : OneMore(S, s) \in D
      BY OneMoreIsOrdered
    <2>2. N \in Nat /\ <<>> \in D
      BY FS_CardinalityType, EmptyIsOrdered
    <2> HIDE DEF D
    <2> QED BY <2>1, <2>2
  <1>2. PICK f \in [0..N -> D] : Steps(f, <<>>, G, N)
    <2> HIDE DEF N, D, G
    <2> QED BY <1>1, Iterates
  <1>3. Solves(f)
    <2>1. ASSUME NEW n \in 0..N, n # 0 PROVE G[n][f[n - 1]] = OneMore(S, f[n - 1])
      <3>1. n - 1 \in 0..N /\ n \in Nat
        BY <1>1, <2>1
      <3>2. f[n - 1] \in D
        BY <1>2, <3>1
      <3> HIDE DEF D
      <3> QED BY <3>1, <3>2
    <2> HIDE DEF G
    <2>2. \A n \in 0..N : f[n] = OrderFrom(S, n, f)
      <3>1. \A n \in 0..N : n # 0 => n \in 1..N
        BY <1>1
      <3> QED BY <1>2, <2>1, <3>1 DEF OrderFrom, Steps
    <2>3. f = [n \in 0..N |-> f[n]]
      OBVIOUS
    <2> QED BY <2>2, <2>3
  <1>4. Solves(c)
    <2> HIDE DEF Solves
    <2> QED BY <1>3
  <1>5. c[N] \in D
    <2> HIDE DEF c
    <2>1. \A n \in 0..N : c[n] = OrderFrom(S, n, c)
      BY <1>4
    <2>2. c[0] \in D
      BY <1>1, <2>1 DEF OrderFrom
    <2>3. ASSUME NEW n \in 1..N, c[n - 1] \in D PROVE c[n] \in D
      <3>1. n \in 0..N /\ n # 0
        BY <1>1
      <3>2. c[n] = OneMore(S, c[n - 1])
        BY <2>1, <3>1 DEF OrderFrom
      <3> QED BY <2>3, <3>2, OneMoreIsOrdered
    <2> HIDE DEF D, N
    <2>4. \A n \in 0..N : c[n] \in D
      BY <1>1, <2>2, <2>3, Stays
    <2> QED BY <1>1, <2>4
  <1>6. Order(S) = c[N]
    <2>1. Order(S) = (CHOOSE h : h = [n \in 0..N |-> IF n = 0 THEN <<>> ELSE OneMore(S, h[n - 1])])[N]
      BY DEF Order
    <2> QED BY <2>1 DEF OrderFrom
  <1> QED BY <1>5, <1>6

\* An order of as many members as the set has has all of them.
LEMMA FullOrderHasAll ==
    ASSUME NEW S, S \subseteq Nat, IsFiniteSet(S), NEW s \in Ordered(S), Len(s) = Cardinality(S)
    PROVE  ToSet(s) = S
  <1>1. s \in Seq(S) /\ Distinct(s) /\ Len(s) \in Nat /\ DOMAIN s = 1..Len(s) /\ s \in [1..Len(s) -> S]
    BY DEF Ordered
  <1>2. IsInjective(s)
    BY <1>1 DEF Distinct, IsInjective
  <1>3. s \in Injection(1..Len(s), S)
    BY <1>1, <1>2 DEF Injection, IsInjective
  <1>4. IsFiniteSet(1..Len(s)) /\ Cardinality(1..Len(s)) = Cardinality(S)
    <2>1. 1 \in Int /\ Len(s) \in Int
      BY <1>1
    <2>2. IsFiniteSet(1..Len(s)) /\ Cardinality(1..Len(s)) = IF 1 > Len(s) THEN 0 ELSE Len(s) - 1 + 1
      BY <2>1, FS_Interval
    <2> QED BY <1>1, <2>2
  <1>5. s \in Surjection(1..Len(s), S)
    BY <1>3, <1>4, FS_Injection
  <1> QED BY <1>1, <1>5 DEF Surjection, ToSet

InstallFrom(s, i, f) ==
    IF i = 0 THEN <<>>
    ELSE IF NotCurrent(s[i]) THEN Append(f[i - 1], s[i]) ELSE f[i - 1]

\* What the first n of s leave to install.
Kept(s, n, t) ==
    /\ t \in Seq(ToSet(s)) /\ Distinct(t)
    /\ ToSet(t) = {f \in {s[i] : i \in 1..n} : NotCurrent(f)}
    /\ DepsFirst(t, {f \in ToSet(s) : NotCurrent(f)})

LEMMA KeepsOne ==
    ASSUME NEW S, NEW s \in Ordered(S), ToSet(s) = S, NEW n \in 1..Len(s), NEW t, Kept(s, n - 1, t)
    PROVE  Kept(s, n, IF NotCurrent(s[n]) THEN Append(t, s[n]) ELSE t)
  <1> DEFINE T == {f \in S : NotCurrent(f)}
             P(m) == {f \in {s[i] : i \in 1..m} : NotCurrent(f)}
  <1>1. s \in Seq(S) /\ Len(s) \in Nat /\ DOMAIN s = 1..Len(s) /\ Distinct(s) /\ DepsFirst(s, S)
    BY DEF Ordered
  <1>2. s[n] \in S
    BY <1>1
  <1>3. t \in Seq(S) /\ Distinct(t) /\ ToSet(t) = P(n - 1) /\ DepsFirst(t, T)
    BY DEF Kept
  <1>4. 1..n = 1..(n - 1) \cup {n}
    BY <1>1
  <1>5. CASE ~NotCurrent(s[n])
    <2>1. P(n) = P(n - 1)
      BY <1>4, <1>5
    <2> QED BY <1>3, <1>5, <2>1 DEF Kept
  <1>6. CASE NotCurrent(s[n])
    <2>1. P(n) = P(n - 1) \cup {s[n]}
      BY <1>4, <1>6
    <2>2. s[n] \notin ToSet(t)
      <3>1. \A i \in 1..(n - 1) : i \in 1..Len(s) /\ i # n
        BY <1>1
      <3>2. \A i \in 1..(n - 1) : s[i] # s[n]
        BY <1>1, <3>1 DEF Distinct
      <3> QED BY <1>3, <3>2
    <2>3. KnownDeps(s[n]) \cap T \subseteq ToSet(t)
      <3> SUFFICES ASSUME NEW d \in KnownDeps(s[n]) \cap T PROVE d \in P(n - 1)
        BY <1>3
      <3>1. PICK i \in 1..(n - 1) : s[i] = d
        BY <1>1 DEF DepsFirst
      <3> QED BY <3>1
    <2>4. Append(t, s[n]) \in Seq(S) /\ Distinct(Append(t, s[n]))
          /\ ToSet(Append(t, s[n])) = ToSet(t) \cup {s[n]}
      BY <1>2, <1>3, <2>2, AppendIsDistinct
    <2>5. DepsFirst(Append(t, s[n]), T)
      <3> HIDE DEF T
      <3> QED BY <1>2, <1>3, <2>3, AppendDepsFirst
    <2> HIDE DEF P
    <2>6. ToSet(Append(t, s[n])) = P(n)
      BY <1>3, <2>1, <2>4
    <2> QED BY <1>6, <2>4, <2>5, <2>6 DEF Kept, P
  <1> QED BY <1>5, <1>6

\* The items are those of an order that are not current, in its order.
LEMMA ToInstallKeeps ==
    ASSUME NEW S, NEW s \in Ordered(S), ToSet(s) = S
    PROVE  Kept(s, Len(s), ToInstall(s))
  <1> DEFINE N == Len(s)
             D == Seq(S)
             G == [n \in Nat |-> [t \in D |->
                     IF n \in 1..N /\ NotCurrent(s[n]) THEN Append(t, s[n]) ELSE t]]
             Solves(f) == f = [n \in 0..N |-> InstallFrom(s, n, f)]
             c == CHOOSE f : Solves(f)
  <1>1. N \in Nat /\ <<>> \in D /\ G \in [Nat -> [D -> D]]
    <2>1. s \in Seq(S) /\ N \in Nat /\ <<>> \in D
      BY DEF Ordered
    <2>2. \A n \in 1..N : s[n] \in S
      BY <2>1
    <2>3. \A t \in D, e \in S : Append(t, e) \in D
      OBVIOUS
    <2> HIDE DEF D, N
    <2> QED BY <2>1, <2>2, <2>3
  <1>2. PICK f \in [0..N -> D] : Steps(f, <<>>, G, N)
    <2> HIDE DEF N, D, G
    <2> QED BY <1>1, Iterates
  <1>3. Solves(f)
    <2>1. ASSUME NEW n \in 0..N, n # 0 PROVE G[n][f[n - 1]] = InstallFrom(s, n, f)
      <3>1. n - 1 \in 0..N /\ n \in 1..N /\ n \in Nat
        BY <1>1, <2>1
      <3>2. f[n - 1] \in D
        BY <1>2, <3>1
      <3> HIDE DEF D
      <3> QED BY <2>1, <3>1, <3>2 DEF InstallFrom
    <2> HIDE DEF G
    <2>2. \A n \in 0..N : f[n] = InstallFrom(s, n, f)
      <3>1. \A n \in 0..N : n # 0 => n \in 1..N
        BY <1>1
      <3> QED BY <1>2, <2>1, <3>1 DEF InstallFrom, Steps
    <2>3. f = [n \in 0..N |-> f[n]]
      OBVIOUS
    <2> QED BY <2>2, <2>3
  <1>4. Solves(c)
    <2> HIDE DEF Solves
    <2> QED BY <1>3
  <1>5. Kept(s, N, c[N])
    <2> HIDE DEF c
    <2> DEFINE T == {n \in Nat : n \in 0..N => Kept(s, n, c[n])}
    <2>1. \A n \in 0..N : c[n] = InstallFrom(s, n, c)
      BY <1>4
    <2>2. 0 \in T
      <3>1. c[0] = <<>>
        BY <1>1, <2>1 DEF InstallFrom
      <3>2. Kept(s, 0, <<>>)
        BY DEF Kept, Distinct, DepsFirst, ToSet
      <3> QED BY <3>1, <3>2
    <2>3. ASSUME NEW m \in T PROVE m + 1 \in T
      <3> SUFFICES ASSUME m + 1 \in 0..N PROVE Kept(s, m + 1, c[m + 1])
        OBVIOUS
      <3>1. m \in 0..N /\ m + 1 \in 1..N /\ (m + 1) - 1 = m /\ m + 1 # 0
        BY <1>1
      <3>2. c[m + 1] = IF NotCurrent(s[m + 1]) THEN Append(c[m], s[m + 1]) ELSE c[m]
        BY <2>1, <3>1 DEF InstallFrom
      <3>3. Kept(s, m, c[m])
        BY <3>1
      <3> HIDE DEF T
      <3>4. Kept(s, m + 1, IF NotCurrent(s[m + 1]) THEN Append(c[m], s[m + 1]) ELSE c[m])
        BY <3>1, <3>3, KeepsOne
      <3> QED BY <3>2, <3>4
    <2>4. T = Nat
      <3> HIDE DEF T
      <3>1. T \subseteq Nat
        BY DEF T
      <3> QED BY <2>2, <2>3, <3>1, AllNaturals
    <2> HIDE DEF N
    <2> QED BY <1>1, <2>4
  <1>6. ToInstall(s) = c[N]
    <2>1. ToInstall(s) = (CHOOSE h : h = [n \in 0..N |->
              IF n = 0 THEN <<>>
              ELSE IF NotCurrent(s[n]) THEN Append(h[n - 1], s[n]) ELSE h[n - 1]])[N]
      BY DEF ToInstall
    <2> QED BY <2>1 DEF InstallFrom
  <1> QED BY <1>5, <1>6

-----------------------------------------------------------------------------
(* The plan.                                                               *)

\* What a formula to install needs is known, to be fetched next, or has been
\* left out because the platform has nothing for it.
FetchFits ==
    ~ask.ignore =>
      \A f \in DOMAIN known :
        ask.only \/ NotCurrent(f) => known[f].deps \subseteq DOMAIN known \cup skipped \cup toFetch

PlanInv == PlanTypeOK /\ FetchFits /\ PlanIsSound

LEMMA PlanInitInv == PlanInit => PlanInv
  <1> SUFFICES ASSUME PlanInit PROVE PlanInv
    OBVIOUS
  <1>1. ask \in Asks /\ ask.roots \subseteq Formulas
    BY PlanAssumption DEF PlanInit
  <1>2. PlanTypeOK
    BY <1>1 DEF PlanInit, PlanTypeOK
  <1>3. FetchFits
    BY DEF PlanInit, FetchFits
  <1>4. PlanIsSound
    BY DEF PlanInit, PlanIsSound
  <1> QED BY <1>2, <1>3, <1>4 DEF PlanInv

LEMMA FetchKeepsPlanInv == PlanInv /\ FetchBatch => PlanInv'
  <1> SUFFICES ASSUME PlanInv, FetchBatch PROVE PlanInv'
    OBVIOUS
  <1>1. plan.result = "fetching" /\ ask' = ask /\ rowOf' = rowOf /\ plan' = plan
    BY DEF FetchBatch
  <1>2. PICK docs \in {d \in [toFetch -> UNION {Docs[f] : f \in toFetch}] :
                          \A f \in toFetch : d[f] \in Docs[f]} : Batch(docs)
    BY DEF FetchBatch
  <1> DEFINE nothing == {f \in toFetch : MethodOf(docs[f]) = "none"}
             useful  == toFetch \ nothing
             wanting == {f \in useful : ask.only \/ ~Current(f, docs[f])}
             next    == IF ask.ignore THEN {} ELSE UNION {docs[f].deps : f \in wanting}
  <1>3. /\ known' = [f \in DOMAIN known \cup useful |-> IF f \in useful THEN docs[f] ELSE known[f]]
        /\ skipped' = skipped \cup nothing
        /\ toFetch' = next \ (DOMAIN known \cup skipped \cup toFetch)
    BY <1>2 DEF Batch
  <1>4. PlanTypeOK /\ FetchFits
    BY DEF PlanInv
  <1>5. \A f \in toFetch : f \in Formulas /\ docs[f] \in Docs[f]
    BY <1>2, <1>4 DEF PlanTypeOK
  <1>6. next \subseteq Formulas
    BY <1>5, DocNeeds
  <1> HIDE DEF next, useful, nothing
  <1>7. nothing \subseteq toFetch /\ useful = toFetch \ nothing
    BY DEF nothing, useful
  <1>8. DOMAIN known' = DOMAIN known \cup useful
        /\ \A f \in DOMAIN known' : known'[f] = IF f \in useful THEN docs[f] ELSE known[f]
    BY <1>3
  <1>9. PlanTypeOK'
    BY <1>1, <1>3, <1>4, <1>5, <1>6, <1>7, <1>8 DEF PlanTypeOK
  <1>10. FetchFits'
    <2> SUFFICES ASSUME ~ask.ignore, NEW f \in DOMAIN known', ask.only \/ NotCurrent(f)'
                 PROVE  known'[f].deps \subseteq DOMAIN known' \cup skipped' \cup toFetch'
      BY <1>1 DEF FetchFits
    <2>1. DOMAIN known' \cup skipped' = DOMAIN known \cup skipped \cup toFetch
      BY <1>3, <1>7, <1>8
    <2>2. CASE f \in useful
      <3>1. known'[f] = docs[f]
        BY <1>8, <2>2
      <3>2. f \in wanting
        BY <1>1, <2>2, <3>1 DEF NotCurrent, Current, MethodOf
      <3>3. docs[f].deps \subseteq next
        BY <3>2 DEF next
      <3> QED BY <1>3, <2>1, <3>1, <3>3
    <2>3. CASE f \notin useful
      <3>1. f \in DOMAIN known /\ known'[f] = known[f]
        BY <1>8, <2>3
      <3>2. ask.only \/ NotCurrent(f)
        BY <1>1, <3>1 DEF NotCurrent, Current, MethodOf
      <3>3. known[f].deps \subseteq DOMAIN known \cup skipped \cup toFetch
        BY <1>4, <3>1, <3>2 DEF FetchFits
      <3> QED BY <2>1, <3>1, <3>3
    <2> QED BY <2>2, <2>3
  <1>11. PlanIsSound'
    BY <1>1 DEF PlanIsSound
  <1> QED BY <1>9, <1>10, <1>11 DEF PlanInv

LEMMA FailureKeepsPlanInv ==
    ASSUME PlanInv, NEW r \in {"error", "missing", "cycle"}, Fail(r),
           UNCHANGED <<ask, rowOf, known, skipped, toFetch>>
    PROVE  PlanInv'
  <1>1. plan'.result = r /\ plan'.items = <<>>
    BY DEF Fail
  <1>2. PlanTypeOK'
    BY <1>1 DEF PlanInv, PlanTypeOK
  <1>3. FetchFits'
    BY DEF PlanInv, FetchFits, NotCurrent, Current, MethodOf
  <1>4. PlanIsSound'
    BY <1>1 DEF PlanIsSound
  <1> QED BY <1>2, <1>3, <1>4 DEF PlanInv

LEMMA SelectedTag ==
    ASSUME NEW tags \in SUBSET Tags
    PROVE  SelectBottle(tags) \in Tags \cup {"none"}
  <1>1. CASE \E i \in DOMAIN PreferredTags : PreferredTags[i] \in tags
    <2> DEFINE I == {i \in DOMAIN PreferredTags : PreferredTags[i] \in tags}
    <2>1. I \subseteq Nat /\ I # {} /\ DOMAIN PreferredTags = 1..Len(PreferredTags)
          /\ Len(PreferredTags) \in Nat
      BY <1>1, PlanAssumption
    <2>2. PICK i \in I : \A j \in I : i <= j
      BY <2>1, LeastNatural
    <2>3. PreferredTags[i] \in tags /\ \A j \in 1..i-1 : PreferredTags[j] \notin tags
      <3>1. \A j \in 1..i-1 : j \in DOMAIN PreferredTags /\ ~(i <= j)
        BY <2>1, <2>2
      <3> QED BY <2>2, <3>1
    <2>4. SelectBottle(tags) \in tags
      BY <1>1, <2>2, <2>3, Zenon DEF SelectBottle
    <2> QED BY <2>4
  <1>2. CASE ~\E i \in DOMAIN PreferredTags : PreferredTags[i] \in tags
    BY <1>2 DEF SelectBottle
  <1> QED BY <1>1, <1>2

LEMMA PlannedIsSound ==
    ASSUME PlanInv, plan.result = "fetching", toFetch = {}, ask.roots \subseteq DOMAIN known,
           Len(Order(Closure)) = Cardinality(Closure),
           plan' = [result |-> "planned", items |-> ToInstall(Order(Closure))],
           UNCHANGED <<ask, rowOf, known, skipped, toFetch>>
    PROVE  PlanInv'
  <1> DEFINE C == Closure
             s == Order(C)
             items == ToInstall(s)
             T == {f \in C : NotCurrent(f)}
  <1>1. PlanTypeOK /\ FetchFits
    BY DEF PlanInv
  <1>2. DOMAIN known \subseteq Formulas /\ \A f \in DOMAIN known : known[f] \in Docs[f]
    BY <1>1 DEF PlanTypeOK
  <1>3. ClosureRoots \subseteq DOMAIN known
    BY DEF ClosureRoots, KnownDeps
  <1>4. C \subseteq DOMAIN known /\ ClosureRoots \subseteq C /\ \A f \in C : KnownDeps(f) \subseteq C
    BY <1>2, <1>3, ClosureIsClosed
  <1>5. C \subseteq Nat /\ C \subseteq Formulas /\ IsFiniteSet(C)
    BY <1>2, <1>4, PlanNumbers, FS_Subset
  <1>6. s \in Ordered(C) /\ ToSet(s) = C
    <2> HIDE DEF C
    <2>1. s \in Ordered(C)
      BY <1>5, OrderIsOrdered
    <2> QED BY <1>5, <2>1, FullOrderHasAll DEF C
  <1>7. Kept(s, Len(s), items)
    <2> HIDE DEF C, s
    <2> QED BY <1>6, ToInstallKeeps
  <1>8. items \in Seq(C) /\ Distinct(items) /\ ToSet(items) = T /\ DepsFirst(items, T)
    <2>1. C = {s[i] : i \in 1..Len(s)}
      <3> HIDE DEF C, s
      <3>1. s \in Seq(C)
        BY <1>6 DEF Ordered
      <3> QED BY <1>6, <3>1 DEF ToSet
    <2> HIDE DEF C, s, items
    <2> QED BY <1>6, <1>7, <2>1 DEF Kept
  <1> HIDE DEF C, s, items
  <1>9. plan'.result = "planned" /\ plan'.items = items
    BY DEF C, s, items
  <1>10. items \in Seq(Formulas) /\ DOMAIN items = 1..Len(items) /\ Len(items) \in Nat
    <2>1. items \in Seq(C) /\ DOMAIN items = 1..Len(items) /\ Len(items) \in Nat
      BY <1>8
    <2>2. \A i \in 1..Len(items) : items[i] \in C
      BY <2>1
    <2>3. \A i \in 1..Len(items) : items[i] \in Formulas
      BY <1>5, <2>2
    <2> QED BY <2>1, <2>3
  <1>11. PlanTypeOK'
    BY <1>1, <1>9, <1>10 DEF PlanTypeOK
  <1>12. FetchFits'
    BY <1>1 DEF FetchFits, NotCurrent, Current, MethodOf
  <1>13. \A f \in DOMAIN known : MethodOf(known[f]) \in Tags \cup {"none", "source"}
    <2> SUFFICES ASSUME NEW f \in DOMAIN known
                 PROVE  MethodOf(known[f]) \in Tags \cup {"none", "source"}
      OBVIOUS
    <2>1. known[f].tags \in SUBSET Tags
      BY <1>2, PlanAssumption
    <2> QED BY <2>1, SelectedTag DEF MethodOf
  <1>14. Tags \cap {"none", "no", "source", "old", "oldsource"} = {}
    BY PlanAssumption
  <1>15. \A i, j \in DOMAIN items : items[i] = items[j] => i = j
    BY <1>8, <1>10 DEF Distinct
  <1>16. ASSUME ~ask.ignore, NEW i \in DOMAIN items,
                NEW d \in known[items[i]].deps, d \notin {items[j] : j \in 1..i-1}, d \notin skipped
         PROVE  d \in DOMAIN known /\ Current(d, known[d])
    <2>1. items[i] \in T
      BY <1>8, <1>10 DEF ToSet
    <2>2. items[i] \in DOMAIN known /\ items[i] \in C /\ NotCurrent(items[i])
      BY <1>4, <2>1
    <2>3. d \in DOMAIN known
      <3>1. known[items[i]].deps \subseteq DOMAIN known \cup skipped \cup toFetch
        BY <1>1, <1>16, <2>2 DEF FetchFits
      <3> QED BY <1>16, <3>1
    <2>4. d \in KnownDeps(items[i])
      BY <1>16, <2>3 DEF KnownDeps
    <2>5. d \in C
      BY <1>4, <2>2, <2>4
    <2>6. d \notin T
      <3> SUFFICES ASSUME d \in T PROVE FALSE
        OBVIOUS
      <3>1. PICK j \in 1..i-1 : items[j] = d
        BY <1>8, <1>10, <2>4 DEF DepsFirst
      <3> QED BY <1>16, <3>1
    <2> QED BY <2>3, <2>5, <2>6 DEF NotCurrent
  <1>17. ASSUME ~ask.ignore, NEW i \in DOMAIN items
         PROVE  LET before == {items[j] : j \in 1..i-1}
                    doc    == known[items[i]]
                IN  /\ MissingDependencies(doc, before \cup Present) \subseteq skipped \cup doc.macos
                    /\ \A d \in doc.deps \ (before \cup skipped) : Current(d, known[d])
    <2>1. ASSUME NEW d \in known[items[i]].deps,
                 d \notin {items[j] : j \in 1..i-1}, d \notin skipped
          PROVE  d \in Present /\ Current(d, known[d])
      <3>1. d \in DOMAIN known /\ Current(d, known[d])
        BY <1>16, <1>17, <2>1
      <3>2. MethodOf(known[d]) # "no"
        BY <1>13, <1>14, <3>1
      <3>3. rowOf[d].row = MethodOf(known[d]) /\ rowOf[d].keg
        BY <3>1, Zenon DEF Current
      <3>4. d \in Formulas
        BY <1>2, <3>1
      <3> QED BY <3>1, <3>2, <3>3, <3>4, Zenon DEF Present
    <2> QED BY <2>1 DEF MissingDependencies, Needs
  <1>18. ASSUME ~ask.only, NEW f \in ask.roots
         PROVE  Outdated((RowAfter(f))', known[f]) => known[f].odd
    <2>1. f \in DOMAIN known /\ f \in C
      BY <1>4, <1>18 DEF ClosureRoots
    <2>2. f \in T => \E i \in DOMAIN items : items[i] = f
      BY <1>8 DEF ToSet
    <2>3. (RowAfter(f))' = IF \E i \in DOMAIN items : items[i] = f THEN MethodOf(known[f]) ELSE rowOf[f].row
      BY <1>9 DEF RowAfter, MethodOf
    <2>4. (RowAfter(f))' = MethodOf(known[f])
      BY <2>1, <2>2, <2>3 DEF NotCurrent, Current
    <2>5. known[f].tags \in SUBSET Tags
      BY <1>2, <2>1, PlanAssumption
    <2>6. SelectBottle(known[f].tags) \in Tags \cup {"none"}
      BY <2>5, SelectedTag
    <2>7. Outdated(MethodOf(known[f]), known[f]) => known[f].odd
      BY <1>14, <2>6, Zenon DEF Outdated, MethodOf
    <2> QED BY <2>4, <2>7
  <1>19. PlanIsSound'
    <2>1. ask' = ask /\ known' = known /\ skipped' = skipped /\ rowOf' = rowOf
      OBVIOUS
    <2> QED BY <1>9, <1>15, <1>17, <1>18, <2>1
        DEF PlanIsSound, MissingDependencies, Present, Current, MethodOf, Outdated
  <1> QED BY <1>11, <1>12, <1>19 DEF PlanInv

LEMMA PlanNextInv == PlanInv /\ [PlanNext]_planVars => PlanInv'
  <1> SUFFICES ASSUME PlanInv, [PlanNext]_planVars PROVE PlanInv'
    OBVIOUS
  <1>1. CASE FetchBatch
    BY <1>1, FetchKeepsPlanInv
  <1>2. CASE FetchFails
    BY <1>2, FailureKeepsPlanInv DEF FetchFails
  <1>3. CASE Resolve
    <2>1. CASE ~(ask.roots \subseteq DOMAIN known)
      BY <1>3, <2>1, FailureKeepsPlanInv DEF Resolve
    <2>2. CASE ask.roots \subseteq DOMAIN known /\ Len(Order(Closure)) # Cardinality(Closure)
      BY <1>3, <2>2, FailureKeepsPlanInv DEF Resolve
    <2>3. CASE ask.roots \subseteq DOMAIN known /\ Len(Order(Closure)) = Cardinality(Closure)
      BY <1>3, <2>3, PlannedIsSound DEF Resolve
    <2> QED BY <2>1, <2>2, <2>3
  <1>4. CASE UNCHANGED planVars
    BY <1>4 DEF planVars, PlanInv, PlanTypeOK, FetchFits, PlanIsSound, NotCurrent, Current,
                MethodOf, MissingDependencies, Present, Outdated, RowAfter
  <1> QED BY <1>1, <1>2, <1>3, <1>4 DEF PlanNext

\* The request, the formulas fetched and the plan keep their types.
THEOREM PlanTypeCorrect == PlanSpec => []PlanTypeOK
  <1>1. PlanInv => PlanTypeOK
    BY DEF PlanInv
  <1> QED BY PlanInitInv, PlanNextInv, <1>1, PTL DEF PlanSpec

\* PlanIsSound for every formula index, whatever is installed and asked for: a plan
\* (plan_with_behavior) installs nothing twice and everything after its dependencies,
\* leaves nothing missing but what the platform has nothing for and what macOS would
\* bring along, and nothing asked for outdated but by an oddly written digest.  The
\* batches fetch what the closure needs (FetchFits), the closure is closed after as many
\* rounds as there are formulas, and an order that is as long as it has all of it.
THEOREM PlanCorrect == PlanSpec => []PlanIsSound
  <1>1. PlanInv => PlanIsSound
    BY DEF PlanInv
  <1> QED BY PlanInitInv, PlanNextInv, <1>1, PTL DEF PlanSpec

-----------------------------------------------------------------------------
(* The managed block of the shell's configuration.                         *)

LEMMA LeastIsLeast ==
    ASSUME NEW S, S \subseteq Nat, S # {}
    PROVE  Least(S) \in S /\ \A j \in S : Least(S) <= j
  <1>1. \E i \in S : \A j \in S : i <= j
    BY LeastNatural
  <1> QED BY <1>1, Zenon DEF Least

LEMMA BlockPlace ==
    ASSUME NEW S, NEW lines \in Seq(S), HasBlock(lines)
    PROVE  /\ BlockFrom(lines) \in 1..Len(lines) /\ BlockTo(lines) \in 1..Len(lines)
           /\ BlockFrom(lines) < BlockTo(lines)
           /\ lines[BlockFrom(lines)] = BlockStart /\ lines[BlockTo(lines)] = BlockEnd
           /\ \A j \in 1..Len(lines) : lines[j] = BlockStart => BlockFrom(lines) <= j
  <1> DEFINE starts == Positions(lines, BlockStart)
             a == BlockFrom(lines)
             ends == {e \in Positions(lines, BlockEnd) : e > a}
  <1>1. Len(lines) \in Nat
    OBVIOUS
  <1>2. starts \subseteq Nat /\ starts # {}
    BY <1>1 DEF HasBlock, Positions
  <1>3. a \in starts /\ \A j \in starts : a <= j
    <2> HIDE DEF starts
    <2>1. Least(starts) \in starts /\ \A j \in starts : Least(starts) <= j
      BY <1>2, LeastIsLeast
    <2> QED BY <2>1 DEF BlockFrom, starts
  <1>4. ends \subseteq Nat /\ ends # {}
    <2>1. \E e \in Positions(lines, BlockEnd) : e > a
      BY Zenon DEF HasBlock, BlockFrom
    <2>2. Positions(lines, BlockEnd) \subseteq Nat
      BY <1>1 DEF Positions
    <2> QED BY <2>1, <2>2
  <1>5. BlockTo(lines) \in ends
    <2> HIDE DEF ends
    <2>1. Least(ends) \in ends
      BY <1>4, LeastIsLeast
    <2> QED BY <2>1 DEF BlockTo, ends
  <1> QED BY <1>1, <1>3, <1>5 DEF Positions

LEMMA NoBlock ==
    ASSUME NEW S, NEW lines \in Seq(S), ~HasBlock(lines),
           NEW a \in 1..Len(lines), NEW b \in 1..Len(lines), a < b,
           lines[a] = BlockStart, lines[b] = BlockEnd
    PROVE  FALSE
  <1> DEFINE starts == Positions(lines, BlockStart)
  <1>1. Len(lines) \in Nat /\ a \in starts /\ starts \subseteq Nat
    BY DEF Positions
  <1> HIDE DEF starts
  <1>2. Least(starts) \in starts /\ Least(starts) <= a
    BY <1>1, LeastIsLeast
  <1>3. b \in Positions(lines, BlockEnd) /\ b > Least(starts)
    <2>1. Least(starts) \in Nat /\ a \in Nat /\ b \in Nat
      <3>1. \A i \in 1..Len(lines) : i \in Nat
        BY <1>1
      <3> QED BY <1>1, <1>2, <3>1, Zenon
    <2>2. b \in Positions(lines, BlockEnd)
      BY Zenon DEF Positions
    <2> QED BY <1>2, <2>1, <2>2
  <1> QED BY <1>1, <1>3 DEF HasBlock, starts

-----------------------------------------------------------------------------
(* The user's lines of a sequence.                                         *)

LinesFrom(s, i, f) ==
    IF i = 0 THEN <<>>
    ELSE IF s[i] \in UserLines THEN Append(f[i - 1], s[i]) ELSE f[i - 1]

LEMMA LinesCollect ==
    ASSUME NEW S, NEW s \in Seq(S)
    PROVE  \E f \in [0..Len(s) -> Seq(S)] :
              /\ \A n \in 0..Len(s) : f[n] = LinesFrom(s, n, f)
              /\ AllUserLines(s) = f[Len(s)]
  <1> DEFINE N == Len(s)
             D == Seq(S)
             G == [n \in Nat |-> [t \in D |->
                     IF n \in 1..N /\ s[n] \in UserLines THEN Append(t, s[n]) ELSE t]]
             Solves(f) == f = [n \in 0..N |-> LinesFrom(s, n, f)]
             c == CHOOSE f : Solves(f)
  <1>1. N \in Nat /\ <<>> \in D /\ G \in [Nat -> [D -> D]]
    <2>1. N \in Nat /\ <<>> \in D
      OBVIOUS
    <2>2. \A n \in 1..N : s[n] \in S
      BY <2>1
    <2>3. \A t \in D, e \in S : Append(t, e) \in D
      OBVIOUS
    <2> HIDE DEF D, N
    <2> QED BY <2>1, <2>2, <2>3
  <1>2. PICK f \in [0..N -> D] : Steps(f, <<>>, G, N)
    <2> HIDE DEF N, D, G
    <2> QED BY <1>1, Iterates
  <1>3. Solves(f)
    <2>1. ASSUME NEW n \in 0..N, n # 0 PROVE G[n][f[n - 1]] = LinesFrom(s, n, f)
      <3>1. n - 1 \in 0..N /\ n \in 1..N /\ n \in Nat
        BY <1>1, <2>1
      <3>2. f[n - 1] \in D
        BY <1>2, <3>1
      <3> HIDE DEF D
      <3> QED BY <2>1, <3>1, <3>2 DEF LinesFrom
    <2> HIDE DEF G
    <2>2. \A n \in 0..N : f[n] = LinesFrom(s, n, f)
      <3>1. \A n \in 0..N : n # 0 => n \in 1..N
        BY <1>1
      <3> QED BY <1>2, <2>1, <3>1 DEF LinesFrom, Steps
    <2>3. f = [n \in 0..N |-> f[n]]
      OBVIOUS
    <2> QED BY <2>2, <2>3
  <1>4. Solves(c)
    <2> HIDE DEF Solves
    <2> QED BY <1>3
  <1>5. \A n \in 0..N : c[n] = LinesFrom(s, n, c)
    <2> HIDE DEF c
    <2> QED BY <1>4
  <1>6. c \in [0..N -> D]
    <2> HIDE DEF c
    <2>1. c[0] \in D
      <3>1. 0 \in 0..N
        BY <1>1
      <3>2. c[0] = <<>>
        BY <1>5, <3>1 DEF LinesFrom
      <3> HIDE DEF D
      <3> QED BY <1>1, <3>2
    <2>2. ASSUME NEW n \in 1..N, c[n - 1] \in D PROVE c[n] \in D
      <3>1. n \in 0..N /\ n # 0 /\ s[n] \in S
        BY <1>1
      <3>2. Append(c[n - 1], s[n]) \in D
        BY <2>2, <3>1
      <3> HIDE DEF D
      <3> QED BY <1>5, <2>2, <3>1, <3>2 DEF LinesFrom
    <2>3. c = [n \in 0..N |-> c[n]]
      BY <1>4
    <2> HIDE DEF D, N
    <2>4. \A n \in 0..N : c[n] \in D
      BY <1>1, <2>1, <2>2, Stays
    <2> QED BY <2>3, <2>4
  <1>7. AllUserLines(s) = c[N]
    <2>1. AllUserLines(s) = (CHOOSE h : h = [i \in 0..N |->
              IF i = 0 THEN <<>>
              ELSE IF s[i] \in UserLines THEN Append(h[i - 1], s[i]) ELSE h[i - 1]])[N]
      BY DEF AllUserLines
    <2> QED BY <2>1 DEF LinesFrom
  <1> HIDE DEF c
  <1> QED BY <1>5, <1>6, <1>7

LEMMA UserLinesOfNone == AllUserLines(<<>>) = <<>>
  <1>1. <<>> \in Seq({}) /\ Len(<<>>) = 0
    OBVIOUS
  <1>2. PICK f : (\A n \in 0..0 : f[n] = LinesFrom(<<>>, n, f)) /\ AllUserLines(<<>>) = f[0]
    BY <1>1, LinesCollect
  <1> QED BY <1>2 DEF LinesFrom

LEMMA UserLinesOfAppend ==
    ASSUME NEW S, NEW s \in Seq(S), NEW x \in S
    PROVE  AllUserLines(Append(s, x)) =
             IF x \in UserLines THEN Append(AllUserLines(s), x) ELSE AllUserLines(s)
  <1> DEFINE t == Append(s, x)
             N == Len(s)
  <1>1. t \in Seq(S) /\ Len(t) = N + 1 /\ N \in Nat /\ t[N + 1] = x /\ \A i \in 1..N : t[i] = s[i]
    OBVIOUS
  <1>2. PICK f : (\A n \in 0..N : f[n] = LinesFrom(s, n, f)) /\ AllUserLines(s) = f[N]
    BY LinesCollect
  <1> HIDE DEF t
  <1>3. PICK g : (\A n \in 0..Len(t) : g[n] = LinesFrom(t, n, g)) /\ AllUserLines(t) = g[Len(t)]
    BY <1>1, LinesCollect
  <1> HIDE DEF N
  <1>4. g[N] = f[N]
    <2> DEFINE T == {n \in Nat : n \in 0..N => g[n] = f[n]}
    <2>1. 0 \in T
      <3>1. 0 \in 0..N /\ 0 \in 0..Len(t)
        BY <1>1
      <3>2. f[0] = <<>> /\ g[0] = <<>>
        BY <1>2, <1>3, <3>1 DEF LinesFrom
      <3> QED BY <3>2
    <2>2. ASSUME NEW m \in T PROVE m + 1 \in T
      <3> SUFFICES ASSUME m + 1 \in 0..N PROVE g[m + 1] = f[m + 1]
        OBVIOUS
      <3>1. m \in 0..N /\ m + 1 \in 1..N /\ m + 1 \in 0..Len(t) /\ (m + 1) - 1 = m /\ m + 1 # 0
        BY <1>1
      <3>2. g[m] = f[m] /\ t[m + 1] = s[m + 1]
        BY <1>1, <3>1
      <3>3. f[m + 1] = LinesFrom(s, m + 1, f) /\ g[m + 1] = LinesFrom(t, m + 1, g)
        BY <1>2, <1>3, <3>1
      <3> HIDE DEF T
      <3> QED BY <3>1, <3>2, <3>3 DEF LinesFrom
    <2>3. T = Nat
      <3> HIDE DEF T
      <3>1. T \subseteq Nat
        BY DEF T
      <3> QED BY <2>1, <2>2, <3>1, AllNaturals
    <2> QED BY <1>1, <2>3
  <1>5. g[N + 1] = LinesFrom(t, N + 1, g) /\ (N + 1) - 1 = N /\ N + 1 # 0
    BY <1>1, <1>3
  <1>6. AllUserLines(t) = IF x \in UserLines THEN Append(f[N], x) ELSE f[N]
    BY <1>1, <1>3, <1>4, <1>5 DEF LinesFrom
  <1> QED BY <1>2, <1>6 DEF t

LEMMA UserLinesInSeq ==
    ASSUME NEW S, NEW s \in Seq(S)
    PROVE  AllUserLines(s) \in Seq(S)
  <1>1. Len(s) \in 0..Len(s)
    OBVIOUS
  <1> QED BY <1>1, LinesCollect

LEMMA UserLinesOfConcat ==
    ASSUME NEW S, NEW s \in Seq(S), NEW t \in Seq(S)
    PROVE  AllUserLines(s \o t) = AllUserLines(s) \o AllUserLines(t)
  <1> DEFINE T == {n \in Nat : \A u \in Seq(S) :
                     Len(u) = n => AllUserLines(s \o u) = AllUserLines(s) \o AllUserLines(u)}
  <1>1. 0 \in T
    <2> SUFFICES ASSUME NEW u \in Seq(S), Len(u) = 0
                 PROVE  AllUserLines(s \o u) = AllUserLines(s) \o AllUserLines(u)
      OBVIOUS
    <2>1. u = <<>> /\ s \o <<>> = s
      OBVIOUS
    <2>2. AllUserLines(s) \o <<>> = AllUserLines(s)
      BY UserLinesInSeq
    <2> QED BY <2>1, <2>2, UserLinesOfNone
  <1>2. ASSUME NEW m \in T PROVE m + 1 \in T
    <2> SUFFICES ASSUME NEW u \in Seq(S), Len(u) = m + 1
                 PROVE  AllUserLines(s \o u) = AllUserLines(s) \o AllUserLines(u)
      OBVIOUS
    <2> DEFINE v == SubSeq(u, 1, m)
               x == u[m + 1]
    <2>1. v \in Seq(S) /\ Len(v) = m /\ x \in S
      OBVIOUS
    <2>2. u = Append(v, x)
      OBVIOUS
    <2>3. AllUserLines(s \o v) = AllUserLines(s) \o AllUserLines(v)
      BY <2>1
    <2> HIDE DEF v, x, T
    <2>4. s \o v \in Seq(S) /\ s \o Append(v, x) = Append(s \o v, x)
      BY <2>1
    <2>5. AllUserLines(s) \in Seq(S) /\ AllUserLines(v) \in Seq(S)
      BY <2>1, UserLinesInSeq
    <2>6. AllUserLines(s) \o Append(AllUserLines(v), x) = Append(AllUserLines(s) \o AllUserLines(v), x)
      BY <2>1, <2>5
    <2>7. AllUserLines(u) = IF x \in UserLines THEN Append(AllUserLines(v), x) ELSE AllUserLines(v)
      BY <2>1, <2>2, UserLinesOfAppend
    <2>8. AllUserLines(s \o u) =
            IF x \in UserLines THEN Append(AllUserLines(s \o v), x) ELSE AllUserLines(s \o v)
      BY <2>1, <2>2, <2>4, UserLinesOfAppend
    <2> QED BY <2>3, <2>6, <2>7, <2>8
  <1>3. T = Nat
    <2> HIDE DEF T
    <2>1. T \subseteq Nat
      BY DEF T
    <2> QED BY <1>1, <1>2, <2>1, AllNaturals
  <1>4. Len(t) \in T
    BY <1>3
  <1> QED BY <1>4

-----------------------------------------------------------------------------
(* What an init puts into a file, and what the user makes of it.           *)

\* u is s and then t.
Joined(u, s, t) ==
    /\ Len(u) = Len(s) + Len(t)
    /\ \A i \in 1..Len(s) : u[i] = s[i]
    /\ \A i \in 1..Len(t) : u[Len(s) + i] = t[i]

LEMMA Concatenation ==
    ASSUME NEW S, NEW s \in Seq(S), NEW t \in Seq(S)
    PROVE  s \o t \in Seq(S) /\ Joined(s \o t, s, t)
  <1>1. s \o t \in Seq(S) /\ Len(s \o t) = Len(s) + Len(t)
    OBVIOUS
  <1>2. \A i \in 1..Len(s) : (s \o t)[i] = s[i]
    OBVIOUS
  <1>3. \A i \in 1..Len(t) : (s \o t)[Len(s) + i] = t[i]
    OBVIOUS
  <1> QED BY <1>1, <1>2, <1>3 DEF Joined

LEMMA UserLinesOfOthers ==
    ASSUME NEW S, NEW s \in Seq(S), \A i \in 1..Len(s) : s[i] \notin UserLines
    PROVE  AllUserLines(s) = <<>>
  <1> DEFINE N == Len(s)
  <1>1. PICK f : (\A n \in 0..N : f[n] = LinesFrom(s, n, f)) /\ AllUserLines(s) = f[N]
    BY LinesCollect
  <1>2. N \in Nat /\ \A n \in 1..N : n \in 0..N /\ n # 0
    OBVIOUS
  <1>3. f[0] \in {<<>>}
    <2>1. 0 \in 0..N
      BY <1>2
    <2> QED BY <1>1, <2>1 DEF LinesFrom
  <1>4. \A n \in 1..N : f[n - 1] \in {<<>>} => f[n] \in {<<>>}
    BY <1>1, <1>2 DEF LinesFrom
  <1> DEFINE D == {<<>>}
  <1>5. \A n \in 0..N : f[n] \in D
    <2>1. f[0] \in D /\ \A n \in 1..N : f[n - 1] \in D => f[n] \in D
      BY <1>3, <1>4
    <2> HIDE DEF N, D
    <2> QED BY <1>2, <2>1, Stays
  <1> QED BY <1>1, <1>2, <1>5

\* Behind a block there are no settings.
NoneAfterBlock(lines) ==
    \A a, b, i \in 1..Len(lines) :
       a < b /\ b < i /\ lines[a] = BlockStart /\ lines[b] = BlockEnd => lines[i] \notin Settings

\* The last settings of a file are s.
EndsWith(lines, s) ==
    \E i \in 1..Len(lines) :
       lines[i] = s /\ \A j \in 1..Len(lines) : lines[j] \in Settings => j <= i

LEMMA BlockIsLast ==
    ASSUME NEW pre \in Seq(ConfigLines), NEW post \in Seq(ConfigLines), NEW s \in Settings,
           \A a, b \in 1..Len(pre) : a < b /\ pre[a] = BlockStart => pre[b] # BlockEnd,
           \A i \in 1..Len(post) : post[i] \notin Settings
    PROVE  LET t == pre \o SettingsBlock(s) \o post
           IN  t \in Seq(ConfigLines) /\ NoneAfterBlock(t) /\ EndsWith(t, s)
  <1> DEFINE t == pre \o SettingsBlock(s) \o post
             p == Len(pre)
             q == Len(post)
  <1>1. p \in Nat /\ q \in Nat
    OBVIOUS
  <1>2. SettingsBlock(s) \in Seq(ConfigLines) /\ Len(SettingsBlock(s)) = 3
        /\ SettingsBlock(s)[1] = BlockStart /\ SettingsBlock(s)[2] = s /\ SettingsBlock(s)[3] = BlockEnd
    BY DEF SettingsBlock, ConfigLines
  <1>3. t \in Seq(ConfigLines) /\ Len(t) = p + 3 + q
        /\ (\A i \in 1..p : t[i] = pre[i])
        /\ (\A i \in 1..3 : t[p + i] = SettingsBlock(s)[i])
        /\ (\A i \in 1..q : t[p + 3 + i] = post[i])
    <2> DEFINE b == SettingsBlock(s)
               u == pre \o b
    <2> HIDE DEF b
    <2>1. b \in Seq(ConfigLines) /\ Len(b) = 3
      BY <1>2 DEF b
    <2>2. u \in Seq(ConfigLines) /\ Len(u) = p + 3 /\ (\A i \in 1..p : u[i] = pre[i])
          /\ (\A i \in 1..3 : u[p + i] = b[i])
      <3>1. u \in Seq(ConfigLines) /\ Joined(u, pre, b)
        BY <2>1, Concatenation
      <3> HIDE DEF u
      <3> QED BY <2>1, <3>1 DEF Joined
    <2> HIDE DEF u
    <2> DEFINE v == u \o post
    <2>3. v \in Seq(ConfigLines) /\ Len(v) = p + 3 + q /\ (\A i \in 1..(p + 3) : v[i] = u[i])
          /\ (\A i \in 1..q : v[p + 3 + i] = post[i])
      <3>1. v \in Seq(ConfigLines) /\ Joined(v, u, post)
        BY <2>2, Concatenation
      <3> HIDE DEF v
      <3> QED BY <2>2, <3>1 DEF Joined
    <2>4. (\A i \in 1..p : i \in 1..(p + 3)) /\ (\A i \in 1..3 : p + i \in 1..(p + 3))
      BY <1>1
    <2>5. t = v
      BY DEF u, b
    <2> HIDE DEF t, p, q, v
    <2> QED BY <2>2, <2>3, <2>4, <2>5 DEF b
  <1> HIDE DEF t
  <1>4. t[p + 1] = BlockStart /\ t[p + 2] = s /\ t[p + 3] = BlockEnd
    BY <1>1, <1>2, <1>3
  <1>5. ASSUME NEW i \in 1..Len(t), t[i] \in Settings PROVE i \in 1..p \/ i = p + 2
    <2>1. BlockStart \notin Settings /\ BlockEnd \notin Settings
      BY ShellInitAssumption
    <2>2. CASE i \in (p + 4)..(p + 3 + q)
      <3>1. i - (p + 3) \in 1..q /\ p + 3 + (i - (p + 3)) = i
        BY <1>1, <2>2
      <3>2. t[i] = post[i - (p + 3)]
        BY <1>3, <3>1
      <3> QED BY <1>5, <3>1, <3>2
    <2>3. i \in 1..p \/ i = p + 1 \/ i = p + 2 \/ i = p + 3 \/ i \in (p + 4)..(p + 3 + q)
      BY <1>1, <1>3
    <2> QED BY <1>4, <1>5, <2>1, <2>2, <2>3
  <1>6. NoneAfterBlock(t)
    <2> SUFFICES ASSUME NEW a \in 1..Len(t), NEW b \in 1..Len(t), NEW i \in 1..Len(t),
                        a < b, b < i, t[a] = BlockStart, t[b] = BlockEnd, t[i] \in Settings
                 PROVE  FALSE
      BY DEF NoneAfterBlock
    <2>1. i \in 1..p \/ i = p + 2
      BY <1>5
    <2>2. b # p + 1
      BY <1>4, ShellInitAssumption
    <2>3. a \in 1..p /\ b \in 1..p
      BY <1>1, <1>3, <2>1, <2>2
    <2>4. pre[a] = BlockStart /\ pre[b] = BlockEnd
      BY <1>3, <2>3
    <2> QED BY <2>3, <2>4
  <1>7. EndsWith(t, s)
    <2>1. p + 2 \in 1..Len(t)
      BY <1>1, <1>3
    <2>2. \A j \in 1..Len(t) : t[j] \in Settings => j <= p + 2
      BY <1>1, <1>5
    <2> QED BY <1>4, <2>1, <2>2 DEF EndsWith
  <1> QED BY <1>3, <1>6, <1>7 DEF t

LEMMA UpsertEndsWith ==
    ASSUME NEW lines \in Seq(ConfigLines), NoneAfterBlock(lines), NEW s \in Settings
    PROVE  LET t == Upsert(lines, SettingsBlock(s))
           IN  t \in Seq(ConfigLines) /\ NoneAfterBlock(t) /\ EndsWith(t, s)
  <1> DEFINE block == SettingsBlock(s)
             n == Len(lines)
  <1>1. n \in Nat
    OBVIOUS
  <1>2. CASE HasBlock(lines)
    <2> DEFINE from == BlockFrom(lines)
               to == BlockTo(lines)
               pre == SubSeq(lines, 1, from - 1)
               post == SubSeq(lines, to + 1, n)
    <2>1. /\ from \in 1..n /\ to \in 1..n /\ from < to
          /\ lines[from] = BlockStart /\ lines[to] = BlockEnd
          /\ \A j \in 1..n : lines[j] = BlockStart => from <= j
      BY <1>2, BlockPlace
    <2> HIDE DEF from, to
    <2>2. pre \in Seq(ConfigLines) /\ Len(pre) = from - 1 /\ \A i \in 1..(from - 1) : pre[i] = lines[i]
      BY <1>1, <2>1
    <2>3. post \in Seq(ConfigLines) /\ Len(post) = n - to
          /\ \A i \in 1..(n - to) : post[i] = lines[to + i]
      BY <1>1, <2>1
    <2> HIDE DEF pre, post, block, n
    <2>4. \A a, b \in 1..Len(pre) : a < b /\ pre[a] = BlockStart => pre[b] # BlockEnd
      <3> SUFFICES ASSUME NEW a \in 1..Len(pre), pre[a] = BlockStart PROVE FALSE
        OBVIOUS
      <3>1. a \in 1..(from - 1) /\ a \in 1..n /\ ~(from <= a)
        BY <1>1, <2>1, <2>2
      <3> QED BY <2>1, <2>2, <3>1
    <2>5. \A i \in 1..Len(post) : post[i] \notin Settings
      <3> SUFFICES ASSUME NEW i \in 1..Len(post) PROVE post[i] \notin Settings
        OBVIOUS
      <3>1. i \in 1..(n - to) /\ to + i \in 1..n /\ to < to + i
        BY <1>1, <2>1, <2>3
      <3>2. post[i] = lines[to + i]
        BY <2>3, <3>1
      <3> QED BY <2>1, <3>1, <3>2 DEF NoneAfterBlock, n
    <2>6. Upsert(lines, block) = pre \o block \o post
      BY <1>2 DEF Upsert, pre, post, from, to, n
    <2> QED BY <2>2, <2>3, <2>4, <2>5, <2>6, BlockIsLast DEF block
  <1>3. CASE ~HasBlock(lines)
    <2>1. \A a, b \in 1..Len(lines) : a < b /\ lines[a] = BlockStart => lines[b] # BlockEnd
      BY <1>3, NoBlock
    <2>2. <<>> \in Seq(ConfigLines) /\ \A i \in 1..Len(<<>>) : <<>>[i] \notin Settings
      OBVIOUS
    <2>3. block \in Seq(ConfigLines)
      BY DEF SettingsBlock, ConfigLines
    <2> HIDE DEF block
    <2>4. Upsert(lines, block) = lines \o block \o <<>>
      <3>1. lines \o block \in Seq(ConfigLines)
        BY <2>3
      <3>2. (lines \o block) \o <<>> = lines \o block
        BY <3>1, ConcatEmptySeq
      <3> QED BY <1>3, <3>2 DEF Upsert
    <2> QED BY <2>1, <2>2, <2>4, BlockIsLast DEF block
  <1> QED BY <1>2, <1>3

LEMMA UpsertKeepsUserLines ==
    ASSUME NEW lines \in Seq(ConfigLines), NEW s \in Settings
    PROVE  AllUserLines(Upsert(lines, SettingsBlock(s))) = OwnLines(lines)
  <1> DEFINE block == SettingsBlock(s)
  <1>1. block \in Seq(ConfigLines) /\ AllUserLines(block) = <<>>
    <2>1. BlockStart \in ConfigLines /\ BlockEnd \in ConfigLines /\ s \in ConfigLines
      BY DEF ConfigLines
    <2>2. BlockStart \notin UserLines /\ BlockEnd \notin UserLines /\ s \notin UserLines
      BY ShellInitAssumption
    <2>3. block \in Seq(ConfigLines) /\ \A i \in 1..Len(block) : block[i] \notin UserLines
      BY <2>1, <2>2 DEF SettingsBlock
    <2> HIDE DEF block
    <2> QED BY <2>3, UserLinesOfOthers
  <1>2. ASSUME NEW pre \in Seq(ConfigLines), NEW post \in Seq(ConfigLines)
        PROVE  AllUserLines(pre \o block \o post) = AllUserLines(pre \o post)
    <2> HIDE DEF block
    <2>1. pre \o block \in Seq(ConfigLines)
      BY <1>1
    <2>2. AllUserLines(pre \o block) = AllUserLines(pre) \o AllUserLines(block)
      BY <1>1, UserLinesOfConcat
    <2>3. AllUserLines(pre) \o <<>> = AllUserLines(pre)
      BY UserLinesInSeq
    <2>4. AllUserLines((pre \o block) \o post) = AllUserLines(pre \o block) \o AllUserLines(post)
      BY <2>1, UserLinesOfConcat
    <2>5. AllUserLines(pre \o post) = AllUserLines(pre) \o AllUserLines(post)
      BY UserLinesOfConcat
    <2> QED BY <1>1, <2>2, <2>3, <2>4, <2>5
  <1>3. CASE HasBlock(lines)
    <2> DEFINE pre == SubSeq(lines, 1, BlockFrom(lines) - 1)
               post == SubSeq(lines, BlockTo(lines) + 1, Len(lines))
    <2>1. pre \in Seq(ConfigLines) /\ post \in Seq(ConfigLines)
      BY <1>3, BlockPlace
    <2>2. Upsert(lines, block) = pre \o block \o post /\ OwnLines(lines) = AllUserLines(pre \o post)
      BY <1>3 DEF Upsert, OwnLines
    <2> HIDE DEF pre, post, block
    <2> QED BY <1>2, <2>1, <2>2 DEF block
  <1>4. CASE ~HasBlock(lines)
    <2>1. Upsert(lines, block) = lines \o block /\ OwnLines(lines) = AllUserLines(lines)
      BY <1>4 DEF Upsert, OwnLines
    <2> HIDE DEF block
    <2>2. AllUserLines(lines \o block) = AllUserLines(lines) \o <<>>
      BY <1>1, UserLinesOfConcat
    <2>3. AllUserLines(lines) \o <<>> = AllUserLines(lines)
      BY UserLinesInSeq
    <2> QED BY <2>1, <2>2, <2>3 DEF block
  <1> QED BY <1>3, <1>4

LEMMA AddedLine ==
    ASSUME NEW lines \in Seq(ConfigLines), NEW x \in UserLines
    PROVE  /\ Append(lines, x) \in Seq(ConfigLines)
           /\ NoneAfterBlock(lines) => NoneAfterBlock(Append(lines, x))
           /\ \A s \in Settings : EndsWith(lines, s) => EndsWith(Append(lines, x), s)
  <1> DEFINE t == Append(lines, x)
             n == Len(lines)
  <1>1. n \in Nat /\ t \in Seq(ConfigLines) /\ Len(t) = n + 1 /\ t[n + 1] = x
        /\ \A i \in 1..n : t[i] = lines[i]
    BY DEF ConfigLines
  <1>2. x \notin Settings
    BY ShellInitAssumption
  <1> HIDE DEF t
  <1>3. \A i \in 1..Len(t) : t[i] \in Settings => i \in 1..n
    <2> SUFFICES ASSUME NEW i \in 1..Len(t), t[i] \in Settings, i \notin 1..n PROVE FALSE
      OBVIOUS
    <2>1. i = n + 1
      BY <1>1
    <2> QED BY <1>1, <1>2, <2>1
  <1>4. NoneAfterBlock(lines) => NoneAfterBlock(t)
    <2> SUFFICES ASSUME NoneAfterBlock(lines),
                        NEW a \in 1..Len(t), NEW b \in 1..Len(t), NEW i \in 1..Len(t),
                        a < b, b < i, t[a] = BlockStart, t[b] = BlockEnd, t[i] \in Settings
                 PROVE  FALSE
      BY DEF NoneAfterBlock
    <2>1. i \in 1..n
      BY <1>3
    <2>2. a \in 1..n /\ b \in 1..n
      BY <1>1, <2>1
    <2> QED BY <1>1, <2>1, <2>2 DEF NoneAfterBlock
  <1>5. ASSUME NEW s \in Settings, EndsWith(lines, s) PROVE EndsWith(t, s)
    <2>1. PICK i \in 1..n : lines[i] = s /\ \A j \in 1..n : lines[j] \in Settings => j <= i
      BY <1>5 DEF EndsWith
    <2>2. i \in 1..Len(t) /\ t[i] = s
      BY <1>1, <2>1
    <2>3. \A j \in 1..Len(t) : t[j] \in Settings => j <= i
      BY <1>1, <1>3, <2>1
    <2> QED BY <2>2, <2>3 DEF EndsWith
  <1> QED BY <1>1, <1>4, <1>5 DEF t

LEMMA DeletedLine ==
    ASSUME NEW lines \in Seq(ConfigLines), NEW k \in 1..Len(lines)
    PROVE  LET t == SubSeq(lines, 1, k - 1) \o SubSeq(lines, k + 1, Len(lines))
           IN  /\ t \in Seq(ConfigLines)
               /\ NoneAfterBlock(lines) => NoneAfterBlock(t)
               /\ \A s \in Settings : s # lines[k] /\ EndsWith(lines, s) => EndsWith(t, s)
  <1> DEFINE n == Len(lines)
             pre == SubSeq(lines, 1, k - 1)
             post == SubSeq(lines, k + 1, n)
             t == pre \o post
             Was(i) == IF i < k THEN i ELSE i + 1
  <1>1. n \in Nat /\ k \in 1..n
    OBVIOUS
  <1>2. pre \in Seq(ConfigLines) /\ Len(pre) = k - 1 /\ \A i \in 1..(k - 1) : pre[i] = lines[i]
    BY <1>1
  <1>3. post \in Seq(ConfigLines) /\ Len(post) = n - k /\ \A i \in 1..(n - k) : post[i] = lines[k + i]
    BY <1>1
  <1> HIDE DEF pre, post
  <1>4. t \in Seq(ConfigLines) /\ Len(t) = (k - 1) + (n - k)
        /\ (\A i \in 1..(k - 1) : t[i] = pre[i]) /\ (\A i \in 1..(n - k) : t[(k - 1) + i] = post[i])
    <2>1. t \in Seq(ConfigLines) /\ Joined(t, pre, post)
      BY <1>2, <1>3, Concatenation
    <2> HIDE DEF t
    <2> QED BY <1>2, <1>3, <2>1 DEF Joined
  <1> HIDE DEF t, n
  <1>5. Len(t) = n - 1
    BY <1>1, <1>4
  <1>6. \A i \in 1..Len(t) : Was(i) \in 1..n /\ t[i] = lines[Was(i)]
    <2> SUFFICES ASSUME NEW i \in 1..Len(t) PROVE Was(i) \in 1..n /\ t[i] = lines[Was(i)]
      OBVIOUS
    <2>1. CASE i < k
      <3>1. i \in 1..(k - 1) /\ i \in 1..n
        BY <1>1, <1>5, <2>1
      <3> QED BY <1>2, <1>4, <2>1, <3>1
    <2>2. CASE ~(i < k)
      <3>1. i - (k - 1) \in 1..(n - k) /\ (k - 1) + (i - (k - 1)) = i /\ k + (i - (k - 1)) = i + 1
            /\ i + 1 \in 1..n
        BY <1>1, <1>5, <2>2
      <3>2. t[i] = post[i - (k - 1)] /\ post[i - (k - 1)] = lines[i + 1]
        BY <1>3, <1>4, <3>1
      <3> QED BY <2>2, <3>1, <3>2
    <2> QED BY <2>1, <2>2
  <1>7. \A i, j \in 1..Len(t) : i < j => Was(i) < Was(j)
    BY <1>1, <1>5
  <1>8. NoneAfterBlock(lines) => NoneAfterBlock(t)
    <2> SUFFICES ASSUME NoneAfterBlock(lines),
                        NEW a \in 1..Len(t), NEW b \in 1..Len(t), NEW i \in 1..Len(t),
                        a < b, b < i, t[a] = BlockStart, t[b] = BlockEnd, t[i] \in Settings
                 PROVE  FALSE
      BY DEF NoneAfterBlock
    <2>1. Was(a) < Was(b) /\ Was(b) < Was(i)
      BY <1>7
    <2> HIDE DEF Was
    <2> QED BY <1>6, <2>1 DEF NoneAfterBlock, n
  <1>9. ASSUME NEW s \in Settings, s # lines[k], EndsWith(lines, s) PROVE EndsWith(t, s)
    <2>1. PICK i \in 1..n : lines[i] = s /\ \A j \in 1..n : lines[j] \in Settings => j <= i
      BY <1>9 DEF EndsWith, n
    <2> DEFINE i1 == IF i < k THEN i ELSE i - 1
    <2>2. i # k
      BY <1>9, <2>1
    <2>3. i1 \in 1..Len(t) /\ Was(i1) = i
      BY <1>1, <1>5, <2>1, <2>2
    <2>4. t[i1] = s
      BY <1>6, <2>1, <2>3
    <2>5. \A j \in 1..Len(t) : t[j] \in Settings => j <= i1
      <3> SUFFICES ASSUME NEW j \in 1..Len(t), t[j] \in Settings PROVE j <= i1
        OBVIOUS
      <3>1. Was(j) <= i
        BY <1>6, <2>1
      <3> QED BY <1>1, <1>5, <2>1, <2>2, <3>1
    <2> HIDE DEF i1
    <2> QED BY <2>3, <2>4, <2>5 DEF EndsWith
  <1> QED BY <1>4, <1>8, <1>9 DEF t, pre, post, n

-----------------------------------------------------------------------------
(* The invariant of the initialization.                                    *)

\* A command in progress has settings; every file has its lines.
InitFits ==
    /\ initJob.at # "idle" => initJob.settings \in Settings
    /\ config = [f \in FileNumbers |-> config[f]]

BlocksFit == \A f \in FileNumbers : NoneAfterBlock(config[f])

WrittenFit == \A f \in FileNumbers : written[f] # NoSettings => EndsWith(config[f], written[f])

ShellInitInv == ShellInitTypeOK /\ InitFits /\ BlocksFit /\ WrittenFit

LEMMA ShellInitInvImplies == ShellInitInv => LastSettingsWin
  <1> SUFFICES ASSUME ShellInitInv, NEW f \in FileNumbers, written[f] # NoSettings
               PROVE  LET blocks == {i \in 1..Len(config[f]) : config[f][i] \in Settings} IN
                      \E i \in blocks : config[f][i] = written[f] /\ \A j \in blocks : j <= i
    BY DEF LastSettingsWin
  <1>1. written[f] \in Settings
    BY DEF ShellInitInv, ShellInitTypeOK
  <1>2. PICK i \in 1..Len(config[f]) :
            config[f][i] = written[f] /\ \A j \in 1..Len(config[f]) : config[f][j] \in Settings => j <= i
    BY DEF ShellInitInv, WrittenFit, EndsWith
  <1> QED BY <1>1, <1>2

LEMMA FileIsThere ==
    ASSUME present \subseteq FileNumbers
    PROVE  ConfigFile \in FileNumbers
  <1>1. Len(ConfigFiles) \in Nat \ {0}
    BY ShellInitAssumption
  <1>2. FileNumbers \subseteq Nat /\ Len(ConfigFiles) \in FileNumbers
    BY <1>1 DEF FileNumbers
  <1>3. present # {} => Least(present) \in FileNumbers
    BY <1>2, LeastIsLeast
  <1> QED BY <1>2, <1>3 DEF ConfigFile

LEMMA LinesOfFile ==
    ASSUME ShellInitInv, NEW f \in FileNumbers
    PROVE  config[f] \in Seq(ConfigLines)
  <1>1. <<>> \in Seq(ConfigLines)
    OBVIOUS
  <1>2. config[f] \in IF f \in present THEN Seq(ConfigLines) ELSE {<<>>}
    BY DEF ShellInitInv, ShellInitTypeOK
  <1> QED BY <1>1, <1>2

LEMMA JobStep ==
    ASSUME ShellInitInv
    PROVE  /\ NoInit \in [at : InitSteps, settings : Settings \cup {NoSettings}, modify : BOOLEAN,
                          todo : SUBSET Dirs, prompts : BOOLEAN]
           /\ NoInit.at = "idle"
           /\ legible \in [FileNumbers -> BOOLEAN] /\ owner \in [Dirs -> {"none", "ours", "other"}]
           /\ initJob \in [at : InitSteps, settings : Settings \cup {NoSettings}, modify : BOOLEAN,
                           todo : SUBSET Dirs, prompts : BOOLEAN]
           /\ initJob.at # "idle" => initJob.settings \in Settings
  BY DEF ShellInitInv, ShellInitTypeOK, InitFits, NoInit, InitSteps

\* One file gets other lines.
LEMMA FileStep ==
    ASSUME ShellInitInv, NEW f \in FileNumbers, NEW lines \in Seq(ConfigLines),
           NEW w \in Settings \cup {NoSettings},
           config' = [config EXCEPT ![f] = lines], present' = present \cup {f},
           written' = [written EXCEPT ![f] = w], legible' \in [FileNumbers -> BOOLEAN],
           owner' \in [Dirs -> {"none", "ours", "other"}],
           initJob' = NoInit \/ initJob' = initJob,
           NoneAfterBlock(lines), w # NoSettings => EndsWith(lines, w)
    PROVE  ShellInitInv'
  <1>1. ShellInitTypeOK /\ InitFits /\ BlocksFit /\ WrittenFit
    BY DEF ShellInitInv
  <1>2. DOMAIN config = FileNumbers /\ DOMAIN written = FileNumbers
    BY <1>1 DEF InitFits, ShellInitTypeOK
  <1>3. config'[f] = lines /\ \A g \in FileNumbers : g # f => config'[g] = config[g]
    BY <1>2
  <1>4. written'[f] = w /\ \A g \in FileNumbers : g # f => written'[g] = written[g]
    BY <1>2
  <1>5. present' \subseteq FileNumbers
    BY <1>1 DEF ShellInitTypeOK
  <1>6. ASSUME NEW g \in FileNumbers
        PROVE  config'[g] \in IF g \in present' THEN Seq(ConfigLines) ELSE {<<>>}
    <2>1. CASE g = f
      BY <1>3, <2>1
    <2>2. CASE g # f
      <3>1. g \in present' <=> g \in present
        BY <2>2
      <3>2. config[g] \in IF g \in present THEN Seq(ConfigLines) ELSE {<<>>}
        BY <1>1 DEF ShellInitTypeOK
      <3> QED BY <1>3, <2>2, <3>1, <3>2
    <2> QED BY <2>1, <2>2
  <1>7. written' \in [FileNumbers -> Settings \cup {NoSettings}]
    BY <1>1 DEF ShellInitTypeOK
  <1>8. initJob' \in [at : InitSteps, settings : Settings \cup {NoSettings}, modify : BOOLEAN,
                      todo : SUBSET Dirs, prompts : BOOLEAN]
        /\ (initJob'.at # "idle" => initJob'.settings \in Settings)
    BY JobStep
  <1>9. ShellInitTypeOK'
    BY <1>5, <1>6, <1>7, <1>8 DEF ShellInitTypeOK
  <1>10. InitFits'
    <2>1. config' = [g \in FileNumbers |-> config'[g]]
      BY <1>1 DEF InitFits
    <2> QED BY <1>8, <2>1 DEF InitFits
  <1>11. BlocksFit'
    BY <1>1, <1>3 DEF BlocksFit
  <1>12. WrittenFit'
    BY <1>1, <1>3, <1>4 DEF WrittenFit
  <1> QED BY <1>9, <1>10, <1>11, <1>12 DEF ShellInitInv

\* No file is touched.
LEMMA OtherStep ==
    ASSUME ShellInitInv, UNCHANGED <<config, present, written>>, legible' \in [FileNumbers -> BOOLEAN],
           owner' \in [Dirs -> {"none", "ours", "other"}],
           initJob' \in [at : InitSteps, settings : Settings \cup {NoSettings}, modify : BOOLEAN,
                         todo : SUBSET Dirs, prompts : BOOLEAN],
           initJob'.at # "idle" => initJob'.settings \in Settings
    PROVE  ShellInitInv'
  BY DEF ShellInitInv, ShellInitTypeOK, InitFits, BlocksFit, WrittenFit

LEMMA ShellInitInitInv == ShellInitInit => ShellInitInv
  <1> SUFFICES ASSUME ShellInitInit PROVE ShellInitInv
    OBVIOUS
  <1>1. ShellInitTypeOK
    BY DEF ShellInitInit, ShellInitTypeOK, NoInit, InitSteps
  <1>2. InitFits
    BY DEF ShellInitInit, InitFits, NoInit
  <1>3. BlocksFit /\ WrittenFit
    <2>1. \A f \in FileNumbers : config[f] = <<>> /\ written[f] = NoSettings
      BY DEF ShellInitInit
    <2>2. NoneAfterBlock(<<>>)
      BY DEF NoneAfterBlock
    <2> QED BY <2>1, <2>2 DEF BlocksFit, WrittenFit
  <1> QED BY <1>1, <1>2, <1>3 DEF ShellInitInv

LEMMA StartKeepsInit ==
    ASSUME ShellInitInv, NEW s \in Settings, NEW modify \in BOOLEAN, NEW terminal \in BOOLEAN,
           InitCommand(s, modify) \/ EnsureInit(s) \/ ResetCommand(s, terminal)
    PROVE  ShellInitInv'
  <1>1. UNCHANGED <<config, present, legible, owner, written>>
    BY DEF InitCommand, EnsureInit, ResetCommand
  <1>2. initJob'.settings = s
        /\ initJob' \in [at : InitSteps, settings : Settings \cup {NoSettings}, modify : BOOLEAN,
                         todo : SUBSET Dirs, prompts : BOOLEAN]
    BY DEF InitCommand, EnsureInit, ResetCommand, StartInit, NoInit, InitSteps
  <1> QED BY <1>1, <1>2, JobStep, OtherStep

LEMMA DirectoriesKeepInit ==
    ASSUME ShellInitInv,
           (\E d \in Dirs : ClearDirectory(d) \/ SudoMkdir(d) \/ SudoChown(d)) \/ ClearEnds \/ MakeDirectories
    PROVE  ShellInitInv'
  <1> DEFINE Jobs == [at : InitSteps, settings : Settings \cup {NoSettings}, modify : BOOLEAN,
                      todo : SUBSET Dirs, prompts : BOOLEAN]
  <1>1. UNCHANGED <<config, present, legible, written>>
    BY DEF ClearDirectory, SudoMkdir, SudoChown, ClearEnds, MakeDirectories
  <1>2. owner' \in [Dirs -> {"none", "ours", "other"}]
    BY JobStep DEF ClearDirectory, SudoMkdir, SudoChown, ClearEnds, MakeDirectories
  <1>3. initJob' = NoInit \/ (initJob.at # "idle" /\ initJob' \in Jobs /\ initJob'.settings = initJob.settings)
    <2> DEFINE Fits(j) == initJob.at # "idle" /\ j \in Jobs /\ j.settings = initJob.settings
    <2>1. ASSUME initJob.at # "idle", NEW T \in SUBSET Dirs PROVE Fits([initJob EXCEPT !.todo = T])
      BY <2>1, JobStep
    <2>2. ASSUME initJob.at # "idle", NEW a \in InitSteps PROVE Fits([initJob EXCEPT !.at = a])
      BY <2>2, JobStep
    <2>3. ASSUME initJob.at # "idle", NEW a \in InitSteps, NEW T \in SUBSET Dirs
          PROVE  Fits([initJob EXCEPT !.at = a, !.todo = T])
      BY <2>3, JobStep
    <2>4. (\A d \in Dirs : initJob.todo \ {d} \in SUBSET Dirs) /\ {} \in SUBSET Dirs /\ Dirs \in SUBSET Dirs
          /\ "dirs" \in InitSteps /\ "mkdir" \in InitSteps /\ "chown" \in InitSteps /\ "config" \in InitSteps
      BY JobStep DEF InitSteps
    <2> HIDE DEF Fits
    <2>5. ASSUME NEW d \in Dirs, ClearDirectory(d) PROVE initJob' = NoInit \/ Fits(initJob')
      BY <2>1, <2>4, <2>5 DEF ClearDirectory
    <2>6. ASSUME NEW d \in Dirs, SudoMkdir(d) PROVE initJob' = NoInit \/ Fits(initJob')
      <3>1. initJob.at # "idle" /\ initJob.todo \ {d} \in SUBSET Dirs
        BY <2>4, <2>6 DEF SudoMkdir
      <3>2. Fits([initJob EXCEPT !.todo = initJob.todo \ {d}])
        BY <2>1, <3>1
      <3>3. Fits([initJob EXCEPT !.at = "chown", !.todo = Dirs])
        BY <2>3, <2>4, <3>1
      <3> QED BY <2>6, <3>2, <3>3, Zenon DEF SudoMkdir
    <2>7. ASSUME NEW d \in Dirs, SudoChown(d) PROVE initJob' = NoInit \/ Fits(initJob')
      <3>1. initJob.at # "idle" /\ initJob.todo \ {d} \in SUBSET Dirs
        BY <2>4, <2>7 DEF SudoChown
      <3>2. Fits([initJob EXCEPT !.todo = initJob.todo \ {d}])
        BY <2>1, <3>1
      <3>3. Fits([initJob EXCEPT !.at = "config", !.todo = {}])
        BY <2>3, <2>4, <3>1
      <3> QED BY <2>7, <3>2, <3>3, Zenon DEF SudoChown
    <2>8. ASSUME ClearEnds PROVE Fits(initJob')
      BY <2>2, <2>4, <2>8 DEF ClearEnds
    <2>9. ASSUME MakeDirectories PROVE initJob' = NoInit \/ Fits(initJob')
      BY <2>2, <2>3, <2>4, <2>9 DEF MakeDirectories
    <2> HIDE DEF Jobs
    <2> QED BY <2>5, <2>6, <2>7, <2>8, <2>9 DEF Fits
  <1> QED BY <1>1, <1>2, <1>3, JobStep, OtherStep

LEMMA WriteKeepsInit ==
    ASSUME ShellInitInv, WriteConfig
    PROVE  ShellInitInv'
  <1> DEFINE f == ConfigFile
             existing == IF legible[f] THEN config[f] ELSE <<>>
             lines == Upsert(existing, SettingsBlock(initJob.settings))
  <1>1. f \in FileNumbers /\ initJob.settings \in Settings
    BY FileIsThere, JobStep DEF ShellInitInv, ShellInitTypeOK, WriteConfig
  <1>2. initJob' = NoInit /\ owner' = owner /\ legible' \in [FileNumbers -> BOOLEAN]
    BY <1>1, JobStep DEF WriteConfig
  <1>3. <<>> \in Seq(ConfigLines) /\ NoneAfterBlock(<<>>)
    BY DEF NoneAfterBlock
  <1>4. existing \in Seq(ConfigLines) /\ NoneAfterBlock(existing)
    BY <1>1, <1>3, LinesOfFile DEF ShellInitInv, BlocksFit
  <1> HIDE DEF existing
  <1>5. lines \in Seq(ConfigLines) /\ NoneAfterBlock(lines) /\ EndsWith(lines, initJob.settings)
    BY <1>1, <1>4, UpsertEndsWith
  <1>6. \/ UNCHANGED <<config, present, written>>
        \/ /\ config' = [config EXCEPT ![f] = lines] /\ present' = present \cup {f}
           /\ written' = [written EXCEPT ![f] = initJob.settings]
        \/ /\ config' = [config EXCEPT ![f] = <<>>] /\ present' = present \cup {f}
           /\ written' = [written EXCEPT ![f] = NoSettings]
    BY DEF WriteConfig, existing
  <1> HIDE DEF f, lines
  <1>7. CASE UNCHANGED <<config, present, written>>
    BY <1>2, <1>7, JobStep, OtherStep
  <1>8. CASE /\ config' = [config EXCEPT ![f] = lines] /\ present' = present \cup {f}
             /\ written' = [written EXCEPT ![f] = initJob.settings]
    BY <1>1, <1>2, <1>5, <1>8, JobStep, FileStep
  <1>9. CASE /\ config' = [config EXCEPT ![f] = <<>>] /\ present' = present \cup {f}
             /\ written' = [written EXCEPT ![f] = NoSettings]
    BY <1>1, <1>2, <1>3, <1>9, JobStep, FileStep
  <1> QED BY <1>6, <1>7, <1>8, <1>9

LEMMA UserKeepsInit ==
    ASSUME ShellInitInv, UserStep
    PROVE  ShellInitInv'
  <1>1. ASSUME NEW f \in FileNumbers
        PROVE  /\ config[f] \in Seq(ConfigLines) /\ NoneAfterBlock(config[f])
               /\ written = [written EXCEPT ![f] = written[f]]
               /\ written[f] \in Settings \cup {NoSettings}
               /\ written[f] # NoSettings => EndsWith(config[f], written[f])
    BY LinesOfFile DEF ShellInitInv, BlocksFit, WrittenFit, ShellInitTypeOK
  <1>2. ASSUME NEW f \in FileNumbers, NEW line \in UserLines, UserAddsLine(f, line)
        PROVE  ShellInitInv'
    <2> DEFINE lines == Append(config[f], line)
    <2>1. lines \in Seq(ConfigLines) /\ NoneAfterBlock(lines)
          /\ (written[f] # NoSettings => EndsWith(lines, written[f]))
      BY <1>1, AddedLine
    <2>2. config' = [config EXCEPT ![f] = lines] /\ present' = present \cup {f}
          /\ UNCHANGED <<legible, owner, initJob, written>>
      BY <1>2 DEF UserAddsLine, ShellInitInv, InitFits
    <2> HIDE DEF lines
    <2> QED BY <1>1, <2>1, <2>2, JobStep, FileStep
  <1>3. ASSUME NEW f \in FileNumbers, NEW i \in DOMAIN config[f], UserDeletesLine(f, i)
        PROVE  ShellInitInv'
    <2> DEFINE lines == SubSeq(config[f], 1, i - 1) \o SubSeq(config[f], i + 1, Len(config[f]))
    <2>1. i \in 1..Len(config[f]) /\ config[f][i] # written[f]
      BY <1>1, <1>3 DEF UserDeletesLine
    <2>2. lines \in Seq(ConfigLines) /\ NoneAfterBlock(lines)
          /\ (written[f] # NoSettings => EndsWith(lines, written[f]))
      BY <1>1, <2>1, DeletedLine
    <2>3. f \in present
      <3> SUFFICES ASSUME f \notin present PROVE FALSE
        OBVIOUS
      <3>1. config[f] = <<>>
        BY DEF ShellInitInv, ShellInitTypeOK
      <3> QED BY <3>1
    <2>4. config' = [config EXCEPT ![f] = lines] /\ present' = present \cup {f}
          /\ UNCHANGED <<legible, owner, initJob, written>>
      BY <1>3, <2>3 DEF UserDeletesLine, ShellInitInv, InitFits
    <2> HIDE DEF lines
    <2> QED BY <1>1, <2>2, <2>4, JobStep, FileStep
  <1>4. ASSUME NEW f \in FileNumbers, UserGarbles(f) PROVE ShellInitInv'
    <2>1. UNCHANGED <<config, present, owner, initJob, written>> /\ legible' \in [FileNumbers -> BOOLEAN]
      BY <1>4, JobStep DEF UserGarbles
    <2> QED BY <2>1, JobStep, OtherStep
  <1>5. ASSUME NEW d \in Dirs, OtherOwner(d) PROVE ShellInitInv'
    <2>1. UNCHANGED <<config, present, legible, initJob, written>>
          /\ owner' \in [Dirs -> {"none", "ours", "other"}]
      BY <1>5, JobStep DEF OtherOwner
    <2> QED BY <2>1, JobStep, OtherStep
  <1> QED BY <1>2, <1>3, <1>4, <1>5 DEF UserStep

LEMMA ShellInitNextInv == ShellInitInv /\ [ShellInitNext]_initVars => ShellInitInv'
  <1> SUFFICES ASSUME ShellInitInv, [ShellInitNext]_initVars PROVE ShellInitInv'
    OBVIOUS
  <1>1. CASE UNCHANGED initVars
    BY <1>1, JobStep, OtherStep DEF initVars
  <1>2. ASSUME NEW s \in Settings, NEW modify \in BOOLEAN, InitCommand(s, modify) PROVE ShellInitInv'
    BY <1>2, StartKeepsInit
  <1>3. ASSUME NEW s \in Settings, EnsureInit(s) PROVE ShellInitInv'
    BY <1>3, StartKeepsInit
  <1>4. ASSUME NEW s \in Settings, NEW terminal \in BOOLEAN, ResetCommand(s, terminal) PROVE ShellInitInv'
    BY <1>4, StartKeepsInit
  <1>5. CASE (\E d \in Dirs : ClearDirectory(d) \/ SudoMkdir(d) \/ SudoChown(d)) \/ ClearEnds \/ MakeDirectories
    BY <1>5, DirectoriesKeepInit
  <1>6. CASE WriteConfig
    BY <1>6, WriteKeepsInit
  <1>7. CASE UserStep
    BY <1>7, UserKeepsInit
  <1> QED BY <1>1, <1>2, <1>3, <1>4, <1>5, <1>6, <1>7 DEF ShellInitNext

LEMMA WriteKeepsUserLines ==
    ASSUME ShellInitInv, [ShellInitNext]_initVars
    PROVE  UserLinesSurvive
  <1> SUFFICES ASSUME NEW f \in FileNumbers, initJob.at = "config", legible[f],
                      config'[f] \notin {config[f], <<>>}
               PROVE  AllUserLines(config'[f]) = OwnLines(config[f])
    BY DEF UserLinesSurvive
  <1>1. WriteConfig
    <2>1. ~UserStep
      BY DEF UserStep, UserAddsLine, UserDeletesLine, UserGarbles, OtherOwner
    <2>2. config' # config
      OBVIOUS
    <2> QED BY <2>1, <2>2 DEF ShellInitNext, initVars, InitCommand, EnsureInit, ResetCommand,
               ClearDirectory, SudoMkdir, SudoChown, ClearEnds, MakeDirectories
  <1> DEFINE c == ConfigFile
             existing == IF legible[c] THEN config[c] ELSE <<>>
             lines == Upsert(existing, SettingsBlock(initJob.settings))
  <1>2. \/ config' = config \/ config' = [config EXCEPT ![c] = <<>>]
        \/ config' = [config EXCEPT ![c] = lines]
    BY <1>1 DEF WriteConfig
  <1>3. f \in DOMAIN config
    BY DEF ShellInitInv, InitFits
  <1> HIDE DEF c, lines
  <1>4. f = c /\ config'[f] = lines
    BY <1>2, <1>3
  <1>5. lines = Upsert(config[f], SettingsBlock(initJob.settings))
    BY <1>4 DEF lines
  <1>6. config[f] \in Seq(ConfigLines) /\ initJob.settings \in Settings
    BY LinesOfFile, JobStep
  <1> QED BY <1>4, <1>5, <1>6, UpsertKeepsUserLines

\* The configuration files, the directories and the job of an init keep their types.
THEOREM ShellInitTypeCorrect == ShellInitSpec => []ShellInitTypeOK
  <1>1. ShellInitInv => ShellInitTypeOK
    BY DEF ShellInitInv
  <1> QED BY ShellInitInitInv, ShellInitNextInv, <1>1, PTL DEF ShellInitSpec

\* ManagedBlockIsKept for files of any length and any sequence of inits, resets and
\* edits by the user: upsert_managed_block keeps the user's lines, and the settings
\* written last are the last ones.  It rests on NoneAfterBlock: behind the end of a
\* block there are never any settings.
THEOREM ManagedBlockCorrect == ShellInitSpec => ManagedBlockIsKept
  <1>1. ShellInitInv /\ ShellInitInv' /\ [ShellInitNext]_initVars
          => [UserLinesSurvive /\ LastSettingsWin']_initVars
    <2> SUFFICES ASSUME ShellInitInv, ShellInitInv', [ShellInitNext]_initVars
                 PROVE  UserLinesSurvive /\ LastSettingsWin'
      OBVIOUS
    <2>1. LastSettingsWin'
      BY ShellInitInvImplies, PTL
    <2> QED BY <2>1, WriteKeepsUserLines
  <1> QED BY ShellInitInitInv, ShellInitNextInv, <1>1, PTL DEF ShellInitSpec, ManagedBlockIsKept

-----------------------------------------------------------------------------
(* A cask's document.                                                      *)

\* What was read is what the document says, and what is staged is of it.
DocumentInv ==
    /\ caskDoc \in Documents
    /\ resolved # NoCask => resolved = Resolved(caskDoc)
    /\ staged # NoCask => resolved \notin {NoCask, {}} /\ staged = Staged(caskDoc)

LEMMA DocumentInitInv == CaskDocumentInit => DocumentInv
  BY DEF CaskDocumentInit, DocumentInv

LEMMA DocumentNextInv == DocumentInv /\ [CaskDocumentNext]_caskDocVars => DocumentInv'
  <1> SUFFICES ASSUME DocumentInv, [CaskDocumentNext]_caskDocVars PROVE DocumentInv'
    OBVIOUS
  <1>1. CASE ReadCask
    BY <1>1 DEF ReadCask, DocumentInv
  <1>2. CASE StageCask
    BY <1>2 DEF StageCask, DocumentInv
  <1>3. CASE UNCHANGED caskDocVars
    BY <1>3 DEF caskDocVars, DocumentInv
  <1> QED BY <1>1, <1>2, <1>3 DEF CaskDocumentNext

LEMMA EntryOfAny ==
    ASSUME NEW a, a.shape \in Shapes
    PROVE  \E e : e \in EntriesOf(a)
  BY DEF EntriesOf, Shapes

LEMMA EntryOfSource ==
    ASSUME NEW a, a.shape \in Shapes, NEW n \in SourcesOf(a), ~(n = 2 /\ a.shape = "strings")
    PROVE  \E e \in EntriesOf(a) : e.source = n
  <1>1. CASE a.shape \in {"string", "single"}
    BY <1>1 DEF SourcesOf, EntriesOf
  <1>2. CASE a.shape = "strings"
    BY <1>2 DEF SourcesOf, EntriesOf
  <1>3. CASE a.shape = "targeted"
    BY <1>3 DEF SourcesOf, EntriesOf
  <1>4. CASE a.shape = "lists"
    BY <1>4 DEF SourcesOf, EntriesOf
  <1>5. CASE a.shape = "object"
    BY <1>5 DEF SourcesOf, EntriesOf
  <1> QED BY <1>1, <1>2, <1>3, <1>4, <1>5 DEF Shapes

LEMMA DocumentParts ==
    ASSUME NEW d \in Documents
    PROVE  \A i \in DOMAIN d.artifacts : d.artifacts[i].shape \in Shapes
  <1> DEFINE One == [variations : Variations, checked : BOOLEAN, depends : Dependencies,
                     download : {"archive"}, artifacts : {<<a>> : a \in Sensible} \cup {<<>>}]
             Two == [variations : {NoVariation}, checked : {TRUE}, depends : {"none"},
                     download : Downloads, artifacts : {<<a, b>> : a, b \in Sensible}]
  <1>2. \A a \in Sensible : a.shape \in Shapes
    BY DEF Sensible, Artifacts
  <1>3. CASE d \in One
    <2>2. d.artifacts = <<>> \/ \E a \in Sensible : d.artifacts = <<a>>
      BY <1>3
    <2> QED BY <1>2, <2>2
  <1>4. CASE d \in Two
    <2>2. \E a, b \in Sensible : d.artifacts = <<a, b>>
      BY <1>4
    <2> QED BY <1>2, <2>2
  <1>5. Documents = One \cup Two
    BY DEF Documents
  <1> HIDE DEF One, Two
  <1> QED BY <1>3, <1>4, <1>5

\* What is staged is all that is supported, or what has a place when no tree is copied.
StagesAll(d) == Staged(d) = {Supported(d)}
StagesPlaced(d) == Staged(d) = {Placed(d)} /\ ~TreeIsCopied(d)

LEMMA StagedOf ==
    ASSUME NEW d \in Documents, Staged(d) # {}
    PROVE  StagesAll(d) \/ StagesPlaced(d)
  <1> DEFINE whole == EntriesOfKind(d, "stage_only") # {}
  <1>1. CASE Route(d) \in {"extract", "mount"}
    <2>1. Staged(d) = StageTree(d)
      BY <1>1 DEF Staged
    <2>2. CASE whole
      BY <2>1, <2>2 DEF StageTree, StagesAll
    <2>3. CASE ~whole
      <3>1. ASSUME NEW i \in DOMAIN d.artifacts, d.artifacts[i].kind = "stage_only" PROVE FALSE
        <4> DEFINE a == d.artifacts[i]
        <4>1. \E e : e \in EntriesOf(a)
          <5>1. a.shape \in Shapes
            BY <3>1, DocumentParts
          <5> HIDE DEF a
          <5> QED BY <5>1, EntryOfAny
        <4>2. PICK e : e \in EntriesOf(a)
          BY <4>1
        <4>3. <<i, e>> \in Supported(d)
          BY <3>1, <4>2 DEF Supported
        <4>4. <<i, e>>[1] = i
          OBVIOUS
        <4>5. <<i, e>> \in EntriesOfKind(d, "stage_only")
          BY <3>1, <4>3, <4>4 DEF EntriesOfKind
        <4> QED BY <2>3, <4>5
      <3>2. ~TreeIsCopied(d)
        BY <3>1 DEF TreeIsCopied
      <3> QED BY <2>1, <2>3, <3>2 DEF StageTree, StagesPlaced
    <2> QED BY <2>2, <2>3
  <1>2. CASE Route(d) \notin {"extract", "mount"}
    <2>1. Staged(d) = StageRaw(d, Route(d))
      BY <1>2 DEF Staged
    <2>2. Staged(d) = {Placed(d)}
      BY <2>1 DEF StageRaw
    <2>3. d.download \notin {"archive", "dmg"}
      BY <1>2 DEF Route
    <2> QED BY <2>2, <2>3 DEF StagesPlaced, TreeIsCopied
  <1> QED BY <1>1, <1>2

\* When the first key has a variation, or no other has, the fields are the first key's
\* or the base's.
OwnOrNone(d) == \/ Head(PreferredKeys) \in DOMAIN d.variations
                \/ ToSet(Tail(PreferredKeys)) \cap DOMAIN d.variations = {}

LEMMA FirstVariation ==
    ASSUME NEW d, OwnOrNone(d), NEW field
    PROVE  FieldOf(d, field) = IF /\ Head(PreferredKeys) \in DOMAIN d.variations
                                  /\ field \in d.variations[Head(PreferredKeys)]
                               THEN Head(PreferredKeys) ELSE "base"
  <1> DEFINE own == {i \in DOMAIN PreferredKeys : PreferredKeys[i] \in DOMAIN d.variations}
  <1>1. /\ PreferredKeys \in Seq(CaskPlatforms) /\ PreferredKeys # <<>>
        /\ "none" \notin CaskPlatforms
    BY CaskDocumentAssumption
  <1>2. /\ DOMAIN PreferredKeys = 1..Len(PreferredKeys) /\ Len(PreferredKeys) \in Nat \ {0}
        /\ Head(PreferredKeys) = PreferredKeys[1] /\ PreferredKeys[1] \in CaskPlatforms
    BY <1>1
  <1>3. CASE Head(PreferredKeys) \in DOMAIN d.variations
    <2>1. 1 \in own /\ own \subseteq Nat \ {0}
      BY <1>2, <1>3
    <2>2. (CHOOSE i \in own : \A j \in own : i <= j) = 1
      <3> HIDE DEF own
      <3>1. 1 \in own /\ \A j \in own : 1 <= j
        BY <2>1
      <3>2. \A i \in own : (\A j \in own : i <= j) => i = 1
        BY <2>1
      <3> QED BY <3>1, <3>2
    <2>3. Variation(d) = Head(PreferredKeys)
      BY <1>2, <2>1, <2>2 DEF Variation
    <2> QED BY <1>1, <1>2, <1>3, <2>3 DEF FieldOf
  <1>4. CASE Head(PreferredKeys) \notin DOMAIN d.variations
    <2>1. ASSUME NEW i \in own PROVE FALSE
      <3>1. i # 1
        BY <1>2, <1>4, <2>1
      <3>2. i - 1 \in DOMAIN Tail(PreferredKeys) /\ Tail(PreferredKeys)[i - 1] = PreferredKeys[i]
        BY <1>1, <1>2, <2>1, <3>1
      <3>3. PreferredKeys[i] \in ToSet(Tail(PreferredKeys))
        BY <3>2 DEF ToSet
      <3> QED BY <1>4, <2>1, <3>3 DEF OwnOrNone
    <2>2. Variation(d) = "none"
      BY <2>1 DEF Variation
    <2> QED BY <1>4, <2>2 DEF FieldOf
  <1> QED BY <1>3, <1>4

LEMMA ResolvedParts ==
    ASSUME NEW d, Resolved(d) # {}
    PROVE  \E r : /\ Resolved(d) = {r}
                  /\ r.url = FieldOf(d, "url") /\ r.sha256 = FieldOf(d, "sha256")
                  /\ r.entries = Supported(d) /\ r.depends = DependenciesOf(d)
  <1> DEFINE r == [url |-> FieldOf(d, "url"), sha256 |-> FieldOf(d, "sha256"),
                   entries |-> Supported(d), depends |-> DependenciesOf(d)]
  <1>1. Resolved(d) = {r}
    BY Zenon DEF Resolved
  <1>2. /\ r.url = FieldOf(d, "url") /\ r.sha256 = FieldOf(d, "sha256")
        /\ r.entries = Supported(d) /\ r.depends = DependenciesOf(d)
    OBVIOUS
  <1> HIDE DEF r
  <1> QED BY <1>1, <1>2, Zenon

LEMMA DocumentIsTrue == DocumentInv => CaskIsItsDocument
  <1> SUFFICES ASSUME DocumentInv, staged \notin {NoCask, {}}
               PROVE  CaskIsItsDocument
    BY DEF CaskIsItsDocument
  <1> DEFINE d == caskDoc
             cask == CHOOSE r \in resolved : TRUE
  <1>1. resolved = Resolved(d) /\ resolved # {} /\ staged = Staged(d) /\ d \in Documents
    BY DEF DocumentInv
  <1>2. PICK r : /\ resolved = {r}
                 /\ r.url = FieldOf(d, "url") /\ r.sha256 = FieldOf(d, "sha256")
                 /\ r.entries = Supported(d) /\ r.depends = DependenciesOf(d)
    BY <1>1, ResolvedParts
  <1>3. cask = r
    BY <1>2
  <1>4. \A i \in DOMAIN d.artifacts : d.artifacts[i].shape \in Shapes
    BY <1>1, DocumentParts
  <1>5. ASSUME NEW i \in DOMAIN d.artifacts, d.artifacts[i].kind # "other",
               NEW n \in SourcesOf(d.artifacts[i]), ~(n = 2 /\ d.artifacts[i].shape = "strings"),
               ~(d.artifacts[i].kind \in {"installer", "stage_only"} /\ ~TreeIsCopied(d))
        PROVE  \E s \in UNION staged : s[1] = i /\ s[2].source = n
    <2>1. PICK e \in EntriesOf(d.artifacts[i]) : e.source = n
      BY <1>4, <1>5, EntryOfSource
    <2>2. <<i, e>> \in Supported(d)
      BY <1>5, <2>1 DEF Supported
    <2>3. <<i, e>>[1] = i /\ <<i, e>>[2] = e
      OBVIOUS
    <2>4. <<i, e>> \in UNION staged
      <3>1. CASE StagesAll(d)
        BY <1>1, <2>2, <3>1 DEF StagesAll
      <3>2. CASE StagesPlaced(d)
        <4>1. <<i, e>> \in Placed(d)
          BY <1>5, <2>2, <2>3, <3>2 DEF Placed, StagesPlaced
        <4> QED BY <1>1, <3>2, <4>1 DEF StagesPlaced
      <3> QED BY <1>1, <3>1, <3>2, StagedOf
    <2> QED BY <2>1, <2>3, <2>4
  <1>6. d.depends = "names" => cask.depends = 2
    BY <1>2, <1>3 DEF DependenciesOf
  <1>7. ASSUME OwnOrNone(d), NEW field \in {"url", "sha256"}
        PROVE  cask[field] = IF /\ Head(PreferredKeys) \in DOMAIN d.variations
                                /\ field \in d.variations[Head(PreferredKeys)]
                             THEN Head(PreferredKeys) ELSE "base"
    <2>1. cask[field] = FieldOf(d, field)
      BY <1>2, <1>3
    <2> QED BY <1>7, <2>1, FirstVariation
  <1> HIDE DEF cask
  <1> QED BY <1>5, <1>6, <1>7 DEF CaskIsItsDocument, OwnOrNone, cask

LEMMA DocumentTypes == DocumentInv => CaskDocumentTypeOK
  <1> SUFFICES ASSUME DocumentInv PROVE CaskDocumentTypeOK
    OBVIOUS
  <1>1. resolved # NoCask => Cardinality(resolved) <= 1
    <2> SUFFICES ASSUME resolved # NoCask PROVE Cardinality(resolved) <= 1
      OBVIOUS
    <2>1. resolved = {} \/ \E r : resolved = {r}
      BY ResolvedParts DEF DocumentInv
    <2>2. CASE resolved = {}
      BY <2>2, FS_EmptySet
    <2>3. ASSUME NEW r, resolved = {r} PROVE Cardinality(resolved) <= 1
      <3>1. Cardinality({r}) = 1
        BY FS_Singleton
      <3> QED BY <2>3, <3>1
    <2> QED BY <2>1, <2>2, <2>3
  <1>2. Placed(caskDoc) \subseteq Supported(caskDoc)
    BY DEF Placed
  <1>3. staged # NoCask => \A kept \in staged : kept \subseteq Supported(caskDoc)
    BY <1>2, StagedOf DEF DocumentInv, StagesAll, StagesPlaced
  <1> QED BY <1>1, <1>3 DEF CaskDocumentTypeOK, DocumentInv

\* The document, what was read of it and what was staged keep their types.
THEOREM DocumentTypeCorrect == CaskDocumentSpec => []CaskDocumentTypeOK
  BY DocumentInitInv, DocumentNextInv, DocumentTypes, PTL DEF CaskDocumentSpec

\* CaskIsItsDocument for any platforms and any order of preferred keys: what is staged
\* has every source of every supported artifact (EntriesOf), of an installer where the
\* whole tree is copied (StageTree), the dependencies are all read, and url and digest
\* are those of this machine's own variation.
THEOREM DocumentCorrect == CaskDocumentSpec => []CaskIsItsDocument
  BY DocumentInitInv, DocumentNextInv, DocumentIsTrue, PTL DEF CaskDocumentSpec

-----------------------------------------------------------------------------
(* The command line and the readers, side by side.                         *)

FrontInv == PlanInv /\ CommandInv /\ ShellInitInv /\ TapInv /\ TextInv /\ DocumentInv

LEMMA FrontStarts == FrontInit => FrontInv
  <1> SUFFICES ASSUME FrontInit PROVE FrontInv
    OBVIOUS
  <1>1. PlanInit /\ CommandsInit /\ ShellInitInit /\ TapSourceInit /\ CaskDocumentInit
    BY Zenon DEF FrontInit, PlanRests, TapSourceRests, CaskDocumentRests
  <1> QED BY <1>1, PlanInitInv, Initially, ShellInitInitInv, TapInitInv, TextInitInv, DocumentInitInv
     DEF FrontInv

LEMMA FrontSteps ==
    ASSUME [FrontNext]_frontVars
    PROVE  /\ [PlanNext]_planVars /\ [CommandsNext]_commandVars /\ [ShellInitNext]_initVars
           /\ [TapSourceNext]_tapVars /\ [CaskDocumentNext]_caskDocVars
  BY DEF FrontNext, frontVars

LEMMA FrontStepsKeep == FrontInv /\ [FrontNext]_frontVars => FrontInv'
  <1> SUFFICES ASSUME FrontInv, [FrontNext]_frontVars PROVE FrontInv'
    OBVIOUS
  <1>1. CommandInv'
    BY FrontSteps, StepKeeps DEF FrontInv
  <1>2. PlanInv' /\ ShellInitInv' /\ TapInv' /\ TextInv' /\ DocumentInv'
    BY FrontSteps, PlanNextInv, ShellInitNextInv, TapNextInv, TextNextInv, DocumentNextInv DEF FrontInv
  <1> QED BY <1>1, <1>2 DEF FrontInv

\* The types of the command line and of all that reads formulas and casks: plan.rs,
\* src/zb_cli/src/commands, init.rs, tap_formula.rs and cask.rs; of a formula's text, that
\* what the parser collects are numbers of its lines.
THEOREM FrontTypeCorrect == FrontSpec => []FrontTypeOK
  <1>1. FrontInv => FrontTypeOK
    BY TapInvTypes, DocumentTypes DEF FrontInv, PlanInv, CommandInv, ShellInitInv, FrontTypeOK
  <1> QED BY <1>1, FrontStarts, FrontStepsKeep, PTL DEF FrontSpec

\* The JSON of a cask and the Ruby text of a tap's formula or cask, without odd lines, are
\* read as what they say: tap_formula.rs, tap_cask.rs and cask.rs, for texts of any length.
THEOREM TextsCorrect == FrontSpec => []TextsAreReadRight
  <1>1. FrontInv => TextsAreReadRight
    BY DocumentIsTrue DEF FrontInv, TextInv, TextsAreReadRight
  <1> QED BY <1>1, FrontStarts, FrontStepsKeep, PTL DEF FrontSpec
=============================================================================
