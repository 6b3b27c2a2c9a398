----------------------------- MODULE MCCommands -----------------------------
(***************************************************************************)
(* The command line and the readers of formulas and casks, side by side:   *)
(* of each behaviour one component takes the steps, the others rest where  *)
(* they begin.                                                             *)
(***************************************************************************)
EXTENDS Plan, Commands, ShellInit, TapSource, CaskDocument, TLC

VARIABLE active

frontVars == <<active, planVars, commandVars, initVars, tapVars, caskDocVars>>

-----------------------------------------------------------------------------
(* The instances.                                                          *)

CONSTANTS k1, k2, k3

\* A formula of homebrew/core, one of a tap, and a cask.
MPackageKind == k1 :> "core" @@ k2 :> "tap" @@ k3 :> "cask"

MConfigFiles == <<"bash_profile", "bashrc">>

MPreferred == <<"x86_64_linux">>
MPreferredKeys == <<"x86_64_linux", "arm64_linux">>

\* Three formulas that may depend on each other in a circle and on what macOS brings
\* along, with and without bottles for this machine and oddly written digests.
Offer(ds, ms, ts, os, ss) == [deps : ds, macos : ms, tags : ts, odd : os, source : ss]
WithKeg(rows) == [row : rows, keg : {TRUE}]
WithoutKeg(rows) == [row : rows, keg : {FALSE}]
Bottled == {"x86_64_linux"}
MDocs ==
    1 :> Offer({{}, {2}, {3}, {2, 3}}, {{}, {2}}, {Bottled, {}}, BOOLEAN, {TRUE}) @@
    2 :> Offer({{}, {1}, {3}}, {{}}, {Bottled, {}}, {FALSE}, BOOLEAN) @@
    3 :> (Offer({{}, {2}}, {{}}, {Bottled}, {FALSE}, {FALSE}) \cup
          Offer({{}}, {{}, {2}}, {{"all"}}, {TRUE}, {TRUE}))
MRows ==
    1 :> (WithKeg({"x86_64_linux", "old", "source"}) \cup WithoutKeg({"no"})) @@
    2 :> (WithKeg({"x86_64_linux", "oldsource"}) \cup WithoutKeg({"no", "x86_64_linux"})) @@
    3 :> (WithKeg({"old"}) \cup WithoutKeg({"no"}))
MAsks == [roots : {{1}, {1, 3}}, source : BOOLEAN, ignore : BOOLEAN, only : BOOLEAN]

-----------------------------------------------------------------------------
(* The sum.                                                                *)

PlanRests ==
    /\ ask = CHOOSE a \in MAsks : a.roots = {1}
    /\ rowOf = [f \in Formulas |-> [row |-> "no", keg |-> FALSE]]
    /\ PlanInit

TapSourceRests == dialect = "formula" /\ TapSourceInit

CaskDocumentRests == caskDoc = (CHOOSE d \in Documents : TRUE) /\ CaskDocumentInit

FrontInit ==
    /\ active \in {"plan", "command", "init", "tap", "document"}
    /\ CommandsInit
    /\ ShellInitInit
    /\ IF active = "document" THEN CaskDocumentInit ELSE CaskDocumentRests
    /\ IF active = "tap" THEN TapSourceInit ELSE TapSourceRests
    /\ IF active = "plan" THEN PlanInit ELSE PlanRests

FrontNext ==
    \/ /\ active = "plan" /\ PlanNext
       /\ UNCHANGED <<active, commandVars, initVars, tapVars, caskDocVars>>
    \/ /\ active = "command" /\ CommandsNext
       /\ UNCHANGED <<active, planVars, initVars, tapVars, caskDocVars>>
    \/ /\ active = "init" /\ ShellInitNext
       /\ UNCHANGED <<active, planVars, commandVars, tapVars, caskDocVars>>
    \/ /\ active = "tap" /\ TapSourceNext
       /\ UNCHANGED <<active, planVars, commandVars, initVars, caskDocVars>>
    \/ /\ active = "document" /\ CaskDocumentNext
       /\ UNCHANGED <<active, planVars, commandVars, initVars, tapVars>>

FrontSpec == FrontInit /\ [][FrontNext]_frontVars

\* Every component keeps its types.
FrontTypeOK ==
    /\ PlanTypeOK /\ CommandsTypeOK /\ ShellInitTypeOK
    /\ TapSourceTypeOK /\ CaskDocumentTypeOK

\* A tap's formula or cask and the JSON of a cask are read as what they say.
TextsAreReadRight == TapSourceMeansRuby /\ CaskIsItsDocument
=============================================================================
