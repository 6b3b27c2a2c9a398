---------------------------- MODULE MCInstaller ----------------------------
(***************************************************************************)
(* Instances of Installer for TLC: the sets of bottles, the token map, the *)
(* commands of each process and the faults that the cfgs choose from.      *)
(***************************************************************************)
EXTENDS Installer

CONSTANTS a, b, v1, v2, k1, k2

Item(n, v, k) == [name |-> n, version |-> v, key |-> k]

\* Two formulas that share a bottle, and a new version of the first.
SharedItems == {Item(a, v1, k1), Item(a, v2, k2), Item(b, v1, k1)}

\* Two formulas that share a bottle, and a rebuilt bottle of the first.
SharedRebuiltItems == {Item(a, v1, k1), Item(a, v1, k2), Item(b, v1, k1)}

\* A formula and a new version of it.
UpgradeItems == {Item(a, v1, k1), Item(a, v2, k2)}

\* A formula, a new version, and a rebuilt bottle of the first version.
TurnoverItems == UpgradeItems \cup {Item(a, v1, k2)}

OneItem == {Item(a, v1, k1)}

OwnTokens == [n \in Names |-> n]

AllCommands    == [p \in Procs |-> CommandKinds]
InstallAndGc   == [p \in Procs |-> {"install", "uninstall", "gc"}]
Installs       == [p \in Procs |-> {"install"}]

NoFaults    == {}
AllFaults   == FaultKinds
RepairFaults == {"crash", "post_install"}
DbFaults    == {"db"}
CleanFaults == {"post_install", "save", "db", "link"}

=============================================================================
