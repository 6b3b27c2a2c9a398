--------------------------- MODULE PackageManager ---------------------------
(***************************************************************************)
(* What the installer promises its users when commands do not overlap: a   *)
(* package is there or not, as a whole; only an install makes one appear,  *)
(* and only one of the bottles it set out for; only its own uninstall      *)
(* makes it go.  The store has the bottle of every package, and gc and     *)
(* repair remove no other.  Installer implements this with a database, a   *)
(* cellar and a store that are changed one after the other.                *)
(***************************************************************************)
CONSTANTS
    Clients,   \* who gives commands
    Packages,  \* names of packages
    Bottles,   \* what there is to install: [name, version, key]
    Nothing,   \* stands for "not installed"
    NoPackage, \* stands for "no name"
    Idle       \* stands for "no command"

VARIABLES
    have,      \* the packages there are: version and key of each, or Nothing
    entries,   \* the bottles in the store, by key
    doing      \* the command of each client: [op, items, name], or Idle

managerVars == <<have, entries, doing>>

Doing(op, items, n) == [op |-> op, items |-> items, name |-> n]

ManagerInit ==
    /\ have = [n \in Packages |-> Nothing]
    /\ entries = {}
    /\ doing = [c \in Clients |-> Idle]

Begin(c, what) ==
    /\ \A d \in Clients : doing[d] = Idle
    /\ doing' = [doing EXCEPT ![c] = what]
    /\ UNCHANGED <<have, entries>>

\* A command ends, well or not, also before it has done all it set out for.
End(c) ==
    /\ doing[c] # Idle
    /\ doing' = [doing EXCEPT ![c] = Idle]
    /\ UNCHANGED <<have, entries>>

Does(c, op) == doing[c] # Idle /\ doing[c].op = op

\* The items of an install without those of a name.
Without(c, n) ==
    [doing EXCEPT ![c] = Doing("install", {i \in doing[c].items : i.name # n}, NoPackage)]

\* The bottle of an item comes into the store ...
Fetch(c) ==
    /\ Does(c, "install")
    /\ \E i \in doing[c].items : entries' = entries \cup {i.key}
    /\ UNCHANGED <<have, doing>>

\* ... and the package is there, in place of another version if there was one.
Install(c) ==
    /\ Does(c, "install")
    /\ \E i \in doing[c].items :
          /\ i.key \in entries
          /\ have' = [have EXCEPT ![i.name] = [version |-> i.version, key |-> i.key]]
          /\ doing' \in {doing, Without(c, i.name)}
    /\ UNCHANGED entries

\* The install is done with an item, or gives it up.
Leave(c) ==
    /\ Does(c, "install")
    /\ \E i \in doing[c].items : doing' = Without(c, i.name)
    /\ UNCHANGED <<have, entries>>

Uninstall(c) ==
    /\ Does(c, "uninstall")
    /\ have' = [have EXCEPT ![doing[c].name] = Nothing]
    /\ UNCHANGED <<entries, doing>>

\* gc and repair remove bottles that no package comes from.
Remove(c) ==
    /\ Does(c, "clean")
    /\ \E k \in entries :
          /\ \A n \in Packages : have[n] # Nothing => have[n].key # k
          /\ entries' = entries \ {k}
    /\ UNCHANGED <<have, doing>>

ManagerNext ==
    \E c \in Clients :
        \/ \E items \in SUBSET Bottles : Begin(c, Doing("install", items, NoPackage))
        \/ \E n \in Packages : Begin(c, Doing("uninstall", {}, n))
        \/ \E op \in {"clean", "link"} : Begin(c, Doing(op, {}, NoPackage))
        \/ Fetch(c) \/ Install(c) \/ Leave(c) \/ Uninstall(c) \/ Remove(c) \/ End(c)

ManagerSpec == ManagerInit /\ [][ManagerNext]_managerVars

-----------------------------------------------------------------------------

\* The store has the bottle each package came from.
BottlesKept == \A n \in Packages : have[n] # Nothing => have[n].key \in entries
=============================================================================
