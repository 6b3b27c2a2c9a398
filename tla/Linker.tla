------------------------------- MODULE Linker -------------------------------
(***************************************************************************)
(* The links of kegs in the prefix (cellar/link.rs).  A keg holds entries, *)
(* files or directories of files; the prefix holds, at each entry, nothing,*)
(* a file of the user, a link to a keg's file or directory, or a real      *)
(* directory whose files are in turn links or files of the user.  Linking  *)
(* is a scan for conflicts, then one entry after the other: a directory in *)
(* the way that is a link is taken apart into links of its files.          *)
(***************************************************************************)
EXTENDS Naturals, FiniteSets

CONSTANTS
    Kegs,       \* <<name, version>>
    Entries,    \* paths directly under bin, lib, libexec, ... of the prefix
    Files,      \* names in an entry that is a directory
    Holds,      \* [Kegs -> [Entries -> a set of Files, or {Itself}: a file]]
    AliasesOf,  \* [names -> a set of other names opt/ knows the package by]
    Private,    \* [Entries -> SUBSET Files], never linked: pyvenv.cfg and such
                \* under libexec, site-packages of a virtualenv
    Itself, Nothing, UserFile, Directory

IsFile(k, e) == Holds[k][e] = {Itself}
IsDir(k, e)  == Holds[k][e] \notin {{}, {Itself}}

ASSUME LinkerAssumption ==
    /\ \A k \in Kegs, e \in Entries : Holds[k][e] \in {{Itself}} \cup SUBSET Files
    /\ Itself \notin Files
    /\ DOMAIN AliasesOf = {k[1] : k \in Kegs}
    /\ Private \in [Entries -> SUBSET Files]
    /\ Nothing # UserFile /\ Nothing # Directory /\ UserFile # Directory
    /\ {Nothing, UserFile, Directory} \cap Kegs = {}

VARIABLES
    entry,   \* what the prefix holds at each entry
    inside,  \* and in each entry that is a directory
    opt,     \* [names and aliases -> Kegs], the links in opt/
    onDisk,  \* kegs in the cellar
    linking  \* the command that runs: [at, keg, todo]

linkVars == <<entry, inside, opt, onDisk, linking>>

KegName(k) == k[1]
Names == {KegName(k) : k \in Kegs}
OptNames == Names \cup UNION {AliasesOf[n] : n \in Names}
Empty == [f \in Files |-> Nothing]

LinkerTypeOK ==
    /\ entry \in [Entries -> {Nothing, UserFile, Directory} \cup Kegs]
    /\ inside \in [Entries -> [Files -> {Nothing, UserFile} \cup Kegs]]
    /\ \A e \in Entries : entry[e] # Directory => inside[e] = Empty
    /\ opt \in [OptNames -> Kegs \cup {Nothing}]
    /\ onDisk \subseteq Kegs
    /\ linking \in [at : {"idle", "link", "failed", "unlink", "remove"},
                    keg : Kegs \cup {Nothing}, todo : SUBSET Entries]

Idle == [at |-> "idle", keg |-> Nothing, todo |-> {}]

LinkerInit ==
    /\ entry = [e \in Entries |-> Nothing]
    /\ inside = [e \in Entries |-> Empty]
    /\ opt = [n \in OptNames |-> Nothing]
    /\ onDisk = {}
    /\ linking = Idle

-----------------------------------------------------------------------------
(* Link.                                                                   *)

\* should_skip_link_entry
Linkable(k, e) == Holds[k][e] \ Private[e]

HoldsFile(k, e, f) == k \in onDisk /\ IsDir(k, e) /\ f \in Holds[k][e]

\* collect_conflicts, and collect_conflicts_merged for a link in the way.
Conflict(k, e) ==
    \/ IsFile(k, e) /\ entry[e] \notin {Nothing, k}
    \/ /\ IsDir(k, e)
       /\ \E f \in Linkable(k, e) :
             \/ entry[e] = Directory /\ inside[e][f] \notin {Nothing, k}
             \/ entry[e] \in Kegs \ {k} /\ HoldsFile(entry[e], e, f)

\* link_opt and link_opt_alias; a failing one is only warned about.
OptLinks(k, names) == [n \in OptNames |-> IF n \in names THEN k ELSE opt[n]]

\* An install of a keg-only formula, or with --no-link.
LinkOptOnly(k) ==
    /\ linking.at = "idle"
    /\ k \in onDisk
    /\ \E S \in SUBSET ({KegName(k)} \cup AliasesOf[KegName(k)]) : opt' = OptLinks(k, S)
    /\ UNCHANGED <<entry, inside, onDisk, linking>>

\* The aliases in opt/ (none for zb link), then link_keg: check_conflicts, then link_opt.
LinkKeg(k) ==
    /\ linking.at = "idle"
    /\ k \in onDisk
    /\ \E S \in SUBSET AliasesOf[KegName(k)] :
          IF \E e \in Entries : Conflict(k, e)
          THEN /\ opt' = OptLinks(k, S)
               /\ linking' = [at |-> "failed", keg |-> k, todo |-> {}]
          ELSE /\ opt' = OptLinks(k, S \cup {KegName(k)})
               /\ linking' = [at |-> "link", keg |-> k,
                              todo |-> {e \in Entries : Holds[k][e] # {}}]
    /\ UNCHANGED <<entry, inside, onDisk>>

\* The links of a directory of keg j, as link_recursive leaves them in an empty one.
Expanded(j, e) == [f \in Files |-> IF f \in Linkable(j, e) THEN j ELSE Nothing]

LinkFile(k, e) ==
    /\ IsFile(k, e)
    /\ IF entry[e] \in {Nothing, k}
       THEN /\ entry' = [entry EXCEPT ![e] = k]
            /\ linking' = [linking EXCEPT !.todo = @ \ {e}]
       ELSE /\ linking' = [linking EXCEPT !.at = "failed"]
            /\ UNCHANGED entry
    /\ UNCHANGED inside

\* A plausible bug: a link in the way is replaced.
LinkReplacing(k, e) ==
    /\ IsDir(k, e)
    /\ entry' = [entry EXCEPT ![e] = Directory]
    /\ inside' = [inside EXCEPT ![e] = [f \in Files |->
                     IF f \in Linkable(k, e) THEN k
                     ELSE IF entry[e] \in Kegs THEN Nothing ELSE @[f]]]
    /\ linking' = [linking EXCEPT !.todo = @ \ {e}]

\* A directory: a link in the way is removed and what it led to linked file by
\* file, if it led to a directory; a file in the way makes every link fail.
LinkDirectory(k, e) ==
    LET isLink == entry[e] \in Kegs
        leads  == isLink /\ entry[e] \in onDisk /\ IsDir(entry[e], e)
        old    == IF leads THEN Expanded(entry[e], e) ELSE inside[e]
        free   == {f \in Linkable(k, e) : old[f] \in {Nothing, k}}
        fails  == IF isLink THEN ~leads \/ free # Linkable(k, e)
                  ELSE free # Linkable(k, e) \/ (entry[e] = UserFile /\ free # {})
        With(S) == [f \in Files |-> IF f \in S THEN k ELSE old[f]]
    IN
    /\ IsDir(k, e)
    /\ entry' = [entry EXCEPT ![e] = IF @ = UserFile THEN @ ELSE Directory]
    /\ IF fails
       THEN /\ \E S \in SUBSET (IF entry'[e] = Directory THEN free ELSE {}) :
                  inside' = [inside EXCEPT ![e] = With(S)]
            /\ linking' = [linking EXCEPT !.at = "failed"]
       ELSE /\ inside' = [inside EXCEPT ![e] = IF entry'[e] = Directory THEN With(free) ELSE @]
            /\ linking' = [linking EXCEPT !.todo = @ \ {e}]

LinkEntry(e) ==
    /\ linking.at = "link"
    /\ e \in linking.todo
    /\ LinkFile(linking.keg, e) \/ LinkDirectory(linking.keg, e)
    /\ UNCHANGED <<opt, onDisk>>

LinkEnds ==
    /\ linking.at = "link" /\ linking.todo = {}
    /\ linking' = Idle
    /\ UNCHANGED <<entry, inside, opt, onDisk>>

-----------------------------------------------------------------------------
(* Unlink: by the keg's own tree.  An uninstall goes on to remove the keg. *)
(* An install whose link step failed unlinks too, and removes the keg of a *)
(* cask; zb link only reports the failure.                                 *)

\* A plausible bug: only links of the top level are removed.
UnlinkOptFirst(k, next) ==
    /\ IF linking.at = "failed" THEN linking.keg = k ELSE linking.at = "idle" /\ k \in onDisk
    /\ opt' = [opt EXCEPT ![KegName(k)] = Nothing]
    /\ entry' = [e \in Entries |-> IF entry[e] = k THEN Nothing ELSE entry[e]]
    /\ linking' = IF next = "remove" THEN [at |-> "remove", keg |-> k, todo |-> {}] ELSE Idle
    /\ UNCHANGED <<inside, onDisk>>

\* A plausible bug: a directory is removed with the files of others in it.
UnlinkWholeDirectories(k, next) ==
    /\ linking.at = "idle" /\ k \in onDisk
    /\ opt' = [opt EXCEPT ![KegName(k)] = IF @ = k THEN Nothing ELSE @]
    /\ entry' = [e \in Entries |-> IF Holds[k][e] # {} THEN Nothing ELSE entry[e]]
    /\ inside' = [e \in Entries |-> [f \in Files |->
          IF inside[e][f] = k /\ HoldsFile(k, e, f) THEN Nothing ELSE inside[e][f]]]
    /\ UNCHANGED <<onDisk, linking>>

UnlinkKeg(k, next) ==
    /\ IF linking.at = "failed" THEN linking.keg = k ELSE linking.at = "idle" /\ k \in onDisk
    /\ opt' = [opt EXCEPT ![KegName(k)] = IF @ = k THEN Nothing ELSE @]
    /\ entry' = [e \in Entries |->
          IF entry[e] = k /\ Holds[k][e] # {} THEN Nothing
          ELSE IF entry[e] = Directory /\ IsDir(k, e)
                  /\ \A f \in Files : inside[e][f] \in {Nothing} \cup {x \in {k} : f \in Holds[k][e]}
               THEN Nothing ELSE entry[e]]
    /\ inside' = [e \in Entries |-> [f \in Files |->
          IF inside[e][f] = k /\ HoldsFile(k, e, f) THEN Nothing ELSE inside[e][f]]]
    /\ linking' = IF next = "remove" THEN [at |-> "remove", keg |-> k, todo |-> {}] ELSE Idle
    /\ UNCHANGED onDisk

RemoveUnlinked ==
    /\ linking.at = "remove"
    /\ onDisk' = onDisk \ {linking.keg}
    /\ linking' = Idle
    /\ UNCHANGED <<entry, inside, opt>>

AddKeg(k) ==
    /\ linking.at = "idle"
    /\ onDisk' = onDisk \cup {k}
    /\ UNCHANGED <<entry, inside, opt, linking>>

\* The process dies between two steps, or zb link fails; the next command finds
\* what it left.
KillLink ==
    /\ linking.at # "idle"
    /\ linking' = Idle
    /\ UNCHANGED <<entry, inside, opt, onDisk>>

\* Between commands the user puts a file into the prefix, or another package
\* manager links a whole directory of a keg, which link_keg itself never does.
UserPutsFile(e, f) ==
    /\ linking.at = "idle"
    /\ \/ entry[e] = Nothing /\ entry' = [entry EXCEPT ![e] = UserFile] /\ UNCHANGED inside
       \/ /\ entry[e] = Directory /\ inside[e][f] = Nothing
          /\ inside' = [inside EXCEPT ![e][f] = UserFile] /\ UNCHANGED entry
    /\ UNCHANGED <<opt, onDisk, linking>>

LinkWholeDirectory(k, e) ==
    /\ linking.at = "idle"
    /\ k \in onDisk /\ IsDir(k, e)
    /\ entry[e] = Nothing
    /\ entry' = [entry EXCEPT ![e] = k]
    /\ UNCHANGED <<inside, opt, onDisk, linking>>

LinkerNext ==
    \/ \E k \in Kegs : \/ LinkKeg(k) \/ LinkOptOnly(k) \/ AddKeg(k)
                       \/ \E next \in {"done", "remove"} : UnlinkKeg(k, next)
                       \/ \E e \in Entries : LinkWholeDirectory(k, e)
    \/ \E e \in Entries : LinkEntry(e) \/ \E f \in Files : UserPutsFile(e, f)
    \/ LinkEnds \/ RemoveUnlinked \/ KillLink

LinkerSpec == LinkerInit /\ [][LinkerNext]_linkVars

-----------------------------------------------------------------------------
(* Properties.                                                             *)

\* What the prefix shows of keg k: its files, whichever links lead there.
Shows(k) ==
    {e \in Entries : entry[e] = k /\ IsFile(k, e)} \cup
    {x \in Entries \X Files :
        \/ inside[x[1]][x[2]] = k
        \/ entry[x[1]] = k /\ HoldsFile(k, x[1], x[2]) /\ x[2] \notin Private[x[1]]}
UserFiles == {e \in Entries : entry[e] = UserFile} \cup
             {x \in Entries \X Files : inside[x[1]][x[2]] = UserFile}

\* A step of link or unlink for one keg leaves the user's files, and every file
\* that any other keg shows in the prefix, also when a directory is taken apart.
KeepsOthers ==
    linking.keg # Nothing \/ linking'.keg # Nothing =>
       /\ UserFiles \subseteq UserFiles'
       /\ \A k \in Kegs \ {linking.keg, linking'.keg} : Shows(k) \subseteq Shows(k)'

\* A keg that was removed has no link in the prefix: unlink finds them all, also
\* in directories that were linked whole or taken apart.  The exception is an alias
\* in opt/, which unlink_opt does not look for.
NoDanglingLinks ==
    \A k \in Kegs \ onDisk :
       /\ \A e \in Entries : entry[e] # k /\ \A f \in Files : inside[e][f] # k
       /\ opt[KegName(k)] # k

\* link_keg and unlink_keg change the links of their own keg and no others, and leave
\* none behind to a keg that is gone, whatever else is in the directories they merge.
LinksAreKept == [][KeepsOthers /\ NoDanglingLinks']_linkVars
=============================================================================
