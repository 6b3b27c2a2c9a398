------------------------------ MODULE ShellInit ------------------------------
(***************************************************************************)
(* zb init, the initialization that other commands make up for, and reset: *)
(* two directories are made and owned, with sudo where needed, and a       *)
(* managed block with the settings is put into the shell's configuration   *)
(* file, which belongs to the user and is edited between the commands.     *)
(* What the two directories hold is left to the other modules.             *)
(*                                                                         *)
(* A configuration file is a sequence of lines.                            *)
(***************************************************************************)
EXTENDS Naturals, FiniteSets, SequencesExt

CONSTANTS
    ConfigFiles,  \* candidates for the shell at hand, in the order they are tried
    Settings,     \* what a block may export: root, prefix and the like
    UserLines,    \* lines of the user
    BlockStart, BlockEnd,
    NoSettings,
    MaxLines,     \* bound: the user edits no files that hold more lines together
    InitFaults    \* "sudo", "mkdir", "open", "write", "clear": what may fail

Dirs == {"root", "prefix"}

ASSUME ShellInitAssumption ==
    /\ Len(ConfigFiles) \in Nat \ {0}
    /\ BlockStart # BlockEnd /\ {BlockStart, BlockEnd} \cap (Settings \cup UserLines) = {}
    /\ Settings \cap UserLines = {}
    /\ NoSettings \notin Settings
    /\ MaxLines \in Nat
    /\ InitFaults \subseteq {"sudo", "mkdir", "open", "write", "clear"}

VARIABLES
    config,    \* the lines of each configuration file
    present,   \* the files that are there
    legible,   \* can it be read, as UTF-8?
    owner,     \* of root and prefix: "none" (absent), "ours" or "other"
    initJob,   \* [at, settings, modify, todo, sudo]
    written    \* history: settings last written to each file, NoSettings if they
               \* were not, or the file was truncated since

initVars == <<config, present, legible, owner, initJob, written>>

FileNumbers == 1..Len(ConfigFiles)
ConfigLines == Settings \cup UserLines \cup {BlockStart, BlockEnd}

InitSteps == {"idle", "clear", "dirs", "mkdir", "chown", "config"}

ShellInitTypeOK ==
    /\ present \subseteq FileNumbers
    /\ \A f \in FileNumbers : config[f] \in IF f \in present THEN Seq(ConfigLines) ELSE {<<>>}
    /\ legible \in [FileNumbers -> BOOLEAN]
    /\ owner \in [Dirs -> {"none", "ours", "other"}]
    /\ initJob \in [at : InitSteps, settings : Settings \cup {NoSettings}, modify : BOOLEAN,
                    todo : SUBSET Dirs, prompts : BOOLEAN]
    /\ written \in [FileNumbers -> Settings \cup {NoSettings}]

NoInit == [at |-> "idle", settings |-> NoSettings, modify |-> TRUE, todo |-> {}, prompts |-> FALSE]

ShellInitInit ==
    /\ config = [f \in FileNumbers |-> <<>>]
    /\ present = {}
    /\ legible = [f \in FileNumbers |-> TRUE]
    /\ owner = [d \in Dirs |-> "none"]
    /\ initJob = NoInit
    /\ written = [f \in FileNumbers |-> NoSettings]

-----------------------------------------------------------------------------
(* The managed block.                                                      *)

SettingsBlock(s) == <<BlockStart, s, BlockEnd>>

Positions(lines, line) == {i \in 1..Len(lines) : lines[i] = line}
Least(S) == CHOOSE i \in S : \A j \in S : i <= j

\* The first start, and the first end after it.
HasBlock(lines) ==
    LET starts == Positions(lines, BlockStart) IN
    starts # {} /\ \E e \in Positions(lines, BlockEnd) : e > Least(starts)
BlockFrom(lines) == Least(Positions(lines, BlockStart))
BlockTo(lines)   == Least({e \in Positions(lines, BlockEnd) : e > BlockFrom(lines)})

\* A plausible bug: what follows the block is cut off.
UpsertDropsRest(lines, block) ==
    LET starts == Positions(lines, BlockStart) IN
    IF starts = {} THEN lines \o block
    ELSE SubSeq(lines, 1, Least(starts) - 1) \o block \o
         (IF HasBlock(lines) THEN SubSeq(lines, BlockTo(lines) + 1, Len(lines)) ELSE <<>>)

\* A plausible bug: a new block beside the old one.
UpsertPrepends(lines, block) == block \o lines

\* upsert_managed_block
Upsert(lines, block) ==
    IF HasBlock(lines)
    THEN SubSeq(lines, 1, BlockFrom(lines) - 1) \o block
         \o SubSeq(lines, BlockTo(lines) + 1, Len(lines))
    ELSE lines \o block

\* add_to_path_with_env: the first candidate that exists, or else the last.
ConfigFile ==
    IF present = {} THEN Len(ConfigFiles) ELSE Least(present)

-----------------------------------------------------------------------------
(* The commands.                                                           *)

NeedsInit == \E d \in Dirs : owner[d] # "ours"

StartInit(s, modify, prompts) ==
    initJob' = [NoInit EXCEPT !.at = "dirs", !.settings = s, !.modify = modify,
                              !.prompts = prompts]

\* zb init
InitCommand(s, modify) ==
    /\ initJob.at = "idle"
    /\ StartInit(s, modify, TRUE)
    /\ UNCHANGED <<config, present, legible, owner, written>>

\* ensure_init, on behalf of any other command, when the user agrees or
\* --auto-init is given; otherwise the command is refused.
EnsureInit(s) ==
    /\ initJob.at = "idle"
    /\ NeedsInit
    /\ StartInit(s, TRUE, TRUE)
    /\ UNCHANGED <<config, present, legible, owner, written>>

\* zb reset, confirmed; with a terminal sudo may ask for a password.
ResetCommand(s, terminal) ==
    /\ initJob.at = "idle"
    /\ \E d \in Dirs : owner[d] # "none"
    /\ initJob' = [NoInit EXCEPT !.at = "clear", !.settings = s, !.prompts = terminal,
                                 !.todo = {d \in Dirs : owner[d] # "none"}]
    /\ UNCHANGED <<config, present, legible, owner, written>>

\* The root comes first.  What cannot be cleared is removed as a whole by sudo.
ClearDirectory(d) ==
    /\ initJob.at = "clear"
    /\ d \in initJob.todo /\ (d = "prefix" => "root" \notin initJob.todo)
    /\ \/ /\ owner[d] = "ours"
          /\ initJob' = [initJob EXCEPT !.todo = @ \ {d}]
          /\ UNCHANGED owner
       \/ /\ owner[d] = "other" \/ "clear" \in InitFaults
          /\ initJob.prompts
          /\ owner' = [owner EXCEPT ![d] = "none"]
          /\ initJob' = [initJob EXCEPT !.todo = @ \ {d}]
       \/ /\ owner[d] = "other" \/ "clear" \in InitFaults
          /\ ~initJob.prompts \/ "sudo" \in InitFaults
          /\ initJob' = NoInit
          /\ UNCHANGED owner
    /\ UNCHANGED <<config, present, legible, written>>

ClearEnds ==
    /\ initJob.at = "clear" /\ initJob.todo = {}
    /\ initJob' = [initJob EXCEPT !.at = "dirs"]
    /\ UNCHANGED <<config, present, legible, owner, written>>

\* run_init: the directories are made, by sudo when one of them, or the parent of
\* one that is not there, cannot be written.
MakeDirectories ==
    /\ initJob.at = "dirs"
    /\ \/ /\ \A d \in Dirs : owner[d] # "other"
          /\ owner' = [d \in Dirs |-> "ours"]
          /\ initJob' = [initJob EXCEPT !.at = "config"]
       \/ /\ \E d \in Dirs : owner[d] # "ours"
          /\ initJob' = [initJob EXCEPT !.at = "mkdir", !.todo = Dirs]
          /\ UNCHANGED owner
       \/ /\ "mkdir" \in InitFaults
          /\ \E S \in {{}, {"root"}} :
                owner' = [d \in Dirs |-> IF d \in S /\ owner[d] = "none" THEN "ours" ELSE owner[d]]
          /\ \A d \in Dirs : owner[d] # "other"
          /\ initJob' = NoInit
    /\ UNCHANGED <<config, present, legible, written>>

\* sudo mkdir -p, one by one, then sudo chown -R, one by one.
SudoMkdir(d) ==
    /\ initJob.at = "mkdir"
    /\ d \in initJob.todo /\ (d = "prefix" => "root" \notin initJob.todo)
    /\ \/ /\ owner' = [owner EXCEPT ![d] = IF @ = "none" THEN "other" ELSE @]
          /\ initJob' = IF initJob.todo = {d}
                        THEN [initJob EXCEPT !.at = "chown", !.todo = Dirs]
                        ELSE [initJob EXCEPT !.todo = @ \ {d}]
       \/ /\ "sudo" \in InitFaults
          /\ initJob' = NoInit
          /\ UNCHANGED owner
    /\ UNCHANGED <<config, present, legible, written>>

SudoChown(d) ==
    /\ initJob.at = "chown"
    /\ d \in initJob.todo /\ (d = "prefix" => "root" \notin initJob.todo)
    /\ \/ /\ owner' = [owner EXCEPT ![d] = "ours"]
          /\ initJob' = IF initJob.todo = {d} THEN [initJob EXCEPT !.at = "config", !.todo = {}]
                        ELSE [initJob EXCEPT !.todo = @ \ {d}]
       \/ /\ "sudo" \in InitFaults
          /\ initJob' = NoInit
          /\ UNCHANGED owner
    /\ UNCHANGED <<config, present, legible, written>>

\* What cannot be read counts as empty.  A parent that cannot be made ends init with an
\* error and a file that cannot be opened with a warning; both leave the file as it is.
\* It is truncated before it is written, and a failed write is only a warning.
WriteConfig ==
    LET f == ConfigFile
        existing == IF legible[f] THEN config[f] ELSE <<>>
        Store(lines, s) ==
                         /\ config' = [config EXCEPT ![f] = lines]
                         /\ present' = present \cup {f}
                         /\ legible' = [legible EXCEPT ![f] = TRUE]
                         /\ written' = [written EXCEPT ![f] = s]
    IN
    /\ initJob.at = "config"
    /\ IF ~initJob.modify THEN UNCHANGED <<config, present, legible, written>>
       ELSE \/ Store(Upsert(existing, SettingsBlock(initJob.settings)), initJob.settings)
            \/ "open" \in InitFaults /\ UNCHANGED <<config, present, legible, written>>
            \/ "write" \in InitFaults /\ Store(<<>>, NoSettings)
    /\ initJob' = NoInit
    /\ UNCHANGED owner

-----------------------------------------------------------------------------
(* The user, between the commands.                                         *)

Editable == Len(FlattenSeq(config)) <= MaxLines

UserAddsLine(f, line) ==
    /\ initJob.at = "idle"
    /\ Editable
    /\ config' = [config EXCEPT ![f] = Append(@, line)]
    /\ present' = present \cup {f}
    /\ UNCHANGED <<legible, owner, initJob, written>>

UserDeletesLine(f, i) ==
    /\ initJob.at = "idle"
    /\ Editable /\ config[f][i] # written[f]
    /\ config' = [config EXCEPT ![f] = SubSeq(@, 1, i - 1) \o SubSeq(@, i + 1, Len(@))]
    /\ UNCHANGED <<present, legible, owner, initJob, written>>

\* A byte that is not UTF-8, say.
UserGarbles(f) ==
    /\ initJob.at = "idle"
    /\ f \in present
    /\ legible' = [legible EXCEPT ![f] = FALSE]
    /\ UNCHANGED <<config, present, owner, initJob, written>>

\* Someone runs a command with sudo.
OtherOwner(d) ==
    /\ initJob.at = "idle"
    /\ owner[d] = "ours"
    /\ owner' = [owner EXCEPT ![d] = "other"]
    /\ UNCHANGED <<config, present, legible, initJob, written>>

UserStep ==
    \/ \E f \in FileNumbers :
          \/ \E line \in UserLines : UserAddsLine(f, line)
          \/ \E i \in DOMAIN config[f] : UserDeletesLine(f, i)
          \/ UserGarbles(f)
    \/ \E d \in Dirs : OtherOwner(d)

ShellInitNext ==
    \/ \E s \in Settings : \/ \E modify \in BOOLEAN : InitCommand(s, modify)
                           \/ EnsureInit(s)
                           \/ \E terminal \in BOOLEAN : ResetCommand(s, terminal)
    \/ \E d \in Dirs : ClearDirectory(d) \/ SudoMkdir(d) \/ SudoChown(d)
    \/ ClearEnds \/ MakeDirectories \/ WriteConfig
    \/ UserStep

ShellInitSpec == ShellInitInit /\ [][ShellInitNext]_initVars

-----------------------------------------------------------------------------
(* Properties.                                                             *)

AllUserLines(lines) ==
    LET upTo[i \in 0..Len(lines)] ==
          IF i = 0 THEN <<>>
          ELSE IF lines[i] \in UserLines THEN Append(upTo[i - 1], lines[i]) ELSE upTo[i - 1]
    IN  upTo[Len(lines)]

\* The user's lines that stand in no block.
OwnLines(lines) ==
    AllUserLines(IF HasBlock(lines)
                 THEN SubSeq(lines, 1, BlockFrom(lines) - 1) \o
                      SubSeq(lines, BlockTo(lines) + 1, Len(lines))
                 ELSE lines)

\* add_to_path: an init keeps every line of the user, in their order, but those
\* between a start and the next end.  Not so for a file that cannot be read, or
\* when the write fails.
UserLinesSurvive ==
    \A f \in FileNumbers :
       initJob.at = "config" /\ legible[f] /\ config'[f] \notin {config[f], <<>>} =>
          AllUserLines(config'[f]) = OwnLines(config[f])

\* The shell ends with the settings of the last init that wrote the file: no older
\* block comes after them, whatever lines the user deleted in between.
LastSettingsWin ==
    \A f \in FileNumbers :
       written[f] # NoSettings =>
          LET blocks == {i \in 1..Len(config[f]) : config[f][i] \in Settings} IN
          \E i \in blocks : config[f][i] = written[f] /\ \A j \in blocks : j <= i

\* upsert_managed_block, over any sequence of inits, resets and edits by the user: the
\* user's lines stay, and the settings written last are those in force.
ManagedBlockIsKept == [][UserLinesSurvive /\ LastSettingsWin']_initVars
=============================================================================
