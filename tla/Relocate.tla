------------------------------ MODULE Relocate ------------------------------
(***************************************************************************)
(* Relocation of a copied keg: threads patch the homebrew paths in its     *)
(* files in parallel, first the binaries, through a temporary file and a   *)
(* rename, then the texts, in place; on macOS the load commands come last. *)
(* Of a binary there are two things to patch: its load commands (on Linux  *)
(* the search path and the interpreter), and the paths in its data, which  *)
(* Linux leaves alone and macOS cannot make longer.                        *)
(*                                                                         *)
(* Names are the regular files of the keg.  Two names may be hard links to *)
(* one inode, and the temporary file of a name replaces its extension, so  *)
(* that two names may share it.                                            *)
(***************************************************************************)
EXTENDS Naturals, FiniteSets

CONSTANTS
    FileNames,
    FileKind,        \* [FileNames -> {"dynamic", "static", "text"}]
    TempOf,          \* [FileNames -> paths of temporary files]
    KegLayouts,      \* of each name the one whose inode it has, the read-only names, and
                     \* the binaries with a path in their data shorter than the new prefix
    NoInode,
    RelocateFaults   \* "chmod", "read", "write", "elf", "tool"

ASSUME RelocateAssumption ==
    /\ FileKind \in [FileNames -> {"dynamic", "static", "text"}]
    /\ DOMAIN TempOf = FileNames
    /\ NoInode \notin FileNames \X {"old", "new"}
    /\ \A l \in KegLayouts :
          /\ l.link \in [FileNames -> FileNames] /\ l.readOnly \subseteq FileNames
          /\ l.short \subseteq FileNames
          /\ \A n \in FileNames :
                /\ l.link[l.link[n]] = l.link[n]
                /\ FileKind[l.link[n]] = FileKind[n]
                /\ n \in l.readOnly <=> l.link[n] \in l.readOnly
                /\ n \in l.short <=> l.link[n] \in l.short
    /\ RelocateFaults \subseteq {"chmod", "read", "write", "elf", "tool"}

\* The inode a name has at first, and the one its temporary file may make.
Inodes == FileNames \X {"old", "new"}
TempPaths == {TempOf[n] : n \in FileNames}

VARIABLES
    platform,   \* "linux" or "macos"
    layout,     \* the hard links and the read-only files of this keg
    inodeOf,    \* the inode of each name
    tempAt,     \* the inode of each temporary file, or NoInode
    content,    \* of each inode: whose bytes, and what of them is patched
    readOnly,   \* the inodes without the owner's write permission
    seenInodes, \* inodes a thread took on (Linux)
    patcher,    \* of each name: [at, read, fd, wasReadOnly]
    phase,      \* "binaries", "texts", "loads", then the outcome
    failed      \* names with a failure, each with "counted" or "dropped"

relocateVars == <<platform, layout, inodeOf, tempAt, content, readOnly, seenInodes, patcher,
                  phase, failed>>

Bytes == [of : FileNames, done : SUBSET {"paths", "loads"}, whole : BOOLEAN]
NoBytes(n) == [of |-> n, done |-> {}, whole |-> FALSE]
OwnBytes(n) == [of |-> n, done |-> {}, whole |-> TRUE]
PatcherSteps == {"wait", "chmod", "read", "create", "write", "rename", "mode", "end"}

RelocateTypeOK ==
    /\ platform \in {"linux", "macos"} /\ layout \in KegLayouts
    /\ inodeOf \in [FileNames -> Inodes]
    /\ tempAt \in [TempPaths -> Inodes \cup {NoInode}]
    /\ content \in [Inodes -> Bytes]
    /\ readOnly \subseteq Inodes /\ seenInodes \subseteq Inodes
    /\ patcher \in [FileNames -> [at : PatcherSteps, read : Bytes, fd : Inodes,
                                  wasReadOnly : BOOLEAN]]
    /\ phase \in {"binaries", "texts", "loads", "ok", "error"}
    /\ failed \subseteq FileNames \X {"counted", "dropped"}

InPass(p, n) == CASE p = "binaries" -> FileKind[n] # "text"
                  [] p = "texts"    -> FileKind[n] = "text"
                  [] p = "loads"    -> FileKind[n] # "text"
                  [] OTHER          -> FALSE

\* The patchers of a pass; the others rest.
Patchers(p) ==
    [n \in FileNames |-> [at |-> IF InPass(p, n) THEN "wait" ELSE "end", read |-> OwnBytes(n),
                          fd |-> <<n, "new">>, wasReadOnly |-> FALSE]]

RelocateInit ==
    /\ platform \in {"linux", "macos"}
    /\ layout \in KegLayouts
    /\ inodeOf = [n \in FileNames |-> <<layout.link[n], "old">>]
    /\ tempAt = [t \in TempPaths |-> NoInode]
    /\ content = [i \in Inodes |-> OwnBytes(i[1])]
    /\ readOnly = {inodeOf[n] : n \in layout.readOnly}
    /\ seenInodes = {}
    /\ phase = "binaries"
    /\ patcher = Patchers("binaries")
    /\ failed = {}

PatcherGoes(n, from, to) == patcher[n].at = from /\ patcher' = [patcher EXCEPT ![n].at = to]

\* The failures of texts are warnings at most, and not counted on macOS.
NoteFailure(n) == failed' = failed \cup {<<n, IF phase = "texts" THEN "dropped" ELSE "counted">>}

PatchFails(n, from, fault) ==
    /\ fault \in RelocateFaults
    /\ PatcherGoes(n, from, "end")
    /\ NoteFailure(n)
    /\ UNCHANGED <<inodeOf, tempAt, content, readOnly, seenInodes>>

-----------------------------------------------------------------------------
(* Binaries.                                                               *)

\* Linux only: an inode that a thread took on is left to it.
TakeOn(n) ==
    /\ phase = "binaries"
    /\ IF platform = "linux" /\ inodeOf[n] \in seenInodes
       THEN PatcherGoes(n, "wait", "end") /\ UNCHANGED seenInodes
       ELSE PatcherGoes(n, "wait", "chmod") /\ seenInodes' = seenInodes \cup {inodeOf[n]}
    /\ UNCHANGED <<inodeOf, tempAt, content, readOnly, failed>>

MakeWritable(n) ==
    /\ \/ /\ patcher[n].at = "chmod"
          /\ patcher' = [patcher EXCEPT ![n].at = "read",
                                        ![n].wasReadOnly = inodeOf[n] \in readOnly]
          /\ readOnly' = readOnly \ {inodeOf[n]}
          /\ UNCHANGED <<inodeOf, tempAt, content, seenInodes, failed>>
       \/ inodeOf[n] \in readOnly /\ PatchFails(n, "chmod", "chmod")

\* On macOS a path that is shorter than the new prefix is passed over.
TooShort(n) == platform = "macos" /\ n \in layout.short

\* Where the patcher goes once it has read the file.  A static binary has nothing to patch
\* and, on Linux, keeps the permission it was given; where every path is too short
\* nothing is written, and where some are the others are patched.
AfterRead(n) ==
    IF FileKind[n] = "dynamic" THEN {"create"} \cup {to \in {"mode"} : TooShort(n)}
    ELSE IF platform = "linux" THEN {"end"} ELSE {"mode"}

ReadBinary(n) ==
    /\ phase = "binaries"
    /\ \/ /\ patcher[n].at = "read"
          /\ \E to \in AfterRead(n) :
                patcher' = [patcher EXCEPT ![n].read = content[inodeOf[n]], ![n].at = to]
          /\ UNCHANGED <<inodeOf, tempAt, content, readOnly, seenInodes, failed>>
       \/ PatchFails(n, "read", "read")

\* File::create: a file that is there is emptied, whoever made it.
CreateTemp(n) ==
    LET t == TempOf[n]
        i == IF tempAt[t] = NoInode THEN <<n, "new">> ELSE tempAt[t]
    IN
    /\ patcher[n].at = "create"
    /\ patcher' = [patcher EXCEPT ![n].at = "write", ![n].fd = i]
    /\ tempAt' = [tempAt EXCEPT ![t] = i]
    /\ content' = [content EXCEPT ![i] = NoBytes(n)]
    /\ UNCHANGED <<inodeOf, readOnly, seenInodes, failed>>

\* What the bytes that a thread writes have patched.
TempPatches(n) ==
    IF platform = "linux" THEN {"loads"} ELSE IF TooShort(n) THEN {} ELSE {"paths"}

\* What another thread wrote to the file shows behind a shorter text.
WriteBytes(n, done) ==
    LET i == patcher[n].fd IN
    content' = [content EXCEPT ![i] =
                   IF content[i].whole /\ content[i].of # n THEN NoBytes(n)
                   ELSE [patcher[n].read EXCEPT !.done = @ \cup done]]

\* A plausible bug: a write that fails is taken for one that did not.
WriteUnchecked(n) ==
    /\ phase = "binaries"
    /\ PatcherGoes(n, "write", "rename")
    /\ WriteBytes(n, TempPatches(n)) \/ ("write" \in RelocateFaults /\ UNCHANGED content)
    /\ UNCHANGED <<inodeOf, tempAt, readOnly, seenInodes, failed>>

\* On Linux a search path or an interpreter that cannot be set is passed over without
\* a word, and the file is written as it is.
WriteTemp(n) ==
    /\ phase = "binaries"
    /\ \/ /\ PatcherGoes(n, "write", "rename")
          /\ \/ WriteBytes(n, TempPatches(n)) /\ UNCHANGED failed
             \/ /\ platform = "linux" /\ "elf" \in RelocateFaults
                /\ WriteBytes(n, {})
                /\ failed' = failed \cup {<<n, "dropped">>}
          /\ UNCHANGED <<inodeOf, tempAt, readOnly, seenInodes>>
       \/ PatchFails(n, "write", "write")

RenameTemp(n) ==
    LET t == TempOf[n] IN
    /\ patcher[n].at = "rename"
    /\ IF tempAt[t] = NoInode
       THEN /\ PatcherGoes(n, "rename", "end")
            /\ NoteFailure(n)
            /\ UNCHANGED <<inodeOf, tempAt>>
       ELSE /\ PatcherGoes(n, "rename", "mode")
            /\ inodeOf' = [inodeOf EXCEPT ![n] = tempAt[t]]
            /\ tempAt' = [tempAt EXCEPT ![t] = NoInode]
            /\ UNCHANGED failed
    /\ UNCHANGED <<content, readOnly, seenInodes>>

\* A plausible bug: the mode is not set back.
LeaveWritable(n) ==
    /\ PatcherGoes(n, "mode", "end")
    /\ UNCHANGED <<inodeOf, tempAt, content, readOnly, seenInodes, failed>>

RestoreMode(n) ==
    /\ PatcherGoes(n, "mode", "end")
    /\ readOnly' = IF patcher[n].wasReadOnly THEN readOnly \cup {inodeOf[n]} ELSE readOnly
    /\ UNCHANGED <<inodeOf, tempAt, content, seenInodes, failed>>

PatchBinary(n) ==
    /\ \/ TakeOn(n) \/ ReadBinary(n) \/ CreateTemp(n) \/ WriteTemp(n) \/ RenameTemp(n)
    /\ UNCHANGED <<platform, layout, phase>>

EitherPass(n) ==
    /\ MakeWritable(n) \/ RestoreMode(n)
    /\ UNCHANGED <<platform, layout, phase>>

-----------------------------------------------------------------------------
(* Texts, in place.  Their failures are warnings at most.                  *)

ReadText(n) ==
    /\ phase = "texts" /\ patcher[n].at = "wait"
    /\ LET b == content[inodeOf[n]] IN
       patcher' = [patcher EXCEPT ![n].read = b,
                                  ![n].at = IF b.whole /\ b.done = {} THEN "chmod" ELSE "end"]
    /\ UNCHANGED <<inodeOf, tempAt, content, readOnly, seenInodes, failed>>

\* A name of the same inode may have restored the permission by now.
TruncateText(n) ==
    /\ phase = "texts" /\ patcher[n].at = "read"
    /\ \/ /\ inodeOf[n] \notin readOnly
          /\ content' = [content EXCEPT ![inodeOf[n]] = NoBytes(n)]
          /\ patcher' = [patcher EXCEPT ![n].at = "write"]
          /\ UNCHANGED failed
       \/ /\ inodeOf[n] \in readOnly \/ "write" \in RelocateFaults
          /\ patcher' = [patcher EXCEPT ![n].at = "end"]
          /\ NoteFailure(n)
          /\ UNCHANGED content
    /\ UNCHANGED <<inodeOf, tempAt, readOnly, seenInodes>>

WriteText(n) ==
    /\ phase = "texts" /\ patcher[n].at = "write"
    /\ \/ /\ content' = [content EXCEPT ![inodeOf[n]] =
                            [patcher[n].read EXCEPT !.done = {"paths"}]]
          /\ patcher' = [patcher EXCEPT ![n].at = "mode"]
          /\ UNCHANGED failed
       \/ /\ "write" \in RelocateFaults
          /\ patcher' = [patcher EXCEPT ![n].at = "end"]
          /\ NoteFailure(n)
          /\ UNCHANGED content
    /\ UNCHANGED <<inodeOf, tempAt, readOnly, seenInodes>>

PatchText(n) ==
    /\ ReadText(n) \/ TruncateText(n) \/ WriteText(n)
    /\ UNCHANGED <<platform, layout, phase>>

-----------------------------------------------------------------------------
(* Load commands: install_name_tool, in place; only when it cannot be run  *)
(* is that a failure, not when it fails.                                   *)

RunTool(n) ==
    /\ phase = "loads" /\ patcher[n].at = "wait"
    /\ FileKind[n] = "dynamic"
    /\ patcher' = [patcher EXCEPT ![n].at = "end"]
    /\ \/ /\ content' = [content EXCEPT ![inodeOf[n]].done = @ \cup {"loads"}]
          /\ UNCHANGED failed
       \/ /\ "tool" \in RelocateFaults
          /\ \E how \in {"counted", "dropped"} : failed' = failed \cup {<<n, how>>}
          /\ UNCHANGED content
    /\ UNCHANGED <<platform, layout, inodeOf, tempAt, readOnly, seenInodes, phase>>

Counted == {n \in FileNames : <<n, "counted">> \in failed}

PassEnds ==
    /\ phase \in {"binaries", "texts", "loads"}
    /\ \A n \in FileNames : patcher[n].at = "end" \/ (phase = "loads" /\ FileKind[n] = "static")
    /\ phase' = CASE phase = "binaries" -> IF platform = "macos" /\ Counted # {} THEN "error"
                                           ELSE "texts"
                  [] phase = "texts"    -> IF platform = "macos" THEN "loads" ELSE "ok"
                  [] phase = "loads"    -> IF Counted # {} THEN "error" ELSE "ok"
    /\ patcher' = Patchers(phase')
    /\ UNCHANGED <<platform, layout, inodeOf, tempAt, content, readOnly, seenInodes, failed>>

RelocateNext ==
    \/ \E n \in FileNames : PatchBinary(n) \/ EitherPass(n) \/ PatchText(n) \/ RunTool(n)
    \/ PassEnds

RelocateSpec == RelocateInit /\ [][RelocateNext]_relocateVars

-----------------------------------------------------------------------------
(* Properties.                                                             *)

HardLinked(n) == \E m \in FileNames \ {n} : layout.link[m] = layout.link[n]
SharesTemp(n) ==
    \E m \in FileNames \ {n} : /\ TempOf[m] = TempOf[n]
                               /\ FileKind[m] = "dynamic" /\ FileKind[n] = "dynamic"
FailedAt(n) == \E f \in failed : layout.link[f[1]] = layout.link[n]

\* What is to be patched of a file: a binary's data only where a path can be replaced
\* by one that is not longer, and only on macOS.
Wanted(n) ==
    CASE FileKind[n] = "static" -> {}
      [] FileKind[n] = "text"   -> {"paths"}
      [] OTHER -> IF platform = "linux" \/ n \in layout.short THEN {"loads"}
                  ELSE {"paths", "loads"}

HoldsOwnBytes(n) == LET b == content[inodeOf[n]] IN b.whole /\ b.of = layout.link[n]

KeepsMode(n) == inodeOf[n] \in readOnly <=> n \in layout.readOnly

\* A relocation that is not an error leaves each file patched as far as it can be, with
\* its own bytes, unless a failure was at it, it shares its temporary file, or it is a
\* hard-linked binary on Linux; and with its own permission, unless it is hard-linked or
\* a static binary on Linux.  At every moment, and whatever fails, the name of a binary
\* that shares no temporary file is the whole of its own bytes.
RelocationIsComplete ==
    /\ phase = "ok" =>
          \A n \in FileNames :
             \/ FailedAt(n) \/ SharesTemp(n)
             \/ platform = "linux" /\ HardLinked(n) /\ FileKind[n] = "dynamic"
             \/ /\ HoldsOwnBytes(n) /\ content[inodeOf[n]].done = Wanted(n)
                /\ KeepsMode(n) \/ HardLinked(n) \/ (platform = "linux" /\ FileKind[n] = "static")
    /\ \A n \in FileNames :
          FileKind[n] = "text" \/ SharesTemp(n) \/ HoldsOwnBytes(n)
=============================================================================
