---------------------------- MODULE CaskDocument ----------------------------
(***************************************************************************)
(* A cask's JSON document, read into what is downloaded, staged and moved  *)
(* (installer/cask.rs).  A document has url, digest and version, changes   *)
(* of them for other platforms, and a list of artifacts, whose values come *)
(* in several shapes.                                                      *)
(***************************************************************************)
EXTENDS Naturals, FiniteSets, SequencesExt

CONSTANTS
    CaskPlatforms,    \* keys of the variations a document may have
    PreferredKeys,    \* preferred_variation_keys of this machine (Linux or macOS), in order
    OnMacOS,          \* whether this machine runs macOS
    NoCask            \* stands for a document not read yet

ASSUME CaskDocumentAssumption ==
    /\ PreferredKeys \in Seq(CaskPlatforms) /\ PreferredKeys # <<>>
    /\ "none" \notin CaskPlatforms

\* What url and digest are of: the base, or a platform's variation.
Sources == {"base"} \cup CaskPlatforms

\* The shapes of an artifact's value: a string; a list of a string and, maybe, an
\* object with the target, or of two strings; a list of such lists; an object.
Shapes == {"string", "single", "targeted", "strings", "lists", "object"}
Targets == {"name", "subpath", "variable"}

\* Kinds of artifacts; "moved" stands for apps, fonts and suites.
Kinds == {"binary", "appimage", "moved", "artifact", "pkg", "installer", "stage_only", "other"}
Artifacts == [kind : Kinds, shape : Shapes, target : Targets]

\* What the downloaded file is, by its content and the end of its name.
Downloads == {"archive", "dmg", "pkg", "appimage", "file"}

\* The shapes of depends_on: missing, a name, a list of names, something else.
Dependencies == {"none", "name", "names", "odd"}

VARIABLES
    caskDoc,    \* [variations, artifacts, checked, depends, download]
    resolved,   \* the ResolvedCask, {} when the document is refused
    staged      \* {the sources of artifacts staged in the keg}, {} when that fails

caskDocVars == <<caskDoc, resolved, staged>>

\* For the platforms with a variation, which of the fields read are in it: there may
\* be none, of the others, such as its artifacts, nothing is read.
Variations == UNION {[P -> SUBSET {"url", "sha256"}] : P \in SUBSET CaskPlatforms}

NoVariation == [k \in {} |-> {}]

\* Artifacts without the parts their shape has no room for.
Sensible == {a \in Artifacts : /\ a.shape \notin {"targeted", "lists"} => a.target = "name"
                               /\ a.kind \in {"stage_only", "other"} => a.shape = "single"}

\* Documents with variations and an artifact, and documents with two artifacts.
Documents == [variations : Variations, checked : BOOLEAN, depends : Dependencies,
              download : {"archive"}, artifacts : {<<a>> : a \in Sensible} \cup {<<>>}]
             \cup [variations : {NoVariation}, checked : {TRUE}, depends : {"none"},
                   download : Downloads, artifacts : {<<a, b>> : a, b \in Sensible}]

-----------------------------------------------------------------------------
(* resolve_cask.                                                           *)

\* The first preferred key the document has a variation for.
Variation(d) ==
    LET own == {i \in DOMAIN PreferredKeys : PreferredKeys[i] \in DOMAIN d.variations} IN
    IF own = {} THEN "none" ELSE PreferredKeys[CHOOSE i \in own : \A j \in own : i <= j]

FieldOf(d, field) ==
    LET v == Variation(d) IN IF v # "none" /\ field \in d.variations[v] THEN v ELSE "base"

\* A plausible bug: a list has one entry.
EntriesOfFirst(a) == {[source |-> 1, target |-> IF a.shape = "targeted" THEN a.target
                                                ELSE IF a.shape = "object" THEN "object" ELSE "own"]}

\* The entries of a value, each [source, target]: a list that starts with a string is
\* one entry, whatever strings follow; a list of lists has one entry for each.
EntriesOf(a) ==
    CASE a.shape \in {"string", "single", "strings"} -> {[source |-> 1, target |-> "own"]}
      [] a.shape = "targeted" -> {[source |-> 1, target |-> a.target]}
      [] a.shape = "lists"    -> {[source |-> 1, target |-> "own"], [source |-> 2, target |-> a.target]}
      [] a.shape = "object"   -> {[source |-> 1, target |-> "object"]}

\* What a target may be: a name for a binary, an app, a font, a suite and an appimage;
\* for a generic artifact a path below its root, which must be given.
NameAccepted(e) == e.target \in {"own", "name"}
SubpathAccepted(e) == e.target \in {"name", "subpath"}

\* A pkg has no target, and only an installer is an object.
PkgAccepted(e) == e.target # "object"
InstallerAccepted(e) == e.target = "object"

Accepted(kind, e) ==
    CASE kind \in {"binary", "appimage", "moved"} -> NameAccepted(e)
      [] kind = "artifact"  -> SubpathAccepted(e)
      [] kind = "pkg"       -> PkgAccepted(e)
      [] kind = "installer" -> InstallerAccepted(e)
      [] OTHER              -> TRUE

\* The entries of the artifacts of the supported kinds.
Supported(d) ==
    UNION {{<<i, e>> : e \in EntriesOf(d.artifacts[i])} :
               i \in {j \in DOMAIN d.artifacts : d.artifacts[j].kind # "other"}}

\* How many names a document depends on.
DependenciesOf(d) == CASE d.depends = "name" -> 1 [] d.depends = "names" -> 2 [] OTHER -> 0

\* resolve_cask: refused without a digest, with an entry or a dependency that is not
\* understood, or with nothing to stage.
Resolved(d) ==
    IF \/ ~d.checked /\ FieldOf(d, "sha256") = "base"
       \/ \E s \in Supported(d) : ~Accepted(d.artifacts[s[1]].kind, s[2])
       \/ Supported(d) = {}
       \/ d.depends = "odd"
    THEN {}
    ELSE {[url |-> FieldOf(d, "url"), sha256 |-> FieldOf(d, "sha256"), entries |-> Supported(d),
           depends |-> DependenciesOf(d)]}

-----------------------------------------------------------------------------
(* Staging.                                                                *)

\* The entries of kinds that have a place in the keg: an installer has none, though it
\* is run from there.
Placed(d) == {s \in Supported(d) : d.artifacts[s[1]].kind \notin {"installer", "stage_only"}}
EntriesOfKind(d, kind) == {s \in Supported(d) : d.artifacts[s[1]].kind = kind}

\* A plausible bug: a raw download is staged, whatever else the document lists.
StageAnyRaw(d, kind) == {EntriesOfKind(d, kind)}

\* stage_raw_cask_binary, stage_raw_cask_pkg, stage_raw_cask_appimage: the file is the
\* only artifact that takes a place, or the layout is refused.
StageRaw(d, kind) ==
    LET only == EntriesOfKind(d, kind) IN
    IF Cardinality(only) = 1 /\ Placed(d) = only THEN {only} ELSE {}

\* stage_cask_artifacts, of an archive or an image; stage_only copies the whole tree.
StageTree(d) == {IF EntriesOfKind(d, "stage_only") # {} THEN Supported(d) ELSE Placed(d)}

\* is_dmg_cask, is_raw_pkg_cask, is_raw_appimage_cask, in this order, after archives.
Route(d) ==
    CASE d.download = "archive" -> "extract"
      [] d.download = "dmg"     -> "mount"
      [] d.download \in {"pkg", "appimage"} /\ Cardinality(EntriesOfKind(d, d.download)) = 1
                                -> d.download
      [] OTHER                  -> "binary"

\* A plausible bug: artifacts of kinds that are not supported are staged as well.
StagedUnknownToo(d) ==
    {UNION {{<<i, e>> : e \in EntriesOf(d.artifacts[i])} : i \in DOMAIN d.artifacts}}

Staged(d) ==
    CASE Route(d) = "extract" -> StageTree(d)
      [] Route(d) = "mount"   -> IF OnMacOS THEN StageTree(d) ELSE {}
      [] OTHER                -> StageRaw(d, Route(d))

CaskDocumentInit == caskDoc \in Documents /\ resolved = NoCask /\ staged = NoCask

ReadCask ==
    /\ resolved = NoCask
    /\ resolved' = Resolved(caskDoc)
    /\ UNCHANGED <<caskDoc, staged>>

StageCask ==
    /\ resolved \notin {NoCask, {}} /\ staged = NoCask
    /\ staged' = Staged(caskDoc)
    /\ UNCHANGED <<caskDoc, resolved>>

CaskDocumentNext == ReadCask \/ StageCask

CaskDocumentSpec == CaskDocumentInit /\ [][CaskDocumentNext]_caskDocVars

-----------------------------------------------------------------------------
(* Properties.                                                             *)

CaskDocumentTypeOK ==
    /\ caskDoc \in Documents
    /\ resolved # NoCask => Cardinality(resolved) <= 1
    /\ staged # NoCask => \A kept \in staged : kept \subseteq Supported(caskDoc)

SourcesOf(a) == IF a.shape \in {"strings", "lists"} THEN {1, 2} ELSE {1}

\* The keg gets the whole tree of the download.
TreeIsCopied(d) == /\ d.download \in {"archive", "dmg"}
                   /\ \E i \in DOMAIN d.artifacts : d.artifacts[i].kind = "stage_only"

\* resolve_cask and the staging: a cask that is installed has every source its document
\* lists in its keg, of every kind that is supported, and is of the download the document
\* offers this machine.  The exceptions: a second string in a list is lost, installers are
\* in the keg only where the whole tree is copied, and a variation of another system is
\* taken when this one has none of its own.
CaskIsItsDocument ==
    staged \notin {NoCask, {}} =>
       LET cask == CHOOSE r \in resolved : TRUE
           own  == Head(PreferredKeys)
       IN
       /\ \A i \in DOMAIN caskDoc.artifacts :
             LET a == caskDoc.artifacts[i] IN
             a.kind # "other" =>
                \A n \in SourcesOf(a) : \/ n = 2 /\ a.shape = "strings"
                                        \/ /\ a.kind \in {"installer", "stage_only"}
                                           /\ ~TreeIsCopied(caskDoc)
                                        \/ \E s \in UNION staged : s[1] = i /\ s[2].source = n
       /\ caskDoc.depends = "names" => cask.depends = 2
       /\ (own \in DOMAIN caskDoc.variations
             \/ ToSet(Tail(PreferredKeys)) \cap DOMAIN caskDoc.variations = {}) =>
             \A field \in {"url", "sha256"} :
                cask[field] = IF own \in DOMAIN caskDoc.variations /\ field \in caskDoc.variations[own]
                              THEN own ELSE "base"
=============================================================================
