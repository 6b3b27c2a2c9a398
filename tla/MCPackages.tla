----------------------------- MODULE MCPackages -----------------------------
(***************************************************************************)
(* The components that lay packages out on the disk, side by side: of each *)
(* behaviour one component takes the steps, the others rest where they     *)
(* begin.                                                                  *)
(***************************************************************************)
EXTENDS CaskInstall, Linker, SourceBuild, Relocate, CaskDeps, DbOpen, TLC

VARIABLE active

allVars == <<active, caskVars, linkVars, sourceVars, relocateVars, caskDepsVars, dbOpenVars>>

-----------------------------------------------------------------------------
(* The instances.                                                          *)

CONSTANTS
    c1, c2, a1, a2, a3, a4, a5, p1, p2, p3, o3,  \* casks, artifacts, paths
    m, n, al, e1, e2, f1, f2,                    \* formulas, an alias, entries, files
    x1, x2, x3, s1, t1, t2                       \* files of a bottle

\* One cask with an app, two commands and an appimage, and one that claims the second
\* command for itself and runs an installer.
MCaskOf   == a1 :> c1 @@ a2 :> c1 @@ a3 :> c1 @@ a4 :> c2 @@ a5 :> c2
MKindOf   == a1 :> "app" @@ a2 :> "binary" @@ a3 :> "appimage" @@ a4 :> "binary" @@ a5 :> "installer"
MTargetOf == a1 :> p1 @@ a2 :> p2 @@ a3 :> p3 @@ a4 :> p2
MOtherTarget == a3 :> o3

\* Two versions of a formula and another formula that share a directory.
MKegs  == {<<m, 1>>, <<m, 2>>, <<n, 1>>}
MHolds == <<m, 1>> :> (e1 :> {Itself} @@ e2 :> {f1}) @@
          <<m, 2>> :> (e1 :> {Itself} @@ e2 :> {f1, f2}) @@
          <<n, 1>> :> (e1 :> {} @@ e2 :> {f2})
MAliasesOf == m :> {al} @@ n :> {}
MPrivate == [e \in Entries |-> {}]

\* Three dynamic binaries, two of them with names of equal stem, a static one and texts;
\* in the second layout two names share an inode, which holds a path that cannot be made
\* longer.
MFileKind == x1 :> "dynamic" @@ x2 :> "dynamic" @@ x3 :> "dynamic" @@
             s1 :> "static" @@ t1 :> "text" @@ t2 :> "text"
MTempOf == x1 :> "x" @@ x2 :> "x" @@ x3 :> "y" @@ s1 :> "z" @@ t1 :> "t" @@ t2 :> "t"
OwnInode == [f \in DOMAIN MFileKind |-> f]
MKegLayouts == {[link |-> OwnInode, readOnly |-> {x3, s1, t1}, short |-> {}],
                [link |-> [OwnInode EXCEPT ![x3] = x1, ![t2] = t1],
                 readOnly |-> {x1, x3, t1, t2}, short |-> {x1, x3}]}

\* A tap's cask beside the plain one, and a dependency that leads back to both.
MTokenOf == "a" :> "a" @@ "t/a" :> "a" @@ "b" :> "b" @@ "c" :> "c" @@ "d" :> "d"
MDependsOnCasks == "a" :> <<"b", "c">> @@ "t/a" :> <<"d">> @@ "b" :> <<"c">> @@
                   "c" :> <<>> @@ "d" :> <<"b", "a">>
MCaskRequests == {<<"a">>, <<"d", "c">>, <<"t/a", "b">>}

\* Two processes of this program and one that knows a later schema.
MTablesOf == 1 :> {"installed_kegs", "store_refs", "keg_files"} @@ 2 :> {"later"}
MSupports == "q1" :> 1 @@ "q2" :> 1 @@ "q3" :> 2

-----------------------------------------------------------------------------
(* The sum.                                                                *)

RelocateRests ==
    /\ platform = "linux"
    /\ layout = CHOOSE l \in KegLayouts : l.link = OwnInode /\ l.short = {}
    /\ RelocateInit

PackagesInit ==
    /\ active \in {"cask", "link", "source", "relocate", "caskdeps", "dbopen"}
    /\ CaskInit /\ LinkerInit /\ SourceInit /\ CaskDepsInit /\ DbOpenInit
    /\ IF active = "relocate" THEN RelocateInit ELSE RelocateRests

PackagesNext ==
    \/ /\ active = "cask" /\ CaskNext
       /\ UNCHANGED <<active, linkVars, sourceVars, relocateVars, caskDepsVars, dbOpenVars>>
    \/ /\ active = "link" /\ LinkerNext
       /\ UNCHANGED <<active, caskVars, sourceVars, relocateVars, caskDepsVars, dbOpenVars>>
    \/ /\ active = "source" /\ SourceNext
       /\ UNCHANGED <<active, caskVars, linkVars, relocateVars, caskDepsVars, dbOpenVars>>
    \/ /\ active = "relocate" /\ RelocateNext
       /\ UNCHANGED <<active, caskVars, linkVars, sourceVars, caskDepsVars, dbOpenVars>>
    \/ /\ active = "caskdeps" /\ CaskDepsNext
       /\ UNCHANGED <<active, caskVars, linkVars, sourceVars, relocateVars, dbOpenVars>>
    \/ /\ active = "dbopen" /\ DbOpenNext
       /\ UNCHANGED <<active, caskVars, linkVars, sourceVars, relocateVars, caskDepsVars>>

PackagesSpec == PackagesInit /\ [][PackagesNext]_allVars

\* Every component keeps its types.
PackagesTypeOK ==
    /\ CaskTypeOK /\ LinkerTypeOK /\ SourceTypeOK
    /\ RelocateTypeOK /\ CaskDepsTypeOK /\ DbOpenTypeOK
=============================================================================
