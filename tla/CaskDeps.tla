------------------------------ MODULE CaskDeps ------------------------------
(***************************************************************************)
(* Casks that depend on casks and formulas: the names of a command are     *)
(* installed in order, each after what it depends on, which is installed   *)
(* by a nested call that knows the tokens it is nested in.  Names differ   *)
(* from tokens: a cask of a tap is asked for as user/tap/c and as c.  The  *)
(* first failure ends all of it.                                           *)
(***************************************************************************)
EXTENDS Naturals, SequencesExt

CONSTANTS
    CaskNames,         \* names casks are asked for by
    TokenOf,           \* [CaskNames -> the token in the cask's document]
    DependsOnCasks,    \* [CaskNames -> sequences of CaskNames]
    DependsOnFormulas, \* the names of casks that depend on formulas
    CaskRequests       \* what commands ask for, sequences of CaskNames

ASSUME CaskDepsAssumption ==
    /\ IsFiniteSet(CaskNames)
    /\ DependsOnCasks \in [CaskNames -> Seq(CaskNames)]
    /\ DependsOnFormulas \subseteq CaskNames
    /\ CaskRequests \subseteq Seq(CaskNames)

VARIABLES
    haveCasks,    \* names with a row and a keg
    haveFormulas, \* names whose formulas are installed
    namesLeft,    \* names the command has still to install
    nested        \* the installs under way, the innermost last: [cask, left]

caskDepsVars == <<haveCasks, haveFormulas, namesLeft, nested>>

Tokens == {TokenOf[n] : n \in CaskNames}

CaskDepsTypeOK ==
    /\ haveCasks \subseteq CaskNames
    /\ haveFormulas \subseteq DependsOnFormulas
    /\ namesLeft \in Seq(CaskNames)
    /\ nested \in Seq([cask : CaskNames, left : Seq(CaskNames)])
    /\ Len(nested) <= Cardinality(Tokens)

CaskDepsInit ==
    /\ haveCasks = {} /\ haveFormulas = {}
    /\ namesLeft = <<>> /\ nested = <<>>

Innermost == Last(nested)

\* The tokens in options.dependency_stack.
DependencyStack == {TokenOf[nested[i].cask] : i \in DOMAIN nested}

FailNested == namesLeft' = <<>> /\ nested' = <<>>

\* A plausible bug: a dependency that is being installed further out counts as installed.
EnterSkipsCycles(n, outer) ==
    IF TokenOf[n] \in DependencyStack THEN nested' = outer
    ELSE nested' = Append(outer, [cask |-> n, left |-> DependsOnCasks[n]])

\* install_single_cask: the document is read, then the cycle check of
\* install_cask_dependencies.
Enter(n, outer) ==
    /\ TokenOf[n] \notin DependencyStack
    /\ nested' = Append(outer, [cask |-> n, left |-> DependsOnCasks[n]])

AskForCasks(names) ==
    /\ namesLeft = <<>> /\ nested = <<>>
    /\ namesLeft' = names
    /\ UNCHANGED <<haveCasks, haveFormulas, nested>>

\* The loop of install_casks_with_options.
NextCask ==
    /\ nested = <<>> /\ namesLeft # <<>>
    /\ \/ /\ namesLeft' = Tail(namesLeft)
          /\ IF Head(namesLeft) \in haveCasks THEN UNCHANGED nested
             ELSE Enter(Head(namesLeft), nested)
       \/ FailNested
    /\ UNCHANGED <<haveCasks, haveFormulas>>

\* plan and execute of the formulas, before any cask.
InstallFormulas ==
    /\ nested # <<>> /\ Innermost.cask \in DependsOnFormulas \ haveFormulas
    /\ \/ haveFormulas' = haveFormulas \cup {Innermost.cask} /\ UNCHANGED <<namesLeft, nested>>
       \/ UNCHANGED haveFormulas /\ FailNested
    /\ UNCHANGED haveCasks

FormulasReady == nested # <<>> /\ Innermost.cask \notin DependsOnFormulas \ haveFormulas

\* The loop of install_cask_dependencies: an installed one is skipped.
NextDependency ==
    /\ FormulasReady /\ Innermost.left # <<>>
    /\ LET outer == [nested EXCEPT ![Len(nested)].left = Tail(@)]
           d     == Head(Innermost.left)
       IN \/ /\ IF d \in haveCasks THEN nested' = outer ELSE Enter(d, outer)
             /\ UNCHANGED namesLeft
          \/ FailNested
    /\ UNCHANGED <<haveCasks, haveFormulas>>

\* The rest of the install: download, stage, link, record.
InstallItself ==
    /\ FormulasReady /\ Innermost.left = <<>>
    /\ \/ /\ haveCasks' = haveCasks \cup {Innermost.cask}
          /\ nested' = Front(nested)
          /\ UNCHANGED namesLeft
       \/ FailNested /\ UNCHANGED haveCasks
    /\ UNCHANGED haveFormulas

\* Between two commands (casks take no lock, so that nothing prevents one meanwhile).
ForgetDependency(n) ==
    /\ namesLeft = <<>> /\ nested = <<>>
    /\ \/ haveCasks' = haveCasks \ {n} /\ UNCHANGED haveFormulas
       \/ haveFormulas' = haveFormulas \ {n} /\ UNCHANGED haveCasks
    /\ UNCHANGED <<namesLeft, nested>>

NestedStep == NextCask \/ InstallFormulas \/ NextDependency \/ InstallItself

CaskDepsNext ==
    \/ \E names \in CaskRequests : AskForCasks(names)
    \/ NestedStep
    \/ \E n \in CaskNames : ForgetDependency(n)

CaskDepsSpec == CaskDepsInit /\ [][CaskDepsNext]_caskDepsVars

-----------------------------------------------------------------------------
(* Properties.                                                             *)

\* install_cask_dependencies: a cask gets its row after every cask and formula it
\* depends on is installed, whichever of them depend on each other: a cycle, also
\* one through two names of one cask, leaves no row.
DependenciesFirst ==
    [][\A c \in haveCasks' \ haveCasks :
          /\ ToSet(DependsOnCasks[c]) \subseteq haveCasks
          /\ c \in DependsOnFormulas => c \in haveFormulas]_caskDepsVars
=============================================================================
