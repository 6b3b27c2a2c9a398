-------------------------------- MODULE Plan --------------------------------
(***************************************************************************)
(* From the names a user gives to the packages to install, in order: the   *)
(* formulas are fetched batch by batch with their dependencies             *)
(* (plan_with_behavior, fetch_all_formulas), a bottle or a source build is *)
(* chosen for each, the closure is ordered (resolve_closure_with_options)  *)
(* and what is current is left out.                                        *)
(*                                                                         *)
(* Formulas are numbered in the order of their names.                      *)
(***************************************************************************)
EXTENDS Naturals, SequencesExt

CONSTANTS
    Formulas,      \* 1..n
    Tags,          \* tags a bottle may have
    PreferredTags, \* the platform's tags, best first
    FallbackTags,  \* tags taken when neither those nor "all" are there
    Docs,          \* what the API may say of each formula: [deps, macos, tags,
                   \* odd, source]: macos what macOS brings along, odd a digest in
                   \* capitals or with blanks around it
    Rows,          \* how each may be installed, [row, keg]: the row a tag, "source",
                   \* "old" or "oldsource" for another version of these, or "no",
                   \* and whether there is a keg
    Asks           \* requests: [roots, source, ignore, only]

ASSUME PlanAssumption ==
    /\ IsFiniteSet(Formulas) /\ Formulas = 1..Cardinality(Formulas)
    /\ Tags \cap {"none", "no", "source", "old", "oldsource"} = {}
    /\ PreferredTags \in Seq(Tags) /\ FallbackTags \subseteq Tags
    /\ \A f \in Formulas : Docs[f] \subseteq [deps : SUBSET Formulas, macos : SUBSET Formulas,
                                            tags : SUBSET Tags, odd : BOOLEAN, source : BOOLEAN]
    /\ \A f \in Formulas : Rows[f] \subseteq [row : Tags \cup {"no", "source", "old", "oldsource"},
                                            keg : BOOLEAN]
    /\ \A a \in Asks : a.roots \subseteq Formulas /\ a.roots # {}

VARIABLES
    ask,      \* the request
    rowOf,    \* how each formula is installed
    known,    \* the formulas fetched
    skipped,  \* formulas fetched that the platform has nothing for
    toFetch,  \* the next batch
    plan      \* "fetching", or the outcome: [result, items]

planVars == <<ask, rowOf, known, skipped, toFetch, plan>>

\* select_bottle_for_platform: the preferred tags in order, "all", any other
\* tag of the platform; "none" is UnsupportedBottle.
SelectBottle(tags) ==
    IF \E i \in DOMAIN PreferredTags : PreferredTags[i] \in tags
    THEN PreferredTags[CHOOSE i \in DOMAIN PreferredTags :
            PreferredTags[i] \in tags /\ \A j \in 1..i-1 : PreferredTags[j] \notin tags]
    ELSE IF "all" \in tags THEN "all"
    ELSE IF tags \cap FallbackTags # {} THEN CHOOSE t \in tags : t \in FallbackTags
    ELSE "none"

\* install_method_for_formula: what the row of an installation will say.
MethodOf(doc) ==
    IF (ask.source \/ SelectBottle(doc.tags) = "none") /\ doc.source
    THEN "source" ELSE SelectBottle(doc.tags)

\* installed_formula_is_current: the version and the method, or the digest as
\* normalize_sha256 leaves it, which is what the row has too, and the keg.
Current(f, doc) == rowOf[f].row = MethodOf(doc) /\ rowOf[f].keg

\* is_outdated, check_outdated: a source build by its version, a bottle by its
\* digest, as the API writes it; without a bottle for the platform there is only
\* a warning.
Outdated(row, doc) ==
    IF row \in {"source", "oldsource"} THEN row = "oldsource"
    ELSE /\ row # "no" /\ SelectBottle(doc.tags) # "none"
         /\ doc.odd \/ SelectBottle(doc.tags) # row

\* formula_dependencies: off macOS also what macOS would bring along.
Needs(doc) == doc.deps \cup doc.macos

\* missing_dependencies: what it needs and is not among the installed, which are
\* the rows that have their keg.
MissingDependencies(doc, installed) == Needs(doc) \ installed
Present == {f \in Formulas : rowOf[f].row # "no" /\ rowOf[f].keg}

PlanTypeOK ==
    /\ ask \in Asks
    /\ \A f \in Formulas : rowOf[f] \in Rows[f]
    /\ DOMAIN known \subseteq Formulas
    /\ \A f \in DOMAIN known : known[f] \in Docs[f]
    /\ skipped \subseteq Formulas /\ toFetch \subseteq Formulas
    /\ plan.result \in {"fetching", "planned", "cycle", "missing", "error"}
    /\ plan.items \in Seq(Formulas)

PlanInit ==
    /\ ask \in Asks
    /\ rowOf \in {r \in [Formulas -> UNION {Rows[f] : f \in Formulas}] :
                    \A f \in Formulas : r[f] \in Rows[f]}
    /\ known = <<>>
    /\ skipped = {}
    /\ toFetch = ask.roots
    /\ plan = [result |-> "fetching", items |-> <<>>]

Fail(result) == plan' = [result |-> result, items |-> <<>>]

\* A batch has been answered: the dependencies of what is not current are next, on
\* every platform without what macOS brings along.
Batch(docs) ==
    LET nothing == {f \in toFetch : MethodOf(docs[f]) = "none"}
        useful  == toFetch \ nothing
        wanting == {f \in useful : ask.only \/ ~Current(f, docs[f])}
        next    == IF ask.ignore THEN {} ELSE UNION {docs[f].deps : f \in wanting}
    IN  /\ known' = [f \in DOMAIN known \cup useful |->
                        IF f \in useful THEN docs[f] ELSE known[f]]
        /\ skipped' = skipped \cup nothing
        /\ toFetch' = next \ (DOMAIN known \cup skipped \cup toFetch)

FetchBatch ==
    /\ plan.result = "fetching"
    /\ toFetch # {}
    /\ \E docs \in {d \in [toFetch -> UNION {Docs[f] : f \in toFetch}] :
                        \A f \in toFetch : d[f] \in Docs[f]} : Batch(docs)
    /\ UNCHANGED <<ask, rowOf, plan>>

\* A formula does not exist, the network fails, or a digest is malformed.
FetchFails ==
    /\ plan.result = "fetching"
    /\ toFetch # {}
    /\ Fail("error")
    /\ UNCHANGED <<ask, rowOf, known, skipped, toFetch>>

-----------------------------------------------------------------------------
(* The closure and its order.                                              *)

\* A dependency that is not known does not count.
KnownDeps(f) == known[f].deps \cap DOMAIN known

WithDeps(S) == S \cup UNION {KnownDeps(f) : f \in S}

\* compute_closure: from the roots, or from their dependencies.
ClosureRoots == IF ask.only THEN UNION {KnownDeps(f) : f \in ask.roots} ELSE ask.roots

Closure ==
    LET grown[n \in 0..Cardinality(Formulas)] ==
          IF n = 0 THEN ClosureRoots ELSE WithDeps(grown[n - 1])
    IN  grown[Cardinality(Formulas)]

First(S) == CHOOSE f \in S : \A g \in S : f <= g

\* A plausible bug: formulas are taken by name alone.
OrderIgnoresDeps(S) ==
    LET out[n \in 0..Cardinality(S)] ==
          IF n = 0 THEN <<>> ELSE Append(out[n - 1], First(S \ ToSet(out[n - 1])))
    IN  out[Cardinality(S)]

\* The formulas of which all dependencies are out.
Ready(S, s) == {f \in S \ ToSet(s) : KnownDeps(f) \cap S \subseteq ToSet(s)}
OneMore(S, s) == IF Ready(S, s) = {} THEN s ELSE Append(s, First(Ready(S, s)))

\* The smallest of these, again and again, as long as there is one.
Order(S) ==
    LET out[n \in 0..Cardinality(S)] == IF n = 0 THEN <<>> ELSE OneMore(S, out[n - 1])
    IN  out[Cardinality(S)]

NotCurrent(f) == ~Current(f, known[f])

\* Those of a sequence that are not current, in its order.
ToInstall(s) ==
    LET kept[i \in 0..Len(s)] ==
          IF i = 0 THEN <<>>
          ELSE IF NotCurrent(s[i]) THEN Append(kept[i - 1], s[i]) ELSE kept[i - 1]
    IN  kept[Len(s)]

\* resolve_closure_with_options, and the items that are not current.
Resolve ==
    /\ plan.result = "fetching"
    /\ toFetch = {}
    /\ IF ~(ask.roots \subseteq DOMAIN known) THEN Fail("missing")
       ELSE IF Len(Order(Closure)) # Cardinality(Closure) THEN Fail("cycle")
       ELSE plan' = [result |-> "planned", items |-> ToInstall(Order(Closure))]
    /\ UNCHANGED <<ask, rowOf, known, skipped, toFetch>>

PlanNext == FetchBatch \/ FetchFails \/ Resolve
PlanSpec == PlanInit /\ [][PlanNext]_planVars

-----------------------------------------------------------------------------
(* Properties.                                                             *)

\* What the rows say once the items are installed.
RowAfter(f) == IF \E i \in DOMAIN plan.items : plan.items[i] = f
               THEN MethodOf(known[f]) ELSE rowOf[f].row

\* plan_with_behavior, for whatever is installed and asked for: nothing is planned
\* twice; a dependency of an item is current or planned before it; once all is
\* installed `zb missing`, which asks another question of the index and of the kegs,
\* lists for none of the items more than what the platform has nothing for and what
\* macOS would bring along, and `zb outdated`, which compares other digests, lists
\* of the packages asked for only those whose digest is oddly written.
PlanIsSound ==
    plan.result = "planned" =>
       /\ \A i, j \in DOMAIN plan.items : plan.items[i] = plan.items[j] => i = j
       /\ ~ask.ignore =>
            \A i \in DOMAIN plan.items :
               LET before == {plan.items[j] : j \in 1..i-1}
                   doc    == known[plan.items[i]]
               IN  /\ MissingDependencies(doc, before \cup Present) \subseteq skipped \cup doc.macos
                   /\ \A d \in doc.deps \ (before \cup skipped) : Current(d, known[d])
       /\ ~ask.only => \A f \in ask.roots : Outdated(RowAfter(f), known[f]) => known[f].odd
=============================================================================
