---------------------------- MODULE FormulaIndex ----------------------------
(***************************************************************************)
(* The bulk index of formulas and what is looked up in it: the formula an  *)
(* old name or an alias stands for, the names a search finds, and the      *)
(* names suggested for one that does not exist (network/api.rs FormulaIndex*)
(* and network/suggest.rs).                                                *)
(***************************************************************************)
EXTENDS Naturals, SequencesExt

CONSTANTS
    Words,        \* names, aliases and old names
    WordOrder,    \* the words, in the order of their letters
    LengthOf,     \* [Words -> Nat]
    DistanceOf,   \* [Words -> [Words -> Nat]], damerau_levenshtein
    Queries,      \* words that are asked for
    SuggestLimits,\* how many suggestions a command asks for
    Unnamed       \* the name of an entry without one

ASSUME FormulaIndexAssumption ==
    /\ WordOrder \in Seq(Words)
    /\ ToSet(WordOrder) = Words /\ Len(WordOrder) = Cardinality(Words)
    /\ LengthOf \in [Words -> Nat \ {0}]
    /\ DistanceOf \in [Queries -> [Words -> Nat]] /\ SuggestLimits \subseteq Nat
    /\ Queries \subseteq Words /\ Unnamed \notin Words

VARIABLES
    index,     \* the entries of the index
    query,     \* what is asked for
    limit,
    reply      \* the outcome of the look-up

indexVars == <<index, query, limit, reply>>

IndexEntry == [name : Words \cup {Unnamed}, aliases : SUBSET Words, oldnames : SUBSET Words]

NoReply == [found |-> {}, suggested |-> <<>>, done |-> FALSE]

\* What an entry is also known by.
AlsoKnownAs(e) == e.aliases \cup e.oldnames

\* Indexes of two entries with different names of their own.
Indexes == {es \in IndexEntry \X IndexEntry :
               /\ es[1].name # es[2].name
               /\ \A e \in {es[1], es[2]} : /\ e.aliases \cap e.oldnames = {}
                                            /\ e.name \notin AlsoKnownAs(e)
                                            /\ Cardinality(AlsoKnownAs(e)) <= 2}

FormulaIndexTypeOK ==
    /\ index \in Indexes /\ query \in Queries /\ limit \in SuggestLimits
    /\ reply.found \subseteq Words /\ ToSet(reply.suggested) \subseteq Words

FormulaIndexInit ==
    /\ index \in Indexes /\ query \in Queries /\ limit \in SuggestLimits
    /\ reply = NoReply

-----------------------------------------------------------------------------
(* Looking up.                                                             *)

PublishedNames == {index[i].name : i \in DOMAIN index} \ {Unnamed}

\* A plausible bug: only aliases are looked at.
CanonicalOfAlias(w) ==
    {index[i].name : i \in {j \in DOMAIN index : w \in index[j].aliases /\ index[j].name # Unnamed}}

\* canonical_for_alias: the first named entry that is also known by w.
Canonical(w) ==
    LET known == {i \in DOMAIN index : index[i].name # Unnamed /\ w \in AlsoKnownAs(index[i])}
    IN {index[i].name : i \in {j \in known : \A k \in known : j <= k}}

\* get_formula: by its name, else by what the index makes of it.
FoundAs(w) == IF w \in PublishedNames THEN {w} ELSE Canonical(w)

\* matches: named entries one of whose names contains the term, a whole name here.
Matches(w) == {index[i].name : i \in {j \in DOMAIN index :
                   index[j].name # Unnamed /\ w \in {index[j].name} \cup AlsoKnownAs(index[j])}}

\* candidates: every name, alias and old name, once.
Candidates == (UNION {{index[i].name} \cup AlsoKnownAs(index[i]) : i \in DOMAIN index}) \ {Unnamed}

LengthDelta(q, w) ==
    IF LengthOf[q] > LengthOf[w] THEN LengthOf[q] - LengthOf[w] ELSE LengthOf[w] - LengthOf[q]

\* is_plausible_candidate
Plausible(q, w) == LengthDelta(q, w) <= (2 * LengthOf[q]) \div 3 + 1

Longest(q, w) == IF LengthOf[q] > LengthOf[w] THEN LengthOf[q] ELSE LengthOf[w]

\* 1 - distance / longest, of which 0.45 is enough.
Similar(q, w) == 100 * (Longest(q, w) - DistanceOf[q][w]) >= 45 * Longest(q, w)

WordRank(w) == CHOOSE i \in DOMAIN WordOrder : WordOrder[i] = w

\* The order of rank_formula_suggestions: score, distance, length, name.
CloserThan(q, v, w) ==
    LET sv == (Longest(q, v) - DistanceOf[q][v]) * Longest(q, w)
        sw == (Longest(q, w) - DistanceOf[q][w]) * Longest(q, v)
    IN \/ sv > sw
       \/ sv = sw /\ DistanceOf[q][v] < DistanceOf[q][w]
       \/ sv = sw /\ DistanceOf[q][v] = DistanceOf[q][w]
          /\ \/ LengthDelta(q, v) < LengthDelta(q, w)
             \/ LengthDelta(q, v) = LengthDelta(q, w) /\ WordRank(v) < WordRank(w)

\* The k-th is the one that k - 1 others come before.
Ranked(q) ==
    LET near == {w \in Candidates : Plausible(q, w) /\ Similar(q, w)}
    IN [k \in 1..Cardinality(near) |->
           CHOOSE w \in near : Cardinality({v \in near : CloserThan(q, v, w)}) = k - 1]

\* suggest_formulas
Suggest(q, n) == SubSeq(Ranked(q), 1, IF n < Len(Ranked(q)) THEN n ELSE Len(Ranked(q)))

\* A command that asks for a formula, and for suggestions when there is none.
LookUp ==
    /\ ~reply.done
    /\ reply' = [found |-> FoundAs(query), done |-> TRUE,
                 suggested |-> IF FoundAs(query) = {} THEN Suggest(query, limit) ELSE <<>>]
    /\ UNCHANGED <<index, query, limit>>

FormulaIndexSpec == FormulaIndexInit /\ [][LookUp]_indexVars

-----------------------------------------------------------------------------
(* Properties.                                                             *)

KnownUnnamed(w) == \E i \in DOMAIN index : index[i].name = Unnamed /\ w \in AlsoKnownAs(index[i])

\* suggest_formulas, canonical_for_alias and matches agree: a name that is suggested can
\* be installed, and search finds the formula that is then installed.  Only a word of an
\* entry without a name is suggested in vain, it may even be the one asked for.
SuggestionsResolve ==
    \A w \in ToSet(reply.suggested) :
       /\ FoundAs(w) = {} => KnownUnnamed(w)
       /\ FoundAs(w) \subseteq Matches(w)
=============================================================================
