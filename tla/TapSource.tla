----------------------------- MODULE TapSource -----------------------------
(***************************************************************************)
(* Formulas and casks of taps, read from their Ruby text without Ruby:     *)
(* three passes over the lines resolve the blocks of other platforms and   *)
(* of other processors, then the stanzas at the top of the class or cask   *)
(* are collected.  Lines are counted by the word they open a block with.   *)
(*                                                                         *)
(* A text grows line by line, with what Ruby would make of it on this      *)
(* machine; when it is complete the parser reads it.                       *)
(***************************************************************************)
EXTENDS Naturals, FiniteSets, SequencesExt, FiniteSetsExt

CONSTANTS
    Dialects,        \* subset of {"formula", "cask"}
    MaxTapLines,     \* bound on the lines of a text
    NoParse


ASSUME TapSourceAssumption ==
    Dialects \subseteq {"formula", "cask"} /\ MaxTapLines \in Nat \ {0, 1}

VARIABLES
    dialect,
    text,      \* lines [is, here, at]: whether its condition holds here, its number
    open,      \* history: the blocks that are open, by their first lines, innermost last
    meaning,   \* history: what Ruby collects from the lines so far
    odd,       \* history: whether a line is one the counting is not made for
    parsed     \* what the parser made of the complete text

tapVars == <<dialect, text, open, meaning, odd, parsed>>

\* "while" is a loop with `do`, "doc" a here-document, "prose" a line of one that
\* starts with the word of a block, "eos" its terminator.
Openers == {"class", "block", "while", "on", "if", "bottle"}
Stanzas == {"dependency", "url", "version", "digest"}
LineKinds == Openers \cup Stanzas \cup {"elsif", "else", "doc", "prose", "eos", "end"}
Lines == [is : LineKinds, here : BOOLEAN, at : 1..MaxTapLines]
Facts == [dependencies : SUBSET (1..MaxTapLines), url : 0..MaxTapLines,
          version : 0..MaxTapLines, bottle : SUBSET (1..MaxTapLines)]

TapSourceTypeOK ==
    /\ dialect \in Dialects
    /\ \A i \in DOMAIN text : text[i] \in [is : LineKinds, here : BOOLEAN, at : {i}]
    /\ Len(text) <= MaxTapLines
    /\ \A i \in DOMAIN open : open[i] \in [is : Openers \cup {"doc", "else"}, at : DOMAIN text,
                                      live : BOOLEAN, taken : BOOLEAN]
    /\ meaning \in Facts /\ odd \in BOOLEAN
    /\ parsed \in Facts \cup {NoParse}

-----------------------------------------------------------------------------
(* The parser.                                                             *)

\* A loop with `do` starts with a keyword and ends with `do`: it counts twice.
Opens(l) == CASE l.is = "while" -> 2
              [] l.is \in (Openers \ {"while"}) \cup {"prose"} -> 1
              [] OTHER -> 0

DepthAfter(d, l) == IF l.is = "end" THEN IF d = 0 THEN 0 ELSE d - 1 ELSE d + Opens(l)
Depth(ls, d) ==
    LET after[n \in 0..Len(ls)] == IF n = 0 THEN d ELSE DepthAfter(after[n - 1], ls[n])
    IN after[Len(ls)]

Cut(ls, a, b) == SubSeq(ls, a, IF b < Len(ls) THEN b ELSE Len(ls))
FirstOf(S, none) == IF S = {} THEN none ELSE Min(S)

\* The line that closes the block opened by the first one, or the one past the text.
MatchingEnd(ls) ==
    FirstOf({i \in 2..Len(ls) : ls[i].is = "end" /\ Depth(Cut(ls, 2, i), 1) = 0}, Len(ls) + 1)

Inner(ls) == Cut(ls, 2, MatchingEnd(ls) - 1)
Beyond(ls) == Cut(ls, MatchingEnd(ls) + 1, Len(ls))

\* In a bottle block all platform blocks are unwrapped.  Each step of the recursion
\* has a shorter text to read.
UnwrapOn(lines) ==
    LET unwrapped[n \in 0..Len(lines)] ==
          [ls \in Seq(Lines) |->
             IF n = 0 \/ ls = <<>> THEN <<>>
             ELSE IF ls[1].is = "on"
             THEN unwrapped[n - 1][Inner(ls)] \o unwrapped[n - 1][Beyond(ls)]
             ELSE <<ls[1]>> \o unwrapped[n - 1][Tail(ls)]]
    IN unwrapped[Len(lines)][lines]

\* Outside, those of this machine are unwrapped and the others go.
ResolveOn(lines) ==
    LET resolved[n \in 0..Len(lines)] ==
          [ls \in Seq(Lines) |->
             IF n = 0 \/ ls = <<>> THEN <<>>
             ELSE IF ls[1].is = "bottle"
             THEN <<ls[1]>> \o UnwrapOn(Inner(ls)) \o Cut(ls, MatchingEnd(ls), MatchingEnd(ls))
                            \o resolved[n - 1][Beyond(ls)]
             ELSE IF ls[1].is = "on"
             THEN (IF ls[1].here THEN resolved[n - 1][Inner(ls)] ELSE <<>>)
                  \o resolved[n - 1][Beyond(ls)]
             ELSE <<ls[1]>> \o resolved[n - 1][Tail(ls)]]
    IN resolved[Len(lines)][lines]

\* The branches of a conditional start at its first line and at each elsif and else of
\* its own; the first whose condition holds is kept.
Branches(ls) ==
    {1} \cup {i \in 2..(MatchingEnd(ls) - 1) :
                  ls[i].is \in {"elsif", "else"} /\ Depth(Cut(ls, 2, i - 1), 0) = 0}

\* A plausible bug: the last branch whose condition holds is kept.
BranchLast(ls) ==
    LET kept == {i \in Branches(ls) : ls[i].is = "else" \/ ls[i].here} IN
    IF kept = {} THEN <<>>
    ELSE Cut(ls, Max(kept) + 1,
             FirstOf({i \in Branches(ls) : i > Max(kept)}, MatchingEnd(ls)) - 1)

BranchKept(ls) ==
    LET kept == {i \in Branches(ls) : ls[i].is = "else" \/ ls[i].here} IN
    IF kept = {} THEN <<>>
    ELSE Cut(ls, Min(kept) + 1,
             FirstOf({i \in Branches(ls) : i > Min(kept)}, MatchingEnd(ls)) - 1)

ResolveArch(lines) ==
    LET resolved[n \in 0..Len(lines)] ==
          [ls \in Seq(Lines) |->
             IF n = 0 \/ ls = <<>> THEN <<>>
             ELSE IF ls[1].is = "if"
             THEN resolved[n - 1][BranchKept(ls)] \o resolved[n - 1][Beyond(ls)]
             ELSE <<ls[1]>> \o resolved[n - 1][Tail(ls)]]
    IN resolved[Len(lines)][lines]

\* The lines of a cask without those of its here-documents.
WithoutDocs(ls) ==
    LET quoted == {i \in DOMAIN ls : \E a, b \in DOMAIN ls :
                      /\ a < i /\ i <= b /\ ls[a].is = "doc" /\ ls[b].is = "eos"
                      /\ \A c \in a..(b - 1) : ls[c].is # "eos"}
    IN [i \in DOMAIN ls |-> IF i \in quoted THEN [ls[i] EXCEPT !.is = "eos"] ELSE ls[i]]

\* The body of the first line of a kind, to the end that closes it; the whole text
\* when nothing does.
BodyOf(ls, kind) ==
    LET from == FirstOf({i \in DOMAIN ls : ls[i].is = kind}, 0)
        block == Cut(ls, from, Len(ls))
    IN IF from = 0 \/ MatchingEnd(block) > Len(block) THEN ls ELSE Inner(block)

AtTop(body) == {i \in DOMAIN body : Depth(Cut(body, 1, i - 1), 0) = 0}
NumberedAs(ls, S, kind) == {ls[i].at : i \in {j \in S : ls[j].is = kind}}

\* A formula's url is the first at the top of its class, a cask's the first of the
\* text; the version is the first of the text, wherever it stands.
UrlOf(d, ls, body) ==
    FirstOf(IF d = "cask" THEN NumberedAs(ls, DOMAIN ls, "url")
            ELSE NumberedAs(body, AtTop(body), "url"), 0)

VersionOf(ls) == FirstOf(NumberedAs(ls, DOMAIN ls, "version"), 0)

\* The first bottle block of the text, and the digests in it.
BottleBlock(ls) ==
    LET bottles == {i \in DOMAIN ls : ls[i].is = "bottle"} IN
    IF bottles = {} THEN <<>> ELSE BodyOf(Cut(ls, Min(bottles), Len(ls)), "bottle")

DigestsOf(block) == NumberedAs(block, DOMAIN block, "digest")

\* The artifacts of a cask are collected as the dependencies of a formula are.
Parsed(d, ls) ==
    LET live == ResolveArch(ResolveOn(ls))
        body == BodyOf(IF d = "cask" THEN WithoutDocs(live) ELSE live, "class")
    IN [dependencies |-> NumberedAs(body, AtTop(body), "dependency"),
        url |-> UrlOf(d, live, body),
        version |-> VersionOf(live),
        bottle |-> DigestsOf(BottleBlock(live))]

-----------------------------------------------------------------------------
(* Texts, and what Ruby makes of them.                                     *)

NoFacts == [dependencies |-> {}, url |-> 0, version |-> 0, bottle |-> {}]

TapSourceInit ==
    /\ dialect \in Dialects
    /\ text = <<[is |-> "class", here |-> TRUE, at |-> 1]>>
    /\ open = <<[is |-> "class", at |-> 1, live |-> TRUE, taken |-> TRUE]>>
    /\ meaning = NoFacts /\ odd = FALSE
    /\ parsed = NoParse

Within(kind) == \E i \in DOMAIN open : open[i].is = kind
Conditional(b) == b.is \in {"on", "if", "else"}

\* Whether a stanza here is one of the class: conditions hold, nothing else is open.
OnTop == \A i \in 2..Len(open) : Conditional(open[i])
OfTheClass == \A i \in 2..Len(open) : Conditional(open[i]) /\ open[i].live
OfTheBottle ==
    \E i \in DOMAIN open :
       /\ open[i].is = "bottle"
       /\ \A j \in 2..Len(open) : j # i => /\ Conditional(open[j])
                                           /\ open[j].live \/ (j > i /\ open[j].is = "on")

\* Room for this line and for the ends of what is open.
AddLine(kind, here) ==
    /\ parsed = NoParse /\ open # <<>>
    /\ text' = Append(text, [is |-> kind, here |-> here, at |-> Len(text) + 1])
    /\ UNCHANGED <<dialect, parsed>>

RoomFor(n) == Len(text) + Len(open) + n <= MaxTapLines
Writing == ~Within("doc")

Stanza(kind) ==
    /\ RoomFor(1) /\ Writing
    /\ kind = "digest" <=> Within("bottle")
    /\ kind \in {"url", "version"} /\ OfTheClass => meaning[kind] = 0
    /\ AddLine(kind, TRUE)
    /\ LET i == Len(text) + 1 IN
       meaning' = CASE kind = "dependency" /\ OfTheClass -> [meaning EXCEPT !.dependencies = @ \cup {i}]
                    [] kind \in {"url", "version"} /\ OfTheClass -> [meaning EXCEPT ![kind] = i]
                    [] kind = "digest" /\ OfTheBottle -> [meaning EXCEPT !.bottle = @ \cup {i}]
                    [] OTHER -> meaning
    /\ odd' = (odd \/ (~OnTop /\ (kind = "version" \/ (kind = "url" /\ dialect = "cask"))))
    /\ UNCHANGED open

\* A text has one bottle block, at the top or in a condition.
OpenBlock(kind, here) ==
    /\ RoomFor(2) /\ Writing
    /\ kind = "bottle" => /\ dialect = "formula"
                          /\ \A i \in DOMAIN text : text[i].is # "bottle"
                          /\ OnTop
    /\ kind = "while" => Within("block")
    /\ Within("bottle") => Conditional([is |-> kind])
    /\ kind \notin {"on", "if"} => here
    /\ AddLine(kind, here)
    /\ open' = Append(open, [is |-> kind, at |-> Len(text) + 1, live |-> here, taken |-> here])
    /\ odd' = (odd \/ kind = "while")
    /\ UNCHANGED meaning

\* Of a conditional, the first branch whose condition holds is taken.
NextBranch(kind, here) ==
    /\ RoomFor(1) /\ Writing
    /\ open # <<>> /\ Last(open).is = "if"
    /\ kind = "else" => here
    /\ AddLine(kind, here)
    /\ open' = [open EXCEPT ![Len(open)] =
                  [is |-> IF kind = "else" THEN "else" ELSE "if", at |-> @.at,
                   live |-> here /\ ~@.taken, taken |-> here \/ @.taken]]
    /\ UNCHANGED <<meaning, odd>>

OpenDoc ==
    /\ RoomFor(2) /\ Writing /\ ~Within("bottle")
    /\ dialect = "formula" => Within("block")
    /\ AddLine("doc", TRUE)
    /\ open' = Append(open, [is |-> "doc", at |-> Len(text) + 1, live |-> TRUE, taken |-> TRUE])
    /\ UNCHANGED <<meaning, odd>>

Prose ==
    /\ RoomFor(1) /\ Within("doc")
    /\ AddLine("prose", TRUE)
    /\ odd' = (odd \/ dialect = "formula" \/ Len(open) > 2)
    /\ UNCHANGED <<open, meaning>>

CloseBlock ==
    /\ AddLine(IF Within("doc") THEN "eos" ELSE "end", TRUE)
    /\ open' = Front(open)
    /\ UNCHANGED <<meaning, odd>>

ReadTap ==
    /\ open = <<>> /\ parsed = NoParse
    /\ parsed' = Parsed(dialect, text)
    /\ UNCHANGED <<dialect, text, open, meaning, odd>>

TapSourceNext ==
    \/ \E k \in Stanzas : Stanza(k)
    \/ \E k \in Openers \ {"class"}, h \in BOOLEAN : OpenBlock(k, h)
    \/ \E k \in {"elsif", "else"}, h \in BOOLEAN : NextBranch(k, h)
    \/ OpenDoc \/ Prose \/ CloseBlock \/ ReadTap

TapSourceSpec == TapSourceInit /\ [][TapSourceNext]_tapVars

-----------------------------------------------------------------------------
(* Properties.                                                             *)

\* What is collected from the text of a formula or cask is what Ruby collects on this
\* machine: the dependencies, url, version and bottles of its own class, of its own
\* platform and of the branch that is taken.  The exceptions are texts with a loop
\* with `do`, with a here-document that has a line starting with the word of a block
\* (but for one at the top of a cask), or with the version of a nested block.
TapSourceMeansRuby == parsed # NoParse /\ ~odd => parsed = meaning
=============================================================================
