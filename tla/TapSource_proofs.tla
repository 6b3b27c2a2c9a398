------------------------- MODULE TapSource_proofs -------------------------
(***************************************************************************)
(* Proofs about TapSource, for texts of any length: what the parser makes  *)
(* of a text is made of its lines, and is what Ruby makes of them.         *)
(*                                                                         *)
(* While a text is written the parser has not read it.  Agrees says what   *)
(* the parser would find: of every block that is open, the lines the       *)
(* passes leave of what it has so far (Lives), and that Ruby has collected *)
(* exactly the stanzas in the blocks that count.  A line is added to what  *)
(* is left of the innermost block (Stanza), opens a block with nothing     *)
(* left (OpenBlock, OpenDoc), goes on with a branch (NextBranch), or moves *)
(* what is left of a block into the one around it (CloseBlock).            *)
(***************************************************************************)
EXTENDS TapText_proofs

-----------------------------------------------------------------------------
(* A text that grows has room for the ends of what is open.                *)

Blocks == [is : Openers \cup {"doc", "else"}, at : 1..MaxTapLines, live : BOOLEAN, taken : BOOLEAN]

TapInv ==
    /\ dialect \in Dialects
    /\ text \in Seq(Lines) /\ \A i \in DOMAIN text : text[i].at = i
    /\ open \in Seq(Blocks) /\ \A i \in DOMAIN open : open[i].at <= Len(text)
    /\ Len(text) + Len(open) <= MaxTapLines
    /\ meaning \in Facts /\ odd \in BOOLEAN
    /\ parsed \in Facts \cup {NoParse}

\* The types follow.
LEMMA TapInvTypes == TapInv => TapSourceTypeOK
  <1> SUFFICES ASSUME TapInv PROVE TapSourceTypeOK
    OBVIOUS
  <1>1. \A i \in DOMAIN text : text[i] \in [is : LineKinds, here : BOOLEAN, at : {i}]
    <2>1. \A i \in DOMAIN text : text[i] \in Lines /\ text[i].at = i
      BY DEF TapInv
    <2> QED BY <2>1 DEF Lines
  <1>2. \A i \in DOMAIN open : open[i] \in Blocks /\ open[i].at \in DOMAIN text
    <2>1. \A i \in DOMAIN open : open[i] \in Blocks /\ open[i].at <= Len(text)
      BY DEF TapInv
    <2>2. Len(text) \in Nat /\ DOMAIN text = 1..Len(text)
      BY DEF TapInv
    <2> QED BY <2>1, <2>2 DEF Blocks
  <1>3. Len(text) <= MaxTapLines
    BY TapSourceAssumption DEF TapSourceAssumption, TapInv
  <1> QED BY <1>1, <1>2, <1>3 DEF TapInv, TapSourceTypeOK, Blocks

\* A text starts with its class.
LEMMA TapInitInv == TapSourceInit => TapInv
  <1> SUFFICES ASSUME TapSourceInit PROVE TapInv
    OBVIOUS
  <1>1. MaxTapLines \in Nat /\ MaxTapLines >= 2
    BY TapSourceAssumption DEF TapSourceAssumption
  <1> DEFINE l == [is |-> "class", here |-> TRUE, at |-> 1]
             b == [is |-> "class", at |-> 1, live |-> TRUE, taken |-> TRUE]
  <1>2. l \in Lines /\ b \in Blocks /\ l.at = 1 /\ b.at = 1
    BY <1>1 DEF Lines, LineKinds, Blocks, Openers
  <1>3. NoFacts \in Facts
    BY <1>1 DEF NoFacts, Facts
  <1>4. text = <<l>> /\ open = <<b>>
    BY DEF TapSourceInit
  <1> HIDE DEF l, b
  <1>5. text \in Seq(Lines) /\ Len(text) = 1 /\ DOMAIN text = {1} /\ text[1] = l
    BY <1>2, <1>4
  <1>6. open \in Seq(Blocks) /\ Len(open) = 1 /\ \A i \in DOMAIN open : open[i].at <= Len(text)
    <2>1. open \in Seq(Blocks) /\ Len(open) = 1 /\ DOMAIN open = {1} /\ open[1] = b
      BY <1>2, <1>4
    <2> QED BY <1>2, <1>5, <2>1
  <1>7. \A i \in DOMAIN text : text[i].at = i
    BY <1>2, <1>5
  <1>8. Len(text) + Len(open) <= MaxTapLines
    BY <1>1, <1>5, <1>6
  <1>9. dialect \in Dialects /\ meaning \in Facts /\ odd \in BOOLEAN /\ parsed = NoParse
    BY <1>3 DEF TapSourceInit
  <1> QED BY <1>5, <1>6, <1>7, <1>8, <1>9 DEF TapInv

\* A line more: the text is one line longer.
LEMMA LineAdded ==
    ASSUME TapInv, NEW kind \in LineKinds, NEW here \in BOOLEAN, AddLine(kind, here),
           Len(text) + 1 <= MaxTapLines
    PROVE  /\ text' \in Seq(Lines) /\ \A i \in DOMAIN text' : text'[i].at = i
           /\ Len(text') = Len(text) + 1
           /\ Len(text) + 1 \in 1..MaxTapLines
           /\ dialect' \in Dialects /\ parsed' \in Facts \cup {NoParse}
  <1> DEFINE l == [is |-> kind, here |-> here, at |-> Len(text) + 1]
  <1>1. Len(text) \in Nat /\ MaxTapLines \in Nat
    BY TapSourceAssumption DEF TapSourceAssumption, TapInv
  <1>2. l \in Lines /\ l.at = Len(text) + 1
    BY <1>1 DEF Lines
  <1>3. text' = Append(text, l)
    BY DEF AddLine
  <1> HIDE DEF l
  <1>4. text' \in Seq(Lines) /\ Len(text') = Len(text) + 1
    BY <1>2, <1>3 DEF TapInv
  <1>5. \A i \in DOMAIN text' : text'[i].at = i
    BY <1>1, <1>2, <1>3 DEF TapInv
  <1> QED BY <1>1, <1>4, <1>5 DEF AddLine, TapInv

\* Each line leaves room for the ends of what is open.
LEMMA TapNextInv == TapInv /\ [TapSourceNext]_tapVars => TapInv'
  <1> SUFFICES ASSUME TapInv, [TapSourceNext]_tapVars PROVE TapInv'
    OBVIOUS
  <1>0. /\ Len(text) \in Nat /\ Len(open) \in Nat /\ MaxTapLines \in Nat
        /\ meaning \in Facts /\ odd \in BOOLEAN /\ open \in Seq(Blocks)
        /\ Len(text) + Len(open) <= MaxTapLines
        /\ \A i \in DOMAIN open : open[i].at <= Len(text)
    BY TapSourceAssumption DEF TapSourceAssumption, TapInv
  <1>11. \A j \in DOMAIN open : open[j].at \in Int /\ open[j].at <= Len(text) + 1
    <2>1. \A j \in DOMAIN open : open[j] \in Blocks
      BY <1>0
    <2>2. \A b \in Blocks : b.at \in Int
      BY <1>0 DEF Blocks
    <2> QED BY <1>0, <2>1, <2>2
  <1>1. CASE UNCHANGED tapVars
    BY <1>1 DEF tapVars, TapInv
  <1>2. ASSUME NEW k \in Stanzas, Stanza(k) PROVE TapInv'
    <2> DEFINE i == Len(text) + 1
    <2>1. RoomFor(1) /\ AddLine(k, TRUE) /\ k \in LineKinds /\ UNCHANGED open
      BY <1>2 DEF Stanza, LineKinds
    <2>2. i \in 1..MaxTapLines
      BY <1>0, <2>1 DEF RoomFor
    <2>3. meaning' \in {[meaning EXCEPT !.dependencies = @ \cup {i}], [meaning EXCEPT !.bottle = @ \cup {i}],
                        meaning} \/ (k \in {"url", "version"} /\ meaning' = [meaning EXCEPT ![k] = i])
      BY <1>2 DEF Stanza
    <2>4. meaning' \in Facts
      <3> HIDE DEF i
      <3>1. CASE meaning' = [meaning EXCEPT !.dependencies = @ \cup {i}]
        BY <1>0, <2>2, <3>1 DEF Facts
      <3>2. CASE meaning' = [meaning EXCEPT !.bottle = @ \cup {i}]
        BY <1>0, <2>2, <3>2 DEF Facts
      <3>3. CASE k = "url" /\ meaning' = [meaning EXCEPT !.url = i]
        BY <1>0, <2>2, <3>3 DEF Facts
      <3>4. CASE k = "version" /\ meaning' = [meaning EXCEPT !.version = i]
        BY <1>0, <2>2, <3>4 DEF Facts
      <3> QED BY <1>0, <2>3, <3>1, <3>2, <3>3, <3>4
    <2>5. odd' \in BOOLEAN
      BY <1>2 DEF Stanza
    <2>6. /\ text' \in Seq(Lines) /\ \A j \in DOMAIN text' : text'[j].at = j
          /\ Len(text') = Len(text) + 1
          /\ dialect' \in Dialects /\ parsed' \in Facts \cup {NoParse}
      <3>1. Len(text) + 1 <= MaxTapLines
        BY <1>0, <2>2
      <3> QED BY <2>1, <3>1, LineAdded
    <2>7. /\ Len(text') + Len(open') <= MaxTapLines /\ open' \in Seq(Blocks)
          /\ \A j \in DOMAIN open' : open'[j].at <= Len(text')
      <3> QED BY <1>0, <1>11, <2>1, <2>6 DEF RoomFor
    <2> QED BY <2>4, <2>5, <2>6, <2>7 DEF TapInv
  <1>3. ASSUME NEW k \in LineKinds, NEW h \in BOOLEAN, AddLine(k, h),
               odd' \in BOOLEAN, UNCHANGED meaning, open' \in Seq(Blocks),
               \A j \in DOMAIN open' : open'[j].at <= Len(text) + 1,
               Len(text) + 1 <= MaxTapLines, Len(text) + 1 + Len(open') <= MaxTapLines
        PROVE  TapInv'
    <2>1. /\ text' \in Seq(Lines) /\ \A i \in DOMAIN text' : text'[i].at = i
          /\ Len(text') = Len(text) + 1
          /\ dialect' \in Dialects /\ parsed' \in Facts \cup {NoParse}
      BY <1>3, LineAdded
    <2> QED BY <1>0, <1>3, <2>1 DEF TapInv
  <1>4. ASSUME NEW b \in Blocks, b.at = Len(text) + 1, open' = Append(open, b)
        PROVE  /\ open' \in Seq(Blocks) /\ Len(open') = Len(open) + 1
               /\ \A j \in DOMAIN open' : open'[j].at <= Len(text) + 1
    <2>1. open' \in Seq(Blocks) /\ Len(open') = Len(open) + 1
      BY <1>0, <1>4
    <2>2. \A j \in DOMAIN open' : open'[j] = IF j = Len(open) + 1 THEN b ELSE open[j]
      BY <1>0, <1>4
    <2>3. ASSUME NEW j \in DOMAIN open' PROVE open'[j].at <= Len(text) + 1
      <3>1. CASE j = Len(open) + 1
        BY <1>0, <1>4, <2>2, <3>1
      <3>2. CASE j # Len(open) + 1
        <4>1. j \in DOMAIN open
          BY <1>0, <2>1, <3>2
        <4> QED BY <1>11, <2>2, <3>2, <4>1
      <3> QED BY <3>1, <3>2
    <2> QED BY <2>1, <2>3
  <1>5. ASSUME NEW k \in Openers \ {"class"}, NEW h \in BOOLEAN, OpenBlock(k, h) PROVE TapInv'
    <2> DEFINE b == [is |-> k, at |-> Len(text) + 1, live |-> h, taken |-> h]
    <2>1. b \in Blocks /\ b.at = Len(text) + 1
      <3>1. Len(text) + 1 \in 1..MaxTapLines
        BY <1>0, <1>5 DEF OpenBlock, RoomFor
      <3> QED BY <3>1 DEF Blocks
    <2>2. /\ AddLine(k, h) /\ RoomFor(2) /\ UNCHANGED meaning /\ k \in LineKinds /\ odd' \in BOOLEAN
          /\ open' = Append(open, b)
      BY <1>5 DEF OpenBlock, LineKinds
    <2> HIDE DEF b
    <2>3. /\ open' \in Seq(Blocks) /\ Len(open') = Len(open) + 1
          /\ \A j \in DOMAIN open' : open'[j].at <= Len(text) + 1
      BY <1>4, <2>1, <2>2
    <2> QED BY <1>0, <1>3, <2>2, <2>3 DEF RoomFor
  <1>6. ASSUME NEW k \in {"elsif", "else"}, NEW h \in BOOLEAN, NextBranch(k, h) PROVE TapInv'
    <2> DEFINE b == [is |-> IF k = "else" THEN "else" ELSE "if", at |-> open[Len(open)].at,
                     live |-> h /\ ~open[Len(open)].taken, taken |-> h \/ open[Len(open)].taken]
    <2>1. /\ AddLine(k, h) /\ RoomFor(1) /\ UNCHANGED <<meaning, odd>> /\ k \in LineKinds
          /\ open # <<>> /\ open' = [open EXCEPT ![Len(open)] = b]
      BY <1>6 DEF NextBranch, LineKinds
    <2>2. b \in Blocks /\ b.at <= Len(text) + 1
      <3>1. open[Len(open)] \in Blocks /\ Len(open) \in DOMAIN open
        BY <1>0, <2>1
      <3> QED BY <1>11, <3>1 DEF Blocks, Openers
    <2> HIDE DEF b
    <2>3. /\ open' \in Seq(Blocks) /\ Len(open') = Len(open)
          /\ \A j \in DOMAIN open' : open'[j].at <= Len(text) + 1
      <3>1. open' \in Seq(Blocks) /\ Len(open') = Len(open)
        BY <1>0, <2>1, <2>2
      <3>2. \A j \in DOMAIN open' : j \in DOMAIN open /\ open'[j] \in {b, open[j]}
        BY <2>1
      <3> QED BY <1>11, <2>2, <3>1, <3>2
    <2> QED BY <1>0, <1>3, <2>1, <2>3 DEF RoomFor
  <1>7. CASE OpenDoc
    <2> DEFINE b == [is |-> "doc", at |-> Len(text) + 1, live |-> TRUE, taken |-> TRUE]
    <2>1. b \in Blocks /\ b.at = Len(text) + 1
      <3>1. Len(text) + 1 \in 1..MaxTapLines
        BY <1>0, <1>7 DEF OpenDoc, RoomFor
      <3> QED BY <3>1 DEF Blocks
    <2>2. /\ AddLine("doc", TRUE) /\ RoomFor(2) /\ UNCHANGED <<meaning, odd>> /\ "doc" \in LineKinds
          /\ open' = Append(open, b)
      BY <1>7 DEF OpenDoc, LineKinds
    <2> HIDE DEF b
    <2>3. /\ open' \in Seq(Blocks) /\ Len(open') = Len(open) + 1
          /\ \A j \in DOMAIN open' : open'[j].at <= Len(text) + 1
      BY <1>4, <2>1, <2>2
    <2>4. Len(text) + 1 <= MaxTapLines /\ Len(text) + 1 + Len(open') <= MaxTapLines
      BY <1>0, <2>2, <2>3 DEF RoomFor
    <2>5. AddLine("doc", TRUE) /\ odd' \in BOOLEAN /\ UNCHANGED meaning /\ "doc" \in LineKinds
      BY <1>0, <2>2
    <2> QED BY <1>3, <2>3, <2>4, <2>5
  <1>8. CASE Prose
    <2>1. /\ AddLine("prose", TRUE) /\ RoomFor(1) /\ UNCHANGED <<meaning, open>> /\ "prose" \in LineKinds
          /\ odd' \in BOOLEAN
      BY <1>8 DEF Prose, LineKinds
    <2>2. /\ open' \in Seq(Blocks)
          /\ Len(text) + 1 <= MaxTapLines /\ Len(text) + 1 + Len(open') <= MaxTapLines
          /\ \A j \in DOMAIN open' : open'[j].at <= Len(text) + 1
      BY <1>0, <1>11, <2>1 DEF RoomFor
    <2> QED BY <1>3, <2>1, <2>2
  <1>9. CASE CloseBlock
    <2> DEFINE k == IF Within("doc") THEN "eos" ELSE "end"
    <2>1. /\ AddLine(k, TRUE) /\ UNCHANGED <<meaning, odd>> /\ k \in LineKinds
          /\ open' = Front(open)
      BY <1>9 DEF CloseBlock, LineKinds
    <2>2. open # <<>> /\ Len(open) # 0
      BY <1>0, <2>1 DEF AddLine
    <2>3. /\ open' \in Seq(Blocks) /\ Len(open') = Len(open) - 1
          /\ \A j \in DOMAIN open' : open'[j].at <= Len(text) + 1
      <3> DEFINE n == Len(open)
      <3>1. \A i \in 1..(n - 1) : open[i] \in Blocks
        BY <1>0
      <3>2. n \in Nat /\ n # 0
        BY <1>0, <2>2
      <3> HIDE DEF n
      <3>3. n - 1 \in Int /\ (IF 1 <= n - 1 THEN (n - 1) - 1 + 1 ELSE 0) = n - 1
        BY <3>2
      <3>4. SubSeq(open, 1, n - 1) \in Seq(Blocks) /\ Len(SubSeq(open, 1, n - 1)) = n - 1
        BY <3>1, <3>3, SubSeqProperties
      <3>5. open' \in Seq(Blocks) /\ Len(open') = n - 1
        BY <2>1, <3>4 DEF Front, n
      <3>6. \A j \in 1..(n - 1) : open'[j] = open[j]
        BY <2>1 DEF Front, n
      <3>7. DOMAIN open' = 1..(n - 1) /\ DOMAIN open = 1..n
        BY <1>0, <3>2, <3>5 DEF n
      <3>8. \A j \in DOMAIN open' : open'[j].at <= Len(text) + 1
        BY <1>11, <3>2, <3>6, <3>7
      <3> QED BY <3>5, <3>8 DEF n
    <2>4. Len(text) + 1 <= MaxTapLines /\ Len(text) + 1 + Len(open') <= MaxTapLines
      BY <1>0, <2>2, <2>3
    <2> HIDE DEF k
    <2> QED BY <1>0, <1>3, <2>1, <2>3, <2>4
  <1>10. CASE ReadTap
    BY <1>10, ParsedIsFacts DEF ReadTap, TapInv
  <1> QED BY <1>1, <1>2, <1>5, <1>6, <1>7, <1>8, <1>9, <1>10 DEF TapSourceNext

-----------------------------------------------------------------------------
(* What Ruby has collected, by what is left of the blocks that are open.   *)

InBottle(os, k) == \E j \in 1..k : os[j].is = "bottle"
InBlock(os, k) == \E j \in 1..k : os[j].is = "block"

\* How the open blocks nest.
OpenFits(d, os) ==
    /\ os # <<>> => os[1].is = "class"
    /\ \A k \in DOMAIN os : k # 1 => os[k].is # "class"
    /\ \A k \in DOMAIN os : os[k].is # "while"
    /\ \A k \in DOMAIN os : os[k].is = "doc" => k = Len(os)
    /\ \A k \in DOMAIN os : os[k].is = "bottle" =>
          d = "formula" /\ \A j \in DOMAIN os : j # k /\ j # 1 => Conditional(os[j])
    /\ \A k \in DOMAIN os : ~Conditional(os[k]) => os[k].live

\* Blocks whose lines count for the class or for its bottles, and pass them on.
Kin(b) == Conditional(b) \/ b.is = "bottle"
Passable(os, k) == Kin(os[k]) /\ Goes(os[k], InBottle(os, k))
Counted(os, k) == (k # 1 => Kin(os[k])) /\ \A j \in 2..(k - 1) : Passable(os, j)

Found(mean, kind) ==
    IF kind = "dependency" THEN mean.dependencies
    ELSE IF kind = "digest" THEN mean.bottle ELSE {mean[kind]} \ {0}

\* What Ruby has collected is what is left of the blocks that count.
Gathers(d, os, v, mean) ==
    \A kind \in Stanzas : \A x : 
       x \in Found(mean, kind) <=> \E k \in DOMAIN os : Counted(os, k) /\ x \in Nums(d, v[k], kind)
NumsFit(d, os, v, mean) ==
    /\ Gathers(d, os, v, mean)
    /\ \A k \in DOMAIN os : InBottle(os, k) => \A kind \in Stanzas : kind # "digest" => All(v[k], kind) = {}
    /\ \A k \in DOMAIN os : InBlock(os, k) => \A kind \in Stanzas : Wide(d, kind) => All(v[k], kind) = {}

Alike(a, b) == a.is = b.is \/ (Conditional(a) /\ Conditional(b))
SameLevel(os, ot, k) == Alike(os[k], ot[k]) /\ \A j \in 1..(k - 1) : ot[j] = os[j]

\* Which blocks count is the same with a branch in place of another.
LEMMA SameCounts ==
    ASSUME NEW os, NEW ot, NEW k \in Nat \ {0}, SameLevel(os, ot, k)
    PROVE  /\ Counted(os, k) <=> Counted(ot, k)
           /\ InBottle(os, k) <=> InBottle(ot, k)
           /\ InBlock(os, k) <=> InBlock(ot, k)
  <1>1. /\ Kin(os[k]) <=> Kin(ot[k])
        /\ os[k].is = "bottle" <=> ot[k].is = "bottle"
        /\ os[k].is = "block" <=> ot[k].is = "block"
    BY DEF SameLevel, Alike, Kin, Conditional
  <1>2. \A j \in 1..(k - 1) : ot[j] = os[j]
    BY DEF SameLevel
  <1>3. \A j \in 1..k : j = k \/ j \in 1..(k - 1)
    OBVIOUS
  <1>4. (InBottle(os, k) <=> InBottle(ot, k)) /\ (InBlock(os, k) <=> InBlock(ot, k))
    BY <1>1, <1>2, <1>3 DEF InBottle, InBlock
  <1>5. \A j \in 2..(k - 1) : Passable(os, j) <=> Passable(ot, j)
    <2> SUFFICES ASSUME NEW j \in 2..(k - 1) PROVE Passable(os, j) <=> Passable(ot, j)
      OBVIOUS
    <2>1. ot[j] = os[j] /\ \A i \in 1..j : ot[i] = os[i]
      BY <1>2
    <2>2. InBottle(os, j) <=> InBottle(ot, j)
      BY <2>1 DEF InBottle
    <2> QED BY <2>1, <2>2 DEF Passable, Goes
  <1> QED BY <1>1, <1>4, <1>5 DEF Counted

\* Blocks that are the same, and at most one more with nothing in it, add nothing.
LEMMA NumsOfNone ==
    \A ls \in Seq(Lines) : \A d : \A kind \in Stanzas : All(ls, kind) = {} => Nums(d, ls, kind) = {}
  <1> SUFFICES ASSUME NEW ls \in Seq(Lines), NEW d, NEW kind \in Stanzas, All(ls, kind) = {}
               PROVE  Nums(d, ls, kind) = {}
    OBVIOUS
  <1> DEFINE q == Plain(ls)
  <1>1. q \in Seq(Lines) /\ Len(q) = Len(ls)
        /\ \A i \in 1..Len(ls) : q[i] = IF ls[i].is = "prose" THEN [ls[i] EXCEPT !.is = "eos"] ELSE ls[i]
    BY PlainIsText
  <1> HIDE DEF q
  <1>2. DOMAIN ls = 1..Len(ls) /\ DOMAIN q = 1..Len(ls)
    BY <1>1
  <1>3. \A l \in Lines : [l EXCEPT !.is = "eos"].is = "eos"
    BY DEF Lines
  <1>4. "eos" # kind
    BY DEF Stanzas
  <1>5. \A i \in 1..Len(ls) : ls[i].is # kind
    BY <1>2 DEF All, NumberedAs
  <1>6. ASSUME NEW i \in 1..Len(ls) PROVE q[i].is # kind
    <2>a. ls[i] \in Lines
      BY <1>2
    <2>1. CASE ls[i].is = "prose"
      BY <1>1, <1>3, <1>4, <2>a, <2>1
    <2>2. CASE ls[i].is # "prose"
      BY <1>1, <1>5, <2>2
    <2> QED BY <2>1, <2>2
  <1>7. All(q, kind) = {}
    BY <1>2, <1>6 DEF All, NumberedAs
  <1>8. Top(q, kind) = {}
    BY <1>1, <1>7, TopIsInAll
  <1> QED BY <1>8 DEF Nums, q

\* A stanza in the innermost block.
StanzaCounts(d, n, os, v, w, mean, mean2, l, kind) ==
    /\ DOMAIN os = 1..n /\ l.is = kind
    /\ \A k \in 1..n : v[k] \in Seq(Lines)
    /\ Bal(Plain(v[n])) /\ NumsFit(d, os, v, mean)
    /\ \A k \in 1..(n - 1) : w[k] = v[k]
    /\ Goes(os[n], InBottle(os, n)) => w[n] = v[n] \o <<l>>
    /\ ~Goes(os[n], InBottle(os, n)) => w[n] = v[n]
    /\ InBottle(os, n) => kind = "digest"
    /\ InBlock(os, n) => ~Wide(d, kind)
    /\ \A j \in Stanzas : j # kind => Found(mean2, j) = Found(mean, j)
    /\ Goes(os[n], InBottle(os, n)) /\ Counted(os, n) => Found(mean2, kind) = Found(mean, kind) \cup {l.at}
    /\ ~(Goes(os[n], InBottle(os, n)) /\ Counted(os, n)) => Found(mean2, kind) = Found(mean, kind)

\* What a stanza adds to what is left is what Ruby adds to the facts.
LEMMA NumsOfStanza ==
    ASSUME NEW d, NEW n \in Nat \ {0}, NEW os, NEW v, NEW w, NEW mean, NEW mean2,
           NEW kind \in Stanzas, NEW l \in Lines, StanzaCounts(d, n, os, v, w, mean, mean2, l, kind)
    PROVE  NumsFit(d, os, w, mean2)
  <1>0. /\ DOMAIN os = 1..n /\ l.is = kind
        /\ \A k \in 1..n : v[k] \in Seq(Lines)
        /\ Bal(Plain(v[n])) /\ NumsFit(d, os, v, mean)
        /\ \A k \in 1..(n - 1) : w[k] = v[k]
        /\ w[n] = IF Goes(os[n], InBottle(os, n)) THEN v[n] \o <<l>> ELSE v[n]
        /\ InBottle(os, n) => kind = "digest"
        /\ InBlock(os, n) => ~Wide(d, kind)
        /\ \A j \in Stanzas : j # kind => Found(mean2, j) = Found(mean, j)
        /\ Found(mean2, kind) = IF Goes(os[n], InBottle(os, n)) /\ Counted(os, n)
                                THEN Found(mean, kind) \cup {l.at} ELSE Found(mean, kind)
    BY Zenon DEF StanzaCounts
  <1> DEFINE x == <<l>>
             goes == Goes(os[n], InBottle(os, n))
  <1>1. x \in Seq(Lines) /\ n \in 1..n /\ l.is # "prose"
    BY <1>0 DEF Stanzas
  <1>2. v[n] \in Seq(Lines)
    BY <1>0, <1>1
  <1>3. \A j \in Stanzas : Nums(d, w[n], j) =
            IF goes /\ j = kind THEN Nums(d, v[n], j) \cup {l.at} ELSE Nums(d, v[n], j)
    <2> SUFFICES ASSUME NEW j \in Stanzas
                 PROVE  Nums(d, w[n], j) = IF goes /\ j = kind THEN Nums(d, v[n], j) \cup {l.at}
                                           ELSE Nums(d, v[n], j)
      OBVIOUS
    <2>1. Nums(d, x, j) = IF j = kind THEN {l.at} ELSE {}
      BY <1>0, <1>1, NumsOfLine
    <2> HIDE DEF x, goes
    <2>2. Nums(d, v[n] \o x, j) = Nums(d, v[n], j) \cup Nums(d, x, j)
      BY <1>0, <1>1, <1>2, NumsOfConcat
    <2>3. w[n] = IF goes THEN v[n] \o x ELSE v[n]
      BY <1>0 DEF x, goes
    <2> QED BY <2>1, <2>2, <2>3
  <1>4. \A j \in Stanzas : All(w[n], j) = IF goes /\ j = kind THEN All(v[n], j) \cup {l.at} ELSE All(v[n], j)
    <2> SUFFICES ASSUME NEW j \in Stanzas
                 PROVE  All(w[n], j) = IF goes /\ j = kind THEN All(v[n], j) \cup {l.at} ELSE All(v[n], j)
      OBVIOUS
    <2>1. All(x, j) = IF j = kind THEN {l.at} ELSE {}
      BY <1>0, <1>1, AllOfLine
    <2> HIDE DEF x, goes
    <2>2. All(v[n] \o x, j) = All(v[n], j) \cup All(x, j)
      BY <1>1, <1>2, AllOfConcat
    <2>3. w[n] = IF goes THEN v[n] \o x ELSE v[n]
      BY <1>0 DEF x, goes
    <2> QED BY <2>1, <2>2, <2>3
  <1>5. \A k \in 1..n : k = n \/ (k \in 1..(n - 1) /\ w[k] = v[k])
    BY <1>0
  <1>6. /\ Gathers(d, os, v, mean)
        /\ \A k \in 1..n : InBottle(os, k) => \A j \in Stanzas : j # "digest" => All(v[k], j) = {}
        /\ \A k \in 1..n : InBlock(os, k) => \A j \in Stanzas : Wide(d, j) => All(v[k], j) = {}
    BY <1>0 DEF NumsFit
  <1> HIDE DEF x, goes
  <1>7. Gathers(d, os, w, mean2)
    <2> SUFFICES ASSUME NEW j \in Stanzas, NEW y
                 PROVE  y \in Found(mean2, j) <=> \E k \in 1..n : Counted(os, k) /\ y \in Nums(d, w[k], j)
      BY <1>0 DEF Gathers
    <2>1. y \in Found(mean, j) <=> \E k \in 1..n : Counted(os, k) /\ y \in Nums(d, v[k], j)
      BY <1>0, <1>6 DEF Gathers
    <2>2. y \in Found(mean2, j) <=> y \in Found(mean, j) \/ (goes /\ Counted(os, n) /\ j = kind /\ y = l.at)
      BY <1>0 DEF goes
    <2>3. y \in Nums(d, w[n], j) <=> y \in Nums(d, v[n], j) \/ (goes /\ j = kind /\ y = l.at)
      BY <1>3
    <2>4. \A k \in 1..n : k # n => (y \in Nums(d, w[k], j) <=> y \in Nums(d, v[k], j))
      BY <1>5
    <2>5. (\E k \in 1..n : Counted(os, k) /\ y \in Nums(d, w[k], j))
             <=> (\E k \in 1..n : Counted(os, k) /\ y \in Nums(d, v[k], j))
                 \/ (goes /\ Counted(os, n) /\ j = kind /\ y = l.at)
      BY <1>1, <2>3, <2>4, Zenon
    <2> QED BY <2>1, <2>2, <2>5
  <1>8. ASSUME NEW k \in 1..n, InBottle(os, k), NEW j \in Stanzas, j # "digest" PROVE All(w[k], j) = {}
    <2>1. All(v[k], j) = {}
      BY <1>6, <1>8
    <2>2. CASE k = n
      BY <1>0, <1>4, <1>8, <2>1, <2>2
    <2>3. CASE k # n
      BY <1>5, <2>1, <2>3
    <2> QED BY <2>2, <2>3
  <1>9. ASSUME NEW k \in 1..n, InBlock(os, k), NEW j \in Stanzas, Wide(d, j) PROVE All(w[k], j) = {}
    <2>1. All(v[k], j) = {}
      BY <1>6, <1>9
    <2>2. CASE k = n
      BY <1>0, <1>4, <1>9, <2>1, <2>2
    <2>3. CASE k # n
      BY <1>5, <2>1, <2>3
    <2> QED BY <2>2, <2>3
  <1> QED BY <1>0, <1>7, <1>8, <1>9 DEF NumsFit

\* Blocks that are opened or go on with another branch add nothing.
LEMMA NumsOfSame ==
    ASSUME NEW d, NEW n \in Nat \ {0}, NEW m \in {n, n + 1}, NEW os, NEW ot,
           DOMAIN os = 1..n, DOMAIN ot = 1..m, NEW v, NEW w, NEW mean,
           NumsFit(d, os, v, mean),
           \A k \in 1..n : SameLevel(os, ot, k) /\ w[k] = v[k],
           m = n + 1 => w[m] = <<>>
    PROVE  NumsFit(d, ot, w, mean)
  <1>1. \A k \in 1..m : k \in 1..n \/ (k = m /\ w[k] = <<>>)
    OBVIOUS
  <1>2. 1..n \subseteq 1..m
    OBVIOUS
  <1>3. \A k \in 1..n : /\ Counted(os, k) <=> Counted(ot, k)
                        /\ InBottle(os, k) <=> InBottle(ot, k)
                        /\ InBlock(os, k) <=> InBlock(ot, k)
    BY SameCounts
  <1>4. \A j : Nums(d, <<>>, j) = {} /\ All(<<>>, j) = {}
    BY NumsOfNothing, AllOfNothing
  <1>5. /\ Gathers(d, os, v, mean)
        /\ \A k \in 1..n : InBottle(os, k) => \A j \in Stanzas : j # "digest" => All(v[k], j) = {}
        /\ \A k \in 1..n : InBlock(os, k) => \A j \in Stanzas : Wide(d, j) => All(v[k], j) = {}
    BY DEF NumsFit
  <1>6. Gathers(d, ot, w, mean)
    <2> SUFFICES ASSUME NEW j \in Stanzas, NEW y
                 PROVE  y \in Found(mean, j) <=> \E k \in 1..m : Counted(ot, k) /\ y \in Nums(d, w[k], j)
      BY DEF Gathers
    <2>1. y \in Found(mean, j) <=> \E k \in 1..n : Counted(os, k) /\ y \in Nums(d, v[k], j)
      BY <1>5 DEF Gathers
    <2>2. \A k \in 1..m : y \in Nums(d, w[k], j) => k \in 1..n
      BY <1>1, <1>4
    <2> QED BY <1>2, <1>3, <2>1, <2>2
  <1>7. ASSUME NEW k \in 1..m, InBottle(ot, k), NEW j \in Stanzas, j # "digest" PROVE All(w[k], j) = {}
    BY <1>1, <1>3, <1>4, <1>5, <1>7
  <1>8. ASSUME NEW k \in 1..m, InBlock(ot, k), NEW j \in Stanzas, Wide(d, j) PROVE All(w[k], j) = {}
    BY <1>1, <1>3, <1>4, <1>5, <1>8
  <1> QED BY <1>6, <1>7, <1>8 DEF NumsFit

\* What the lines of a block that is closed add to the block around it.
LEMMA ClosedNums ==
    ASSUME NEW d, NEW o \in Lines, NEW e \in Lines, NEW b, NEW v \in Seq(Lines), NEW kind \in Stanzas,
           OpenerFits(o, b), b.is \in {"block", "bottle", "on", "if", "else"}, e.is = "end", Bal(Plain(v))
    PROVE  /\ All(Closed(o, v, e, b), kind) = All(v, kind)
           /\ Nums(d, Closed(o, v, e, b), kind) =
                 IF Conditional(b) THEN Nums(d, v, kind) ELSE IF Wide(d, kind) THEN All(v, kind) ELSE {}
  <1>1. IsOpener(o) /\ o.is \notin {"prose", "doc"} /\ IsEnd(e)
    BY OpenerKinds DEF IsEnd
  <1>2. CASE Conditional(b)
    <2>1. Closed(o, v, e, b) = v
      BY <1>2 DEF Conditional, Closed
    <2> QED BY <1>2, <2>1
  <1>3. CASE ~Conditional(b)
    <2>1. Closed(o, v, e, b) = Block(o, v, e)
      BY <1>3 DEF Conditional, Closed
    <2>2. Nums(d, Block(o, v, e), kind) = IF Wide(d, kind) THEN All(v, kind) ELSE {}
      BY <1>1, NumsOfBlock
    <2>3. o.is # kind /\ e.is # kind
      BY <1>1 DEF IsOpener, Opens, Stanzas, Openers
    <2>4. All(Block(o, v, e), kind) = All(v, kind)
      BY <2>3, AllOfBlock
    <2> QED BY <1>3, <2>1, <2>2, <2>4
  <1> QED BY <1>2, <1>3

\* A block that is closed passes on what counts.
LEMMA NumsOfClosed ==
    ASSUME NEW d, NEW n \in Nat, n >= 2, NEW os, NEW ot, DOMAIN os = 1..n, DOMAIN ot = 1..(n - 1), Len(os) = n,
           \A k \in 1..(n - 1) : ot[k] = os[k], OpenFits(d, os),
           NEW v, NEW w, NEW mean, NEW p \in Seq(Lines),
           \A k \in 1..n : v[k] \in Seq(Lines) /\ Bal(Plain(v[k])),
           NumsFit(d, os, v, mean),
           \A k \in 1..(n - 2) : w[k] = v[k],
           w[n - 1] = IF Goes(os[n - 1], InBottle(os, n - 1)) THEN v[n - 1] \o p ELSE v[n - 1],
           os[n].is \in {"block", "bottle", "on", "if", "else", "doc"},
           \A kind \in Stanzas :
              /\ All(p, kind) = IF os[n].is = "doc" THEN {} ELSE All(v[n], kind)
              /\ Nums(d, p, kind) = IF os[n].is = "doc" THEN {}
                                    ELSE IF Conditional(os[n]) THEN Nums(d, v[n], kind)
                                    ELSE IF Wide(d, kind) THEN All(v[n], kind) ELSE {}
    PROVE  NumsFit(d, ot, w, mean)
  <1> DEFINE m == n - 1
             goes == Goes(os[m], InBottle(os, m))
  <1>1. /\ m \in 1..n /\ m \in Nat \ {0} /\ n = m + 1 /\ n \in Nat \ {0} /\ n \in 1..n /\ n # 1
        /\ 1..m \subseteq 1..n /\ m \in 1..m /\ ~(n \in 1..m)
        /\ \A k \in 1..n : k \in 1..m \/ k = n
        /\ \A k \in 1..m : k = m \/ (k # m /\ k \in 1..(n - 2))
    OBVIOUS
  <1>2. /\ Gathers(d, os, v, mean)
        /\ \A k \in 1..n : InBottle(os, k) => \A j \in Stanzas : j # "digest" => All(v[k], j) = {}
        /\ \A k \in 1..n : InBlock(os, k) => \A j \in Stanzas : Wide(d, j) => All(v[k], j) = {}
    BY DEF NumsFit
  <1>3. \A k \in 1..m : SameLevel(os, ot, k)
    <2> SUFFICES ASSUME NEW k \in 1..m PROVE SameLevel(os, ot, k)
      OBVIOUS
    <2>1. \A j \in 1..(k - 1) : j \in 1..m
      OBVIOUS
    <2> QED BY <2>1 DEF SameLevel, Alike
  <1>4. \A k \in 1..m : /\ Counted(os, k) <=> Counted(ot, k)
                        /\ InBottle(os, k) <=> InBottle(ot, k)
                        /\ InBlock(os, k) <=> InBlock(ot, k)
    <2>1. 1..m \subseteq Nat \ {0}
      BY <1>1
    <2> HIDE DEF m
    <2> QED BY <1>3, <2>1, SameCounts
  <1>5. w[m] = IF goes THEN v[m] \o p ELSE v[m]
    OBVIOUS
  <1>6. Counted(os, n) <=> Counted(os, m) /\ goes /\ Kin(os[n])
    <2>1. /\ Counted(os, n) <=> Kin(os[n]) /\ \A j \in 2..m : Passable(os, j)
          /\ Counted(os, m) <=> (m # 1 => Kin(os[m])) /\ \A j \in 2..(m - 1) : Passable(os, j)
      BY <1>1 DEF Counted
    <2>2. CASE m = 1
      <3>1. os[1].is = "class" /\ os # <<>>
        BY <1>1 DEF OpenFits
      <3>2. ~Conditional(os[1])
        BY <3>1 DEF Conditional
      <3>3. os[1].live
        BY <1>1, <2>2, <3>2 DEF OpenFits
      <3>4. goes
        BY <2>2, <3>3 DEF Goes
      <3>5. 2..m = {} /\ 2..(m - 1) = {}
        BY <2>2
      <3> QED BY <2>1, <2>2, <3>4, <3>5
    <2>3. CASE m # 1
      <3>1. \A j \in 2..m : j \in 2..(m - 1) \/ j = m
        OBVIOUS
      <3>2. m \in 2..m /\ \A j \in 2..(m - 1) : j \in 2..m
        BY <1>1, <2>3
      <3>3. Passable(os, m) <=> Kin(os[m]) /\ goes
        BY DEF Passable
      <3> HIDE DEF goes, m
      <3> QED BY <2>1, <2>3, <3>1, <3>2, <3>3
    <2> QED BY <2>2, <2>3
  <1>7. v[m] \in Seq(Lines) /\ Bal(Plain(v[m])) /\ v[n] \in Seq(Lines)
    BY <1>1
  <1> HIDE DEF m, goes
  <1>8. \A j \in Stanzas : /\ Nums(d, w[m], j)
                                 = IF goes THEN Nums(d, v[m], j) \cup Nums(d, p, j) ELSE Nums(d, v[m], j)
                           /\ All(w[m], j) = IF goes THEN All(v[m], j) \cup All(p, j) ELSE All(v[m], j)
    <2> SUFFICES ASSUME NEW j \in Stanzas
                 PROVE /\ Nums(d, w[m], j)
                                 = IF goes THEN Nums(d, v[m], j) \cup Nums(d, p, j) ELSE Nums(d, v[m], j)
                       /\ All(w[m], j) = IF goes THEN All(v[m], j) \cup All(p, j) ELSE All(v[m], j)
      OBVIOUS
    <2>1. Nums(d, v[m] \o p, j) = Nums(d, v[m], j) \cup Nums(d, p, j)
      BY <1>7, NumsOfConcat
    <2>2. All(v[m] \o p, j) = All(v[m], j) \cup All(p, j)
      BY <1>7, AllOfConcat
    <2> QED BY <1>5, <2>1, <2>2
  <1>9. \A k \in 1..m : k # m => w[k] = v[k]
    BY <1>1
  <1>10. ~Kin(os[n]) <=> os[n].is \in {"block", "doc"}
    BY DEF Kin, Conditional
  <1>11. os[n].is = "block" => InBlock(os, n)
    BY <1>1 DEF InBlock
  <1>12. os[n].is = "bottle" => InBottle(os, n)
    BY <1>1 DEF InBottle
  \* What the lines that are passed on hold.
  <1>13. \A j \in Stanzas : ~Kin(os[n]) => Nums(d, p, j) = {}
    <2> SUFFICES ASSUME NEW j \in Stanzas, ~Kin(os[n]) PROVE Nums(d, p, j) = {}
      OBVIOUS
    <2>1. CASE os[n].is = "doc"
      BY <2>1
    <2>2. CASE os[n].is = "block"
      <3>1. Wide(d, j) => All(v[n], j) = {}
        BY <1>1, <1>2, <1>11, <2>2
      <3>2. ~Conditional(os[n]) /\ os[n].is # "doc"
        BY <2>2 DEF Conditional
      <3> QED BY <3>1, <3>2
    <2> QED BY <1>10, <2>1, <2>2
  <1>14. \A j \in Stanzas : Kin(os[n]) => Nums(d, p, j) = Nums(d, v[n], j)
    <2> SUFFICES ASSUME NEW j \in Stanzas, Kin(os[n]) PROVE Nums(d, p, j) = Nums(d, v[n], j)
      OBVIOUS
    <2>1. CASE Conditional(os[n])
      <3>1. os[n].is # "doc"
        BY <2>1 DEF Conditional
      <3> QED BY <2>1, <3>1
    <2>2. CASE ~Conditional(os[n])
      <3>1. os[n].is = "bottle" /\ os[n].is # "doc"
        BY <2>2 DEF Kin
      <3>2. Nums(d, p, j) = IF Wide(d, j) THEN All(v[n], j) ELSE {}
        BY <2>2, <3>1
      <3>3. CASE Wide(d, j)
        <4>1. Nums(d, v[n], j) = All(v[n], j)
          BY <3>3 DEF Nums
        <4> QED BY <3>2, <3>3, <4>1
      <3>4. CASE ~Wide(d, j)
        <4>1. j # "digest"
          BY <3>4 DEF Wide
        <4>2. All(v[n], j) = {}
          BY <1>1, <1>2, <1>12, <3>1, <4>1
        <4>3. Nums(d, v[n], j) = {}
          BY <1>7, <4>2, NumsOfNone
        <4> QED BY <3>2, <3>4, <4>3
      <3> QED BY <3>3, <3>4
    <2> QED BY <2>1, <2>2
  <1>15. Gathers(d, ot, w, mean)
    <2> SUFFICES ASSUME NEW j \in Stanzas, NEW y
                 PROVE  y \in Found(mean, j) <=> \E k \in 1..m : Counted(ot, k) /\ y \in Nums(d, w[k], j)
      BY DEF Gathers, m
    <2>1. y \in Found(mean, j) <=> \E k \in 1..n : Counted(os, k) /\ y \in Nums(d, v[k], j)
      BY <1>2 DEF Gathers
    <2>2. y \in Nums(d, w[m], j) <=> y \in Nums(d, v[m], j) \/ (goes /\ y \in Nums(d, p, j))
      BY <1>8
    <2>3. (Counted(os, n) /\ y \in Nums(d, v[n], j)) <=> (Counted(os, m) /\ goes /\ y \in Nums(d, p, j))
      BY <1>6, <1>13, <1>14
    <2>4. (\E k \in 1..m : Counted(ot, k) /\ y \in Nums(d, w[k], j))
             <=> \E k \in 1..m : Counted(os, k) /\ y \in Nums(d, w[k], j)
      BY <1>4
    <2>5. (\E k \in 1..m : Counted(os, k) /\ y \in Nums(d, w[k], j))
             <=> (\E k \in 1..m : Counted(os, k) /\ y \in Nums(d, v[k], j))
                 \/ (Counted(os, m) /\ goes /\ y \in Nums(d, p, j))
      BY <1>1, <1>9, <2>2, Zenon
    <2>6. (\E k \in 1..n : Counted(os, k) /\ y \in Nums(d, v[k], j))
             <=> (\E k \in 1..m : Counted(os, k) /\ y \in Nums(d, v[k], j))
                 \/ (Counted(os, n) /\ y \in Nums(d, v[n], j))
      BY <1>1, Zenon
    <2> QED BY <2>1, <2>3, <2>4, <2>5, <2>6, Zenon
  <1>16. ASSUME NEW k \in 1..m, InBottle(ot, k), NEW j \in Stanzas, j # "digest" PROVE All(w[k], j) = {}
    <2>1. InBottle(os, k) /\ All(v[k], j) = {}
      BY <1>1, <1>2, <1>4, <1>16
    <2>2. CASE k = m
      <3>1. InBottle(os, n)
        BY <1>1, <2>1, <2>2 DEF InBottle
      <3>2. All(v[n], j) = {}
        BY <1>1, <1>2, <1>16, <3>1
      <3>3. All(p, j) = {}
        BY <3>2
      <3> QED BY <1>8, <2>1, <2>2, <3>3
    <2>3. CASE k # m
      BY <1>9, <2>1, <2>3
    <2> QED BY <2>2, <2>3
  <1>17. ASSUME NEW k \in 1..m, InBlock(ot, k), NEW j \in Stanzas, Wide(d, j) PROVE All(w[k], j) = {}
    <2>1. InBlock(os, k) /\ All(v[k], j) = {}
      BY <1>1, <1>2, <1>4, <1>17
    <2>2. CASE k = m
      <3>1. InBlock(os, n)
        BY <1>1, <2>1, <2>2 DEF InBlock
      <3>2. All(v[n], j) = {}
        BY <1>1, <1>2, <1>17, <3>1
      <3>3. All(p, j) = {}
        BY <3>2
      <3> QED BY <1>8, <2>1, <2>2, <3>3
    <2>3. CASE k # m
      BY <1>9, <2>1, <2>3
    <2> QED BY <2>2, <2>3
  <1>18. DOMAIN ot = 1..m
    BY DEF m
  <1> QED BY <1>15, <1>16, <1>17, <1>18 DEF NumsFit

-----------------------------------------------------------------------------
(* The one bottle block.                                                   *)

\* The one bottle block, and the digests in it, stand alone in what is left of the blocks.
BottleFits(os, v, none) ==
    /\ \A k \in DOMAIN os : ~InBottle(os, k) => Apart(v[k])
    /\ none => \A k \in DOMAIN os : Clean(v[k])
    /\ \A j, k \in DOMAIN os : j < k /\ ~InBottle(os, k) => Clean(v[j]) \/ Clean(v[k])
    /\ \A j, k \in DOMAIN os : j < k /\ InBottle(os, k) /\ ~InBottle(os, j) => Clean(v[j])

LEMMA InBottleGrows ==
    \A os : \A j, k \in Nat : j <= k /\ InBottle(os, j) => InBottle(os, k)
  <1> SUFFICES ASSUME NEW os, NEW j \in Nat, NEW k \in Nat, j <= k, InBottle(os, j) PROVE InBottle(os, k)
    OBVIOUS
  <1>1. \A i \in 1..j : i \in 1..k
    OBVIOUS
  <1> QED BY <1>1 DEF InBottle

\* A stanza in the innermost block: digests are written in a bottle block only.
LEMMA BottleOfStanza ==
    ASSUME NEW n \in Nat \ {0}, NEW os, DOMAIN os = 1..n, NEW v, NEW w, NEW none, NEW l \in Lines,
           \A k \in 1..n : v[k] \in Seq(Lines), BottleFits(os, v, none),
           \A k \in 1..(n - 1) : w[k] = v[k],
           w[n] \in {v[n], v[n] \o <<l>>},
           l.is # "bottle", InBottle(os, n) <=> l.is = "digest", InBottle(os, n) => ~none
    PROVE  BottleFits(os, w, none)
  <1> DEFINE x == <<l>>
  <1>1. x \in Seq(Lines) /\ n \in 1..n /\ v[n] \in Seq(Lines) /\ w[n] \in {v[n], v[n] \o x}
    OBVIOUS
  <1>2. \A k \in 1..n : (k = n \/ w[k] = v[k]) /\ k <= n /\ k \in Nat
    <2>1. \A k \in 1..n : k = n \/ k \in 1..(n - 1)
      OBVIOUS
    <2> QED BY <2>1
  <1>3. ~InBottle(os, n) => Clean(x)
    BY CleanOf, Zenon
  <1> HIDE DEF x
  <1>4. /\ \A k \in 1..n : ~InBottle(os, k) => Apart(v[k])
        /\ none => \A k \in 1..n : Clean(v[k])
        /\ \A j, k \in 1..n : j < k /\ ~InBottle(os, k) => Clean(v[j]) \/ Clean(v[k])
        /\ \A j, k \in 1..n : j < k /\ InBottle(os, k) /\ ~InBottle(os, j) => Clean(v[j])
    BY DEF BottleFits
  <1>5. ~InBottle(os, n) => Apart(w[n]) /\ (Clean(v[n]) => Clean(w[n]))
    <2> SUFFICES ASSUME ~InBottle(os, n) PROVE Apart(w[n]) /\ (Clean(v[n]) => Clean(w[n]))
      OBVIOUS
    <2>1. Apart(v[n]) /\ Clean(x)
      BY <1>1, <1>3, <1>4
    <2>2. Apart(v[n] \o x)
      BY <1>1, <2>1, ApartWithClean
    <2>3. Clean(v[n]) => Clean(v[n] \o x)
      BY <1>1, <2>1, CleanOf, Zenon
    <2> QED BY <1>1, <2>1, <2>2, <2>3
  <1>6. \A k \in 1..n : ~InBottle(os, k) => Apart(w[k]) /\ (Clean(v[k]) => Clean(w[k]))
    BY <1>2, <1>4, <1>5
  <1>7. \A k \in 1..n : k < n => w[k] = v[k]
    BY <1>2
  <1>8. none => \A k \in 1..n : Clean(w[k])
    <2>1. \A k \in 1..n : InBottle(os, k) => InBottle(os, n)
      BY <1>2, InBottleGrows
    <2> QED BY <1>4, <1>6, <2>1
  <1>9. ASSUME NEW j \in 1..n, NEW k \in 1..n, j < k PROVE w[j] = v[j]
    <2>1. j < n
      BY <1>2, <1>9
    <2> QED BY <1>7, <2>1
  <1>10. \A j, k \in 1..n : j < k /\ ~InBottle(os, k) => Clean(w[j]) \/ Clean(w[k])
    BY <1>4, <1>6, <1>9
  <1>11. \A j, k \in 1..n : j < k /\ InBottle(os, k) /\ ~InBottle(os, j) => Clean(w[j])
    BY <1>4, <1>9
  <1> QED BY <1>6, <1>8, <1>10, <1>11 DEF BottleFits

\* A block that is opened; the bottle block is the first of the text.
LEMMA BottleOfSame ==
    ASSUME NEW n \in Nat \ {0}, NEW m \in {n, n + 1}, NEW os, NEW ot,
           DOMAIN os = 1..n, DOMAIN ot = 1..m, NEW v, NEW w, NEW none, NEW none2,
           BottleFits(os, v, none), none2 => none,
           \A k \in 1..n : SameLevel(os, ot, k) /\ w[k] = v[k],
           m = n + 1 => w[m] = <<>> /\ (ot[m].is = "bottle" => none)
    PROVE  BottleFits(ot, w, none2)
  <1>1. \A k \in 1..m : /\ k \in 1..n \/ (k = m /\ m = n + 1 /\ w[k] = <<>>)
                        /\ k \in Nat /\ k <= m
    OBVIOUS
  <1>2. 1..n \subseteq 1..m /\ n \in 1..n
    OBVIOUS
  <1>3. \A k \in 1..n : InBottle(os, k) <=> InBottle(ot, k)
    BY SameCounts
  <1>4. Clean(<<>>) /\ Apart(<<>>)
    BY CleanOf DEF Apart
  <1>5. /\ \A k \in 1..n : ~InBottle(os, k) => Apart(v[k])
        /\ none => \A k \in 1..n : Clean(v[k])
        /\ \A j, k \in 1..n : j < k /\ ~InBottle(os, k) => Clean(v[j]) \/ Clean(v[k])
        /\ \A j, k \in 1..n : j < k /\ InBottle(os, k) /\ ~InBottle(os, j) => Clean(v[j])
    BY DEF BottleFits
  <1>6. m = n + 1 /\ InBottle(ot, m) => ot[m].is = "bottle" \/ InBottle(ot, n)
    <2>1. m = n + 1 => \A j \in 1..m : j \in 1..n \/ j = m
      OBVIOUS
    <2> QED BY <2>1 DEF InBottle
  <1>7. \A k \in 1..m : ~InBottle(ot, k) => Apart(w[k])
    BY <1>1, <1>3, <1>4, <1>5
  <1>8. none2 => \A k \in 1..m : Clean(w[k])
    BY <1>1, <1>4, <1>5
  <1>9. ASSUME NEW j \in 1..m, NEW k \in 1..m, j < k, ~InBottle(ot, k) PROVE Clean(w[j]) \/ Clean(w[k])
    <2>1. CASE k \in 1..n
      <3>1. j \in 1..n
        BY <1>9, <2>1
      <3> QED BY <1>3, <1>5, <1>9, <2>1, <3>1
    <2>2. CASE k \notin 1..n
      BY <1>1, <1>4, <2>2
    <2> QED BY <2>1, <2>2
  <1>10. ASSUME NEW j \in 1..m, NEW k \in 1..m, j < k, InBottle(ot, k), ~InBottle(ot, j) PROVE Clean(w[j])
    <2>1. CASE k \in 1..n
      <3>1. j \in 1..n
        BY <1>10, <2>1
      <3> QED BY <1>3, <1>5, <1>10, <2>1, <3>1
    <2>2. CASE k \notin 1..n
      <3>1. k = m /\ m = n + 1 /\ j \in 1..n /\ w[j] = v[j]
        BY <1>1, <1>10, <2>2
      <3>2. CASE ot[m].is = "bottle"
        BY <1>5, <3>1, <3>2
      <3>3. CASE InBottle(ot, n)
        <4>1. InBottle(os, n) /\ ~InBottle(os, j)
          BY <1>2, <1>3, <1>10, <3>1, <3>3
        <4>2. j < n
          <5>1. j # n
            BY <4>1
          <5> QED BY <3>1, <5>1
        <4> QED BY <1>2, <1>5, <3>1, <4>1, <4>2
      <3> QED BY <1>6, <1>10, <3>1, <3>2, <3>3
    <2> QED BY <2>1, <2>2
  <1> QED BY <1>7, <1>8, <1>9, <1>10 DEF BottleFits

\* A block that is closed: its lines p go to the block around it, or nowhere.
LEMMA BottleOfClosed ==
    ASSUME NEW n \in Nat, n >= 2, NEW os, NEW ot, DOMAIN os = 1..n, DOMAIN ot = 1..(n - 1),
           \A k \in 1..(n - 1) : ot[k] = os[k],
           NEW v, NEW w, NEW none, NEW none2, NEW p \in Seq(Lines),
           \A k \in 1..n : v[k] \in Seq(Lines),
           BottleFits(os, v, none), none2 => none,
           \A k \in 1..(n - 2) : w[k] = v[k],
           w[n - 1] \in {v[n - 1], v[n - 1] \o p},
           InBottle(os, n) => ~none2,
           os[n].is = "bottle" => Apart(p) /\ \A j \in 1..(n - 1) : ~InBottle(os, j),
           ~InBottle(os, n) => Apart(p) /\ (Clean(v[n]) => Clean(p))
    PROVE  BottleFits(ot, w, none2)
  <1> DEFINE m == n - 1
  <1>1. /\ m \in 1..n /\ m \in Nat \ {0} /\ n = m + 1 /\ n \in 1..n /\ m < n
        /\ 1..m \subseteq 1..n /\ m \in 1..m
        /\ \A k \in 1..m : k \in Nat /\ k <= m /\ k < n /\ (k = m \/ k \in 1..(n - 2))
    OBVIOUS
  <1>2. \A k \in 1..m : (k = m \/ w[k] = v[k]) /\ (k < m => w[k] = v[k])
    BY <1>1
  <1>3. w[m] \in {v[m], v[m] \o p} /\ v[m] \in Seq(Lines)
    BY <1>1
  <1>4. \A k \in 1..m : InBottle(os, k) <=> InBottle(ot, k)
    <2> SUFFICES ASSUME NEW k \in 1..m PROVE InBottle(os, k) <=> InBottle(ot, k)
      OBVIOUS
    <2>1. \A j \in 1..k : j \in 1..m
      OBVIOUS
    <2> QED BY <2>1 DEF InBottle
  <1>5. /\ \A k \in 1..n : ~InBottle(os, k) => Apart(v[k])
        /\ none => \A k \in 1..n : Clean(v[k])
        /\ \A j, k \in 1..n : j < k /\ ~InBottle(os, k) => Clean(v[j]) \/ Clean(v[k])
        /\ \A j, k \in 1..n : j < k /\ InBottle(os, k) /\ ~InBottle(os, j) => Clean(v[j])
    BY DEF BottleFits
  <1>6. InBottle(os, n) => os[n].is = "bottle" \/ InBottle(os, m)
    BY <1>1 DEF InBottle
  <1>7. \A k \in 1..m : InBottle(os, k) => InBottle(os, m) /\ InBottle(os, n)
    BY <1>1, InBottleGrows
  <1>8. os[n].is = "bottle" => InBottle(os, n) /\ Apart(p) /\ \A k \in 1..m : ~InBottle(os, k) /\ Clean(v[k])
    <2>1. os[n].is = "bottle" => InBottle(os, n)
      BY <1>1 DEF InBottle
    <2> QED BY <1>1, <1>5, <2>1
  <1>9. ~InBottle(os, n) => Apart(p) /\ (Clean(v[n]) => Clean(p))
    OBVIOUS
  <1>10. InBottle(os, n) => ~none2
    OBVIOUS
  <1>11. DOMAIN ot = 1..m
    OBVIOUS
  <1> HIDE DEF m
  <1>12. ~InBottle(os, m) => Apart(w[m])
    <2> SUFFICES ASSUME ~InBottle(os, m) PROVE Apart(w[m])
      OBVIOUS
    <2>1. Apart(v[m])
      BY <1>1, <1>5
    <2>2. Apart(p)
      BY <1>6, <1>8, <1>9
    <2>3. Clean(v[m]) \/ Clean(p)
      BY <1>1, <1>5, <1>6, <1>8, <1>9
    <2>4. Apart(v[m] \o p)
      BY <1>3, <2>1, <2>2, <2>3, ApartWithClean
    <2> QED BY <1>3, <2>1, <2>4
  <1>13. ~InBottle(os, n) /\ Clean(v[m]) /\ Clean(v[n]) => Clean(w[m])
    <2>1. Clean(v[m]) /\ Clean(p) => Clean(v[m] \o p)
      BY <1>3, CleanOf, Zenon
    <2> QED BY <1>3, <1>9, <2>1
  <1>14. \A k \in 1..m : ~InBottle(ot, k) => Apart(w[k])
    BY <1>1, <1>2, <1>4, <1>5, <1>12
  <1>15. none2 => \A k \in 1..m : Clean(w[k])
    BY <1>1, <1>2, <1>5, <1>10, <1>13
  <1>16. ASSUME NEW j \in 1..m, NEW k \in 1..m, j < k, ~InBottle(ot, k) PROVE Clean(w[j]) \/ Clean(w[k])
    <2>1. w[j] = v[j] /\ j \in 1..n /\ k \in 1..n
      BY <1>1, <1>2, <1>16
    <2>2. Clean(v[j]) \/ Clean(v[k])
      BY <1>4, <1>5, <1>16, <2>1
    <2>3. CASE k # m
      BY <1>2, <2>1, <2>2, <2>3
    <2>4. CASE k = m
      <3>1. CASE os[n].is = "bottle"
        BY <1>8, <2>1, <3>1
      <3>2. CASE ~(os[n].is = "bottle")
        <4>1. ~InBottle(os, n) /\ ~InBottle(os, m)
          BY <1>4, <1>6, <1>16, <2>4, <3>2
        <4>2. Clean(v[j]) \/ Clean(v[n])
          BY <1>1, <1>5, <2>1, <4>1
        <4> QED BY <1>13, <2>1, <2>2, <2>4, <4>1, <4>2
      <3> QED BY <3>1, <3>2
    <2> QED BY <2>3, <2>4
  <1>17. ASSUME NEW j \in 1..m, NEW k \in 1..m, j < k, InBottle(ot, k), ~InBottle(ot, j) PROVE Clean(w[j])
    <2>1. w[j] = v[j] /\ j \in 1..n /\ k \in 1..n
      BY <1>1, <1>2, <1>17
    <2> QED BY <1>4, <1>5, <1>17, <2>1
  <1> QED BY <1>11, <1>14, <1>15, <1>16, <1>17 DEF BottleFits

-----------------------------------------------------------------------------
(* Where the lines of each block that is open stand in the text.           *)

\* The line that opened a block, and the lines of the block that are in none within it.
OpenerOf(t, os, k) == t[os[k].at]
ContentOf(t, os, k) == SubSeq(t, os[k].at + 1, IF k = Len(os) THEN Len(t) ELSE os[k + 1].at - 1)

PlacesFit(t, os) ==
    /\ \A k \in 1..Len(os) : os[k].at \in 1..Len(t)
    /\ \A j, k \in 1..Len(os) : j < k => os[j].at < os[k].at
    /\ os # <<>> => os[1].at = 1

\* The lines of a block are a text.
LEMMA ContentIsText ==
    ASSUME NEW t \in Seq(Lines), NEW os, Len(os) \in Nat, PlacesFit(t, os), NEW k \in 1..Len(os)
    PROVE  ContentOf(t, os, k) \in Seq(Lines) /\ OpenerOf(t, os, k) \in Lines
  <1>1. os[k].at \in 1..Len(t)
    BY DEF PlacesFit
  <1>2. k # Len(os) => os[k + 1].at \in 1..Len(t)
    BY DEF PlacesFit
  <1> DEFINE a == os[k].at + 1
             b == IF k = Len(os) THEN Len(t) ELSE os[k + 1].at - 1
  <1>3. a \in Nat \ {0} /\ b \in 0..Len(t)
    BY <1>1, <1>2
  <1> HIDE DEF a, b
  <1>4. SubSeq(t, a, b) \in Seq(Lines)
    BY <1>3, CutParts
  <1>5. t[os[k].at] \in Lines
    BY <1>1
  <1> QED BY <1>4, <1>5 DEF ContentOf, OpenerOf, a, b

\* The lines of a text that has one more.
LEMMA TextGrows ==
    ASSUME NEW t \in Seq(Lines), NEW l \in Lines
    PROVE  /\ Append(t, l) = t \o <<l>> /\ Append(t, l) \in Seq(Lines) /\ Len(Append(t, l)) = Len(t) + 1
           /\ \A i \in 1..Len(t) : Append(t, l)[i] = t[i]
           /\ Append(t, l)[Len(t) + 1] = l
           /\ \A f \in 0..Len(t) : SubSeq(Append(t, l), f + 1, Len(t) + 1) = SubSeq(t, f + 1, Len(t)) \o <<l>>
           /\ \A f, b \in 0..Len(t) : SubSeq(Append(t, l), f + 1, b) = SubSeq(t, f + 1, b)
  <1> DEFINE x == <<l>>
             u == Append(t, l)
  <1>1. x \in Seq(Lines) /\ Len(x) = 1
    OBVIOUS
  <1>2. u = t \o x
    BY AppendIsConcat, Zenon
  <1>3. u \in Seq(Lines) /\ Len(u) = Len(t) + 1 /\ u[Len(t) + 1] = l /\ \A i \in 1..Len(t) : u[i] = t[i]
    OBVIOUS
  <1> HIDE DEF x, u
  <1>4. \A f \in 0..Len(t) : SubSeq(t \o x, f + 1, Len(t \o x)) = SubSeq(t, f + 1, Len(t)) \o x
    BY <1>1, SubOfConcat
  <1>5. \A f, b \in 0..Len(t) : SubSeq(t \o x, f + 1, b) = SubSeq(t, f + 1, b)
    BY <1>1, SubOfConcat
  <1>6. \A f \in 0..Len(t) : SubSeq(u, f + 1, Len(t) + 1) = SubSeq(t, f + 1, Len(t)) \o x
    BY <1>2, <1>3, <1>4
  <1>7. \A f, b \in 0..Len(t) : SubSeq(u, f + 1, b) = SubSeq(t, f + 1, b)
    BY <1>2, <1>5
  <1> QED BY <1>2, <1>3, <1>6, <1>7 DEF x, u

\* The lines from one block to the next are those of the first and the opener of the second.
LEMMA SplitAt ==
    ASSUME NEW t \in Seq(Lines), NEW f \in 0..Len(t), NEW g \in (f + 1)..Len(t)
    PROVE  SubSeq(t, f + 1, Len(t)) = SubSeq(t, f + 1, g - 1) \o (<<t[g]>> \o SubSeq(t, g + 1, Len(t)))
  <1> DEFINE n == Len(t)
             a == SubSeq(t, f + 1, g - 1)
             b == SubSeq(t, g + 1, n)
             x == <<t[g]>>
             y == x \o b
             s == SubSeq(t, f + 1, n)
  <1>1. n \in Nat /\ f \in Nat /\ g \in Nat /\ f < g /\ g <= n /\ t[g] \in Lines
        /\ f + 1 \in Nat \ {0} /\ g + 1 \in Nat \ {0} /\ n \in 0..n /\ g - 1 \in 0..n
        /\ (f + 1 <= g - 1 <=> f + 1 < g)
    OBVIOUS
  <1>2. /\ a \in Seq(Lines) /\ b \in Seq(Lines) /\ s \in Seq(Lines)
        /\ Len(a) = (IF f + 1 <= g - 1 THEN (g - 1) - (f + 1) + 1 ELSE 0)
        /\ Len(b) = (IF g + 1 <= n THEN n - (g + 1) + 1 ELSE 0)
        /\ Len(s) = (IF f + 1 <= n THEN n - (f + 1) + 1 ELSE 0)
        /\ \A i \in 1..((g - 1) - (f + 1) + 1) : a[i] = t[(f + 1) + i - 1]
        /\ \A i \in 1..(n - (g + 1) + 1) : b[i] = t[(g + 1) + i - 1]
        /\ \A i \in 1..(n - (f + 1) + 1) : s[i] = t[(f + 1) + i - 1]
    BY <1>1, CutParts
  <1>3. x \in Seq(Lines) /\ Len(x) = 1 /\ x[1] = t[g]
    BY <1>1
  <1> HIDE DEF a, b, s, x, n
  <1>4. /\ Len(a) = g - f - 1 /\ Len(b) = n - g /\ Len(s) = n - f
        /\ \A i \in 1..(g - f - 1) : a[i] = t[f + i]
        /\ \A i \in 1..(n - g) : b[i] = t[g + i]
        /\ \A i \in 1..(n - f) : s[i] = t[f + i]
    <2>1. /\ (g - 1) - (f + 1) + 1 = g - f - 1 /\ n - (g + 1) + 1 = n - g /\ n - (f + 1) + 1 = n - f
          /\ \A i \in Int : (f + 1) + i - 1 = f + i /\ (g + 1) + i - 1 = g + i
          /\ (IF f + 1 <= g - 1 THEN g - f - 1 ELSE 0) = g - f - 1
          /\ (IF g + 1 <= n THEN n - g ELSE 0) = n - g /\ (IF f + 1 <= n THEN n - f ELSE 0) = n - f
      BY <1>1
    <2>2. Len(a) = g - f - 1 /\ Len(b) = n - g /\ Len(s) = n - f
      BY <1>2, <2>1
    <2>3. \A i \in 1..(g - f - 1) : a[i] = t[f + i]
      BY <1>2, <2>1
    <2>4. \A i \in 1..(n - g) : b[i] = t[g + i]
      BY <1>2, <2>1
    <2>5. \A i \in 1..(n - f) : s[i] = t[f + i]
      BY <1>2, <2>1
    <2> QED BY <2>2, <2>3, <2>4, <2>5
  <1>5. /\ y \in Seq(Lines) /\ Len(y) = n - g + 1 /\ y[1] = t[g]
        /\ \A i \in 1..(n - g) : y[i + 1] = t[g + i]
    <2>1. /\ y \in Seq(Lines) /\ Len(y) = Len(x) + Len(b)
          /\ (\A i \in 1..Len(x) : y[i] = x[i]) /\ \A i \in 1..Len(b) : y[Len(x) + i] = b[i]
      BY <1>2, <1>3, JoinParts
    <2> HIDE DEF y
    <2>2. y[1] = t[g]
      BY <1>3, <2>1
    <2>3. ASSUME NEW i \in 1..(n - g) PROVE y[i + 1] = t[g + i]
      <3>1. i \in 1..Len(b) /\ i + 1 = Len(x) + i
        BY <1>1, <1>3, <1>4
      <3>2. y[Len(x) + i] = b[i] /\ b[i] = t[g + i]
        BY <1>4, <2>1, <3>1
      <3> QED BY <3>1, <3>2
    <2>4. Len(y) = n - g + 1
      BY <1>1, <1>3, <1>4, <2>1
    <2> QED BY <2>1, <2>2, <2>3, <2>4
  <1> HIDE DEF y
  <1> DEFINE z == a \o y
  <1>6. /\ z \in Seq(Lines) /\ Len(z) = Len(a) + Len(y)
        /\ (\A i \in 1..Len(a) : z[i] = a[i]) /\ \A i \in 1..Len(y) : z[Len(a) + i] = y[i]
    BY <1>2, <1>5, JoinParts
  <1> HIDE DEF z
  <1>7. Len(z) = n - f /\ Len(s) = n - f
    BY <1>1, <1>4, <1>5, <1>6
  <1>8. ASSUME NEW i \in 1..(n - f) PROVE s[i] = z[i]
    <2>1. s[i] = t[f + i]
      BY <1>4
    <2>2. CASE i <= g - f - 1
      <3>1. i \in 1..(g - f - 1)
        BY <1>1, <2>2
      <3> QED BY <1>4, <1>6, <2>1, <3>1
    <2>3. CASE i = g - f
      <3>1. 1 \in 1..Len(y) /\ i = Len(a) + 1 /\ f + i = g
        BY <1>1, <1>4, <1>5, <2>3
      <3>2. z[i] = y[1]
        BY <1>6, <3>1
      <3> QED BY <1>5, <2>1, <3>1, <3>2
    <2>4. CASE i > g - f
      <3> DEFINE j == i - (g - f)
      <3>1. j \in 1..(n - g) /\ j + 1 \in 1..Len(y) /\ i = Len(a) + (j + 1) /\ f + i = g + j
        BY <1>1, <1>4, <1>5, <2>4
      <3> HIDE DEF j
      <3>2. z[i] = y[j + 1]
        BY <1>6, <3>1
      <3>3. y[j + 1] = t[g + j]
        BY <1>5, <3>1
      <3> QED BY <2>1, <3>1, <3>2, <3>3
    <2>5. i <= g - f - 1 \/ i = g - f \/ i > g - f
      BY <1>1
    <2> QED BY <2>2, <2>3, <2>4, <2>5, Zenon
  <1>9. s = z
    <2>1. \A i \in 1..Len(s) : s[i] = z[i]
      BY <1>7, <1>8
    <2> QED BY <1>2, <1>6, <1>7, <2>1, SeqEqual
  <1> QED BY <1>9 DEF s, z, y, a, b, x, n

\* A line is added to the innermost block.
LEMMA ContentGrows ==
    ASSUME NEW t \in Seq(Lines), NEW l \in Lines, NEW os, Len(os) \in Nat \ {0}, PlacesFit(t, os),
           NEW ot, Len(ot) = Len(os), \A k \in 1..Len(os) : ot[k].at = os[k].at, ot # <<>> => os # <<>>
    PROVE  /\ PlacesFit(Append(t, l), ot)
           /\ \A k \in 1..Len(os) : OpenerOf(Append(t, l), ot, k) = OpenerOf(t, os, k)
           /\ \A k \in 1..(Len(os) - 1) : ContentOf(Append(t, l), ot, k) = ContentOf(t, os, k)
           /\ ContentOf(Append(t, l), ot, Len(os)) = ContentOf(t, os, Len(os)) \o <<l>>
  <1> DEFINE u == Append(t, l)
             n == Len(os)
             x == <<l>>
  <1>1. /\ u \in Seq(Lines) /\ Len(u) = Len(t) + 1
        /\ \A i \in 1..Len(t) : u[i] = t[i]
        /\ \A f \in 0..Len(t) : SubSeq(u, f + 1, Len(t) + 1) = SubSeq(t, f + 1, Len(t)) \o x
        /\ \A f, b \in 0..Len(t) : SubSeq(u, f + 1, b) = SubSeq(t, f + 1, b)
    BY TextGrows
  <1> HIDE DEF u, x
  <1>2. /\ \A k \in 1..n : os[k].at \in 1..Len(t) /\ os[k].at \in 0..Len(t)
        /\ \A j, k \in 1..n : j < k => os[j].at < os[k].at
        /\ os # <<>> => os[1].at = 1
        /\ Len(t) \in Nat
    BY DEF PlacesFit
  <1>3. PlacesFit(u, ot)
    <2>1. \A k \in 1..n : ot[k].at \in 1..Len(u)
      BY <1>1, <1>2
    <2>2. 1 \in 1..n
      OBVIOUS
    <2> QED BY <1>2, <2>1, <2>2 DEF PlacesFit
  <1>4. \A k \in 1..n : OpenerOf(u, ot, k) = OpenerOf(t, os, k)
    BY <1>1, <1>2 DEF OpenerOf
  <1>5. ASSUME NEW k \in 1..(n - 1) PROVE ContentOf(u, ot, k) = ContentOf(t, os, k)
    <2>1. k \in 1..n /\ k # n /\ k + 1 \in 1..n
      OBVIOUS
    <2>2. os[k].at \in 0..Len(t) /\ os[k + 1].at - 1 \in 0..Len(t)
      BY <1>2, <2>1
    <2>3. ContentOf(u, ot, k) = SubSeq(u, os[k].at + 1, os[k + 1].at - 1)
      BY <2>1 DEF ContentOf
    <2>4. ContentOf(t, os, k) = SubSeq(t, os[k].at + 1, os[k + 1].at - 1)
      BY <2>1 DEF ContentOf
    <2> QED BY <1>1, <2>2, <2>3, <2>4
  <1>6. ContentOf(u, ot, n) = ContentOf(t, os, n) \o x
    <2>1. n \in 1..n
      OBVIOUS
    <2>2. ContentOf(u, ot, n) = SubSeq(u, os[n].at + 1, Len(t) + 1)
      BY <1>1, <2>1 DEF ContentOf
    <2>3. ContentOf(t, os, n) = SubSeq(t, os[n].at + 1, Len(t))
      BY DEF ContentOf
    <2>4. os[n].at \in 0..Len(t)
      BY <1>2, <2>1
    <2> QED BY <1>1, <2>2, <2>3, <2>4
  <1> QED BY <1>3, <1>4, <1>5, <1>6 DEF u, x

\* A line opens a block within the innermost one.
LEMMA ContentOpens ==
    ASSUME NEW t \in Seq(Lines), NEW l \in Lines, NEW os, Len(os) \in Nat \ {0}, os # <<>>, PlacesFit(t, os),
           NEW ot, Len(ot) = Len(os) + 1, \A k \in 1..Len(os) : ot[k] = os[k],
           ot[Len(os) + 1].at = Len(t) + 1
    PROVE  /\ PlacesFit(Append(t, l), ot)
           /\ \A k \in 1..Len(os) : OpenerOf(Append(t, l), ot, k) = OpenerOf(t, os, k)
           /\ \A k \in 1..Len(os) : ContentOf(Append(t, l), ot, k) = ContentOf(t, os, k)
           /\ OpenerOf(Append(t, l), ot, Len(os) + 1) = l
           /\ ContentOf(Append(t, l), ot, Len(os) + 1) = <<>>
  <1> DEFINE u == Append(t, l)
             n == Len(os)
  <1>1. /\ u \in Seq(Lines) /\ Len(u) = Len(t) + 1
        /\ \A i \in 1..Len(t) : u[i] = t[i]
        /\ u[Len(t) + 1] = l
        /\ \A f, b \in 0..Len(t) : SubSeq(u, f + 1, b) = SubSeq(t, f + 1, b)
    BY TextGrows
  <1> HIDE DEF u
  <1>2. /\ \A k \in 1..n : os[k].at \in 1..Len(t) /\ os[k].at \in 0..Len(t)
        /\ \A j, k \in 1..n : j < k => os[j].at < os[k].at
        /\ os[1].at = 1 /\ Len(t) \in Nat /\ n \in Nat \ {0}
    BY DEF PlacesFit
  <1>3. PlacesFit(u, ot)
    <2>1. \A k \in 1..(n + 1) : k = n + 1 \/ (k \in 1..n /\ k # n + 1)
      OBVIOUS
    <2>2. ASSUME NEW k \in 1..(n + 1) PROVE ot[k].at \in 1..Len(u)
      <3>1. CASE k = n + 1
        BY <1>1, <1>2, <3>1
      <3>2. CASE k # n + 1
        <4>1. ot[k] = os[k] /\ os[k].at \in 1..Len(t)
          BY <1>2, <2>1, <3>2
        <4> QED BY <1>1, <1>2, <4>1
      <3> QED BY <3>1, <3>2
    <2>3. ASSUME NEW j \in 1..(n + 1), NEW k \in 1..(n + 1), j < k PROVE ot[j].at < ot[k].at
      <3>1. j \in 1..n
        BY <2>3
      <3>2. CASE k = n + 1
        BY <1>2, <3>1, <3>2
      <3>3. CASE k # n + 1
        BY <1>2, <2>1, <2>3, <3>1, <3>3
      <3> QED BY <3>2, <3>3
    <2>4. ot[1].at = 1
      BY <1>2
    <2> QED BY <2>2, <2>3, <2>4 DEF PlacesFit
  <1>4. \A k \in 1..n : OpenerOf(u, ot, k) = OpenerOf(t, os, k)
    BY <1>1, <1>2 DEF OpenerOf
  <1>5. ASSUME NEW k \in 1..n PROVE ContentOf(u, ot, k) = ContentOf(t, os, k)
    <2>1. CASE k = n
      <3>1. ContentOf(u, ot, k) = SubSeq(u, os[n].at + 1, (Len(t) + 1) - 1)
        <4>1. k # Len(ot) /\ k + 1 = n + 1 /\ ot[k] = os[n] /\ ot[k + 1].at = Len(t) + 1
          BY <1>2, <2>1
        <4> QED BY <4>1 DEF ContentOf
      <3>2. ContentOf(t, os, k) = SubSeq(t, os[n].at + 1, Len(t))
        BY <2>1 DEF ContentOf
      <3>3. (Len(t) + 1) - 1 = Len(t) /\ Len(t) \in 0..Len(t) /\ os[n].at \in 0..Len(t)
        BY <1>2, <2>1
      <3> QED BY <1>1, <3>1, <3>2, <3>3
    <2>2. CASE k # n
      <3>1. k \in 1..n /\ k # n /\ k # n + 1 /\ k + 1 \in 1..n
        BY <2>2
      <3>2. os[k].at \in 0..Len(t) /\ os[k + 1].at - 1 \in 0..Len(t)
        BY <1>2, <3>1
      <3>3. ContentOf(u, ot, k) = SubSeq(u, os[k].at + 1, os[k + 1].at - 1)
        BY <3>1 DEF ContentOf
      <3>4. ContentOf(t, os, k) = SubSeq(t, os[k].at + 1, os[k + 1].at - 1)
        BY <3>1 DEF ContentOf
      <3> QED BY <1>1, <3>2, <3>3, <3>4
    <2> QED BY <2>1, <2>2
  <1>6. OpenerOf(u, ot, n + 1) = l
    BY <1>1 DEF OpenerOf
  <1>7. ContentOf(u, ot, n + 1) = <<>>
    <2>1. ContentOf(u, ot, n + 1) = SubSeq(u, (Len(t) + 1) + 1, Len(t) + 1)
      BY <1>1 DEF ContentOf
    <2>2. (Len(t) + 1) + 1 \in Nat \ {0} /\ Len(t) + 1 \in 0..Len(u) /\ ~((Len(t) + 1) + 1 <= Len(t) + 1)
      BY <1>1, <1>2
    <2>3. SubSeq(u, (Len(t) + 1) + 1, Len(t) + 1) \in Seq(Lines)
          /\ Len(SubSeq(u, (Len(t) + 1) + 1, Len(t) + 1)) = 0
      BY <1>1, <2>2, CutParts
    <2> QED BY <2>1, <2>3, EmptySeq
  <1> QED BY <1>3, <1>4, <1>5, <1>6, <1>7 DEF u

\* A line closes the innermost block: its lines go to the block around it.
LEMMA ContentCloses ==
    ASSUME NEW t \in Seq(Lines), NEW e \in Lines, NEW os, Len(os) \in Nat, Len(os) >= 2, os # <<>>, PlacesFit(t, os),
           NEW ot, Len(ot) = Len(os) - 1, \A k \in 1..(Len(os) - 1) : ot[k] = os[k]
    PROVE  /\ PlacesFit(Append(t, e), ot)
           /\ \A k \in 1..(Len(os) - 1) : OpenerOf(Append(t, e), ot, k) = OpenerOf(t, os, k)
           /\ \A k \in 1..(Len(os) - 2) : ContentOf(Append(t, e), ot, k) = ContentOf(t, os, k)
           /\ ContentOf(Append(t, e), ot, Len(os) - 1) =
                 ContentOf(t, os, Len(os) - 1) \o Block(OpenerOf(t, os, Len(os)), ContentOf(t, os, Len(os)), e)
  <1> DEFINE u == Append(t, e)
             n == Len(os)
             z == <<e>>
  <1>1. /\ u \in Seq(Lines) /\ Len(u) = Len(t) + 1
        /\ \A i \in 1..Len(t) : u[i] = t[i]
        /\ \A f \in 0..Len(t) : SubSeq(u, f + 1, Len(t) + 1) = SubSeq(t, f + 1, Len(t)) \o z
        /\ \A f, b \in 0..Len(t) : SubSeq(u, f + 1, b) = SubSeq(t, f + 1, b)
    BY TextGrows
  <1>z. z \in Seq(Lines)
    OBVIOUS
  <1> HIDE DEF u, z
  <1>2. /\ \A k \in 1..n : os[k].at \in 1..Len(t) /\ os[k].at \in 0..Len(t)
        /\ \A j, k \in 1..n : j < k => os[j].at < os[k].at
        /\ os[1].at = 1 /\ Len(t) \in Nat /\ n \in Nat /\ n >= 2
    BY DEF PlacesFit
  <1>3. PlacesFit(u, ot)
    <2>1. \A k \in 1..(n - 1) : ot[k].at \in 1..Len(u)
      BY <1>1, <1>2
    <2>2. ASSUME NEW j \in 1..(n - 1), NEW k \in 1..(n - 1), j < k PROVE ot[j].at < ot[k].at
      <3>1. j \in 1..n /\ k \in 1..n /\ ot[j] = os[j] /\ ot[k] = os[k]
        OBVIOUS
      <3> QED BY <1>2, <2>2, <3>1
    <2>3. ot[1].at = 1
      BY <1>2
    <2> QED BY <2>1, <2>2, <2>3 DEF PlacesFit
  <1>4. \A k \in 1..(n - 1) : OpenerOf(u, ot, k) = OpenerOf(t, os, k)
    BY <1>1, <1>2 DEF OpenerOf
  <1>5. ASSUME NEW k \in 1..(n - 2) PROVE ContentOf(u, ot, k) = ContentOf(t, os, k)
    <2>1. k \in 1..n /\ k + 1 \in 1..n /\ k # n /\ k # Len(ot) /\ k + 1 \in 1..(n - 1) /\ k \in 1..(n - 1)
      BY <1>2
    <2>2. os[k].at \in 0..Len(t) /\ os[k + 1].at - 1 \in 0..Len(t)
      BY <1>2, <2>1
    <2>3. ContentOf(u, ot, k) = SubSeq(u, os[k].at + 1, os[k + 1].at - 1)
      BY <2>1 DEF ContentOf
    <2>4. ContentOf(t, os, k) = SubSeq(t, os[k].at + 1, os[k + 1].at - 1)
      BY <2>1 DEF ContentOf
    <2> QED BY <1>1, <2>2, <2>3, <2>4
  <1>6. ContentOf(u, ot, n - 1) = ContentOf(t, os, n - 1) \o Block(OpenerOf(t, os, n), ContentOf(t, os, n), e)
    <2> DEFINE f == os[n - 1].at
               g == os[n].at
               a == SubSeq(t, f + 1, g - 1)
               o == t[g]
               x == <<o>>
               b == SubSeq(t, g + 1, Len(t))
    <2>1. n - 1 \in 1..n /\ n \in 1..n /\ n - 1 < n /\ n - 1 # n /\ (n - 1) + 1 = n
      BY <1>2
    <2>2. f \in 0..Len(t) /\ g \in 1..Len(t) /\ f < g
      BY <1>2, <2>1
    <2>3. g \in (f + 1)..Len(t)
      BY <1>2, <2>2
    <2>4. ContentOf(t, os, n - 1) = a /\ ContentOf(t, os, n) = b /\ OpenerOf(t, os, n) = o
      BY <2>1 DEF ContentOf, OpenerOf
    <2>5. ContentOf(u, ot, n - 1) = SubSeq(u, f + 1, Len(t) + 1)
      <3>1. n - 1 = Len(ot) /\ ot[n - 1] = os[n - 1]
        BY <1>2
      <3> QED BY <1>1, <3>1 DEF ContentOf
    <2> HIDE DEF f, g
    <2>6. SubSeq(t, f + 1, Len(t)) = a \o (x \o b)
      BY <2>2, <2>3, SplitAt
    <2>7. a \in Seq(Lines) /\ b \in Seq(Lines) /\ x \in Seq(Lines)
      <3>1. f + 1 \in Nat \ {0} /\ g + 1 \in Nat \ {0} /\ g - 1 \in 0..Len(t) /\ Len(t) \in 0..Len(t) /\ o \in Lines
        BY <1>2, <2>2
      <3> QED BY <3>1, CutParts
    <2> HIDE DEF a, b, x
    <2>8. Associates(a, x \o b, z)
      <3>1. x \o b \in Seq(Lines)
        BY <2>7, JoinLaws
      <3> QED BY <1>z, <2>7, <3>1, TextsAssociate
    <2>9. SubSeq(u, f + 1, Len(t) + 1) = (a \o (x \o b)) \o z
      BY <1>1, <2>2, <2>6
    <2>10. ContentOf(u, ot, n - 1) = a \o ((x \o b) \o z)
      BY <2>5, <2>8, <2>9, Zenon DEF Associates
    <2>11. Block(o, b, e) = (x \o b) \o z
      BY DEF Block, x, z
    <2> QED BY <2>4, <2>10, <2>11, Zenon
  <1> QED BY <1>3, <1>4, <1>5, <1>6 DEF u

\* The last line closes the class.
LEMMA TextCloses ==
    ASSUME NEW t \in Seq(Lines), NEW e \in Lines, NEW os, Len(os) = 1, os # <<>>, PlacesFit(t, os)
    PROVE  Append(t, e) = Block(OpenerOf(t, os, 1), ContentOf(t, os, 1), e)
  <1>1. os[1].at = 1 /\ 1 \in 1..Len(t)
    <2>1. 1 \in 1..Len(os)
      OBVIOUS
    <2> QED BY <2>1 DEF PlacesFit
  <1>2. OpenerOf(t, os, 1) = t[1] /\ ContentOf(t, os, 1) = SubSeq(t, 2, Len(t))
    BY <1>1 DEF OpenerOf, ContentOf
  <1> DEFINE b == SubSeq(t, 2, Len(t))
             x == <<t[1]>>
  <1>3. 0 \in 0..Len(t) /\ 1 \in (0 + 1)..Len(t) /\ 0 + 1 = 1 /\ 1 - 1 = 0 /\ 1 + 1 = 2
        /\ Len(t) \in 0..Len(t) /\ 1 \in Nat \ {0} /\ 2 \in Nat \ {0} /\ ~(1 <= 0)
    BY <1>1
  <1>4. SubSeq(t, 0 + 1, Len(t)) = SubSeq(t, 0 + 1, 1 - 1) \o (<<t[1]>> \o SubSeq(t, 1 + 1, Len(t)))
    BY <1>3, SplitAt
  <1>5. b \in Seq(Lines) /\ x \in Seq(Lines) /\ SubSeq(t, 1, 0) \in Seq(Lines) /\ Len(SubSeq(t, 1, 0)) = 0
    BY <1>1, <1>3, CutParts
  <1>6. SubSeq(t, 1, Len(t)) = SubSeq(t, 1, 0) \o (x \o b)
    BY <1>3, <1>4
  <1> HIDE DEF b, x
  <1>7. SubSeq(t, 1, 0) = <<>>
    BY <1>5, EmptySeq
  <1>8. SubSeq(t, 1, Len(t)) = x \o b
    <2>1. x \o b \in Seq(Lines)
      BY <1>5, JoinLaws
    <2>2. <<>> \o (x \o b) = x \o b
      BY <2>1, JoinLaws
    <2> QED BY <1>6, <1>7, <2>2, Zenon
  <1>9. SubSeq(t, 1, Len(t)) = t
    <2>1. t \o <<>> = t /\ <<>> \in Seq(Lines)
      BY JoinLaws
    <2>2. SubSeq(t \o <<>>, 1, Len(t)) = t
      BY <2>1, StartAndRestOf
    <2> QED BY <2>1, <2>2
  <1>10. Append(t, e) = t \o <<e>>
    BY TextGrows
  <1> QED BY <1>2, <1>8, <1>9, <1>10, Zenon DEF Block, b, x

-----------------------------------------------------------------------------
(* A text that is written, its open blocks and what Ruby has collected.    *)

\* What is left of the open blocks; a here-document is not part of any until it is closed.
Live(t, os, k) ==
    IF os[k].is = "doc" THEN <<>>
    ELSE LiveOf(OpenerOf(t, os, k), ContentOf(t, os, k), os[k], InBottle(os, k))
Lives(t, os) == [k \in 1..Len(os) |-> Live(t, os, k)]

OneFits(d, t, os, k) ==
    IF os[k].is = "doc"
    THEN DocFits(d, OpenerOf(t, os, k), ContentOf(t, os, k)) /\ (ContentOf(t, os, k) # <<>> => Len(os) = 2)
    ELSE LevelFits(d, OpenerOf(t, os, k), ContentOf(t, os, k), os[k], InBottle(os, k))

\* A text that is written, the blocks that are open, and what Ruby has collected.
Agrees(d, t, os, mean) ==
    /\ PlacesFit(t, os) /\ OpenFits(d, os)
    /\ \A k \in 1..Len(os) : OneFits(d, t, os, k)
    /\ NumsFit(d, os, Lives(t, os), mean)
    /\ BottleFits(os, Lives(t, os), NoLine(t, {"bottle"}))

LEMMA InBottleIsBoolean == \A os, k : InBottle(os, k) \in BOOLEAN
  BY DEF InBottle

\* What is left of a block depends on its lines and the blocks around it.
LEMMA SameLive ==
    ASSUME NEW d, NEW t, NEW u, NEW os, NEW ot, NEW k, ot[k] = os[k], InBottle(os, k) <=> InBottle(ot, k),
           OpenerOf(u, ot, k) = OpenerOf(t, os, k), ContentOf(u, ot, k) = ContentOf(t, os, k)
    PROVE  /\ Live(u, ot, k) = Live(t, os, k)
           /\ os[k].is # "doc" => (OneFits(d, u, ot, k) <=> OneFits(d, t, os, k))
  <1>1. InBottle(os, k) = InBottle(ot, k)
    BY InBottleIsBoolean
  <1> QED BY <1>1 DEF Live, OneFits

\* A piece without bottles fits any text.
LEMMA PieceWhole ==
    \A d, p, m, whole : PieceFits(d, p, m, TRUE) => PieceFits(d, p, m, whole)
  BY DEF PieceFits

\* What is left of each open block is a text that fits.
LEMMA LivesFit ==
    ASSUME NEW d, NEW t \in Seq(Lines), NEW os \in Seq(Blocks), PlacesFit(t, os),
           \A k \in 1..Len(os) : OneFits(d, t, os, k), NEW k \in 1..Len(os)
    PROVE  /\ Lives(t, os)[k] = Live(t, os, k)
           /\ Live(t, os, k) \in Seq(Lines) /\ LiveFits(d, Live(t, os, k))
           /\ Bal(Plain(Live(t, os, k)))
  <1>1. Lives(t, os)[k] = Live(t, os, k)
    BY DEF Lives
  <1>2. CASE os[k].is = "doc"
    <2>1. Live(t, os, k) = <<>>
      BY <1>2 DEF Live
    <2> QED BY <1>1, <2>1, LiveFitsOfNothing, JoinLaws DEF LiveFits
  <1>3. CASE os[k].is # "doc"
    <2> DEFINE o == OpenerOf(t, os, k)
               c == ContentOf(t, os, k)
               m == InBottle(os, k)
    <2>1. Live(t, os, k) = LiveOf(o, c, os[k], m) /\ LevelFits(d, o, c, os[k], m)
      BY <1>3 DEF Live, OneFits
    <2>2. c \in Seq(Lines) /\ m \in BOOLEAN
      BY ContentIsText, InBottleIsBoolean
    <2> HIDE DEF o, c, m
    <2>3. LiveOf(o, c, os[k], m) \in Seq(Lines)
      BY <2>2, KeptOfIsText
    <2>4. LiveFits(d, LiveOf(o, c, os[k], m))
      BY <2>1 DEF LevelFits
    <2> QED BY <1>1, <2>1, <2>3, <2>4 DEF LiveFits
  <1> QED BY <1>2, <1>3

\* A line that opens no bottle block leaves a text without one.
LEMMA NoBottleGrows ==
    \A t \in Seq(Lines) : \A l \in Lines :
       NoLine(Append(t, l), {"bottle"}) <=> NoLine(t, {"bottle"}) /\ l.is # "bottle"
  <1> SUFFICES ASSUME NEW t \in Seq(Lines), NEW l \in Lines
               PROVE  NoLine(Append(t, l), {"bottle"}) <=> NoLine(t, {"bottle"}) /\ l.is # "bottle"
    OBVIOUS
  <1>1. Append(t, l) = t \o <<l>> /\ <<l>> \in Seq(Lines)
    BY TextGrows
  <1>2. NoLine(<<l>>, {"bottle"}) <=> l.is \notin {"bottle"}
    BY NoLineOf
  <1>3. NoLine(t \o <<l>>, {"bottle"}) <=> NoLine(t, {"bottle"}) /\ NoLine(<<l>>, {"bottle"})
    BY <1>1, NoLineOf, Zenon
  <1> QED BY <1>1, <1>2, <1>3

\* The bottle block that is open is in the text.
LEMMA BottleIsWritten ==
    ASSUME NEW d, NEW t \in Seq(Lines), NEW os \in Seq(Blocks), PlacesFit(t, os),
           \A k \in 1..Len(os) : OneFits(d, t, os, k), NEW k \in 1..Len(os), InBottle(os, k)
    PROVE  ~NoLine(t, {"bottle"})
  <1>1. PICK j \in 1..k : os[j].is = "bottle"
    BY DEF InBottle
  <1>2. j \in 1..Len(os)
    OBVIOUS
  <1>3. LevelFits(d, OpenerOf(t, os, j), ContentOf(t, os, j), os[j], InBottle(os, j))
    BY <1>1, <1>2 DEF OneFits
  <1>4. OpenerOf(t, os, j).is = "bottle"
    BY <1>1, <1>3 DEF LevelFits, OpenerFits
  <1>5. os[j].at \in DOMAIN t
    BY <1>2 DEF PlacesFit
  <1> QED BY <1>4, <1>5 DEF NoLine, OpenerOf

-----------------------------------------------------------------------------
\* A stanza: what is left of the blocks and what Ruby has collected grow together.
LEMMA StanzaFits ==
    ASSUME NEW d \in {"formula", "cask"}, NEW t \in Seq(Lines), NEW os \in Seq(Blocks), os # <<>>,
           NEW mean, Agrees(d, t, os, mean), NEW l \in Lines, NEW kind \in Stanzas, l.is = kind,
           os[Len(os)].is # "doc",
           InBottle(os, Len(os)) <=> kind = "digest", InBlock(os, Len(os)) => ~Wide(d, kind),
           NEW mean2, \A j \in Stanzas : j # kind => Found(mean2, j) = Found(mean, j),
           Found(mean2, kind) = IF Goes(os[Len(os)], InBottle(os, Len(os))) /\ Counted(os, Len(os))
                                THEN Found(mean, kind) \cup {l.at} ELSE Found(mean, kind)
    PROVE  Agrees(d, Append(t, l), os, mean2)
  <1> DEFINE u == Append(t, l)
             n == Len(os)
             x == <<l>>
             m == InBottle(os, n)
             o == OpenerOf(t, os, n)
             c == ContentOf(t, os, n)
             b == os[n]
             v == Lives(t, os)
             w == Lives(u, os)
  <1>1. /\ PlacesFit(t, os) /\ OpenFits(d, os) /\ \A k \in 1..n : OneFits(d, t, os, k)
        /\ NumsFit(d, os, v, mean) /\ BottleFits(os, v, NoLine(t, {"bottle"}))
    BY DEF Agrees
  <1>2. n \in Nat \ {0} /\ DOMAIN os = 1..n /\ n \in 1..n
    OBVIOUS
  <1>3. u \in Seq(Lines) /\ x \in Seq(Lines) /\ m \in BOOLEAN
    BY TextGrows, InBottleIsBoolean
  <1>4. /\ PlacesFit(u, os)
        /\ \A k \in 1..n : OpenerOf(u, os, k) = OpenerOf(t, os, k)
        /\ \A k \in 1..(n - 1) : ContentOf(u, os, k) = ContentOf(t, os, k)
        /\ ContentOf(u, os, n) = c \o x
    BY <1>1, <1>2, ContentGrows
  <1>5. c \in Seq(Lines) /\ o \in Lines
    BY <1>1, <1>2, ContentIsText
  <1>6. \A k \in 1..n : v[k] = Live(t, os, k) /\ v[k] \in Seq(Lines) /\ Bal(Plain(v[k]))
    BY <1>1, LivesFit
  <1>7. \A k \in 1..n : w[k] = Live(u, os, k)
    BY DEF Lives
  <1>8. LevelFits(d, o, c, b, m) /\ v[n] = LiveOf(o, c, b, m)
    BY <1>1, <1>2, <1>6 DEF OneFits, Live
  <1>9. PieceFits(d, x, m, TRUE) /\ Pass("arch", Pass(Platform(m), x)) = x
    BY <1>3, LineFits
  <1> HIDE DEF u, n, x, m, o, c, b, v, w
  <1>22. c \in Seq(Lines) /\ x \in Seq(Lines) /\ m \in BOOLEAN /\ LevelFits(d, o, c, b, m)
    BY <1>3, <1>5, <1>8
  <1>10. Appended(d, o, c, b, m, x)
    BY <1>22, <1>9, AppendPiece, Zenon
  <1>11. OpenerOf(u, os, n) = o /\ ContentOf(u, os, n) = c \o x
    BY <1>2, <1>4 DEF o
  <1>12. OneFits(d, u, os, n) /\ Live(u, os, n) = LiveOf(o, c \o x, b, m)
    <2>1. LevelFits(d, o, c \o x, b, m)
      BY <1>10 DEF Appended
    <2> QED BY <2>1, <1>11, Zenon DEF OneFits, Live, b, m, n
  <1>13. w[n] = IF Goes(b, m) THEN v[n] \o x ELSE v[n]
    <2>1. Goes(b, m) => w[n] = v[n] \o x
      BY <1>2, <1>7, <1>8, <1>9, <1>10, <1>12, Zenon DEF Appended
    <2>2. ~Goes(b, m) => w[n] = v[n]
      BY <1>2, <1>7, <1>8, <1>10, <1>12, Zenon DEF Appended
    <2> QED BY <2>1, <2>2, Zenon
  <1>14. \A k \in 1..(n - 1) : k \in 1..n /\ os[k].is # "doc"
    BY <1>1, <1>2 DEF OpenFits, n
  <1>15. \A k \in 1..(n - 1) : w[k] = v[k] /\ OneFits(d, u, os, k)
    <2> SUFFICES ASSUME NEW k \in 1..(n - 1) PROVE w[k] = v[k] /\ OneFits(d, u, os, k)
      OBVIOUS
    <2>1. k \in 1..n /\ os[k].is # "doc" /\ OneFits(d, t, os, k)
      BY <1>1, <1>14
    <2>2. Live(u, os, k) = Live(t, os, k) /\ OneFits(d, u, os, k)
      BY <1>4, <2>1, SameLive
    <2> QED BY <1>6, <1>7, <2>1, <2>2
  <1>16. \A k \in 1..n : OneFits(d, u, os, k)
    <2>1. \A k \in 1..n : k = n \/ k \in 1..(n - 1)
      BY <1>2
    <2> QED BY <1>12, <1>15, <2>1
  <1>17. /\ Goes(os[n], InBottle(os, n)) => w[n] = v[n] \o <<l>>
         /\ ~Goes(os[n], InBottle(os, n)) => w[n] = v[n]
    BY <1>13 DEF b, m, x
  <1>18. NumsFit(d, os, w, mean2)
    <2>1. \A k \in 1..n : v[k] \in Seq(Lines)
      BY <1>6
    <2>2. Bal(Plain(v[n])) /\ \A k \in 1..(n - 1) : w[k] = v[k]
      BY <1>2, <1>6, <1>15
    <2>3. (InBottle(os, n) => kind = "digest") /\ (InBlock(os, n) => ~Wide(d, kind))
      BY DEF n
    <2>4. /\ Goes(os[n], InBottle(os, n)) /\ Counted(os, n) => Found(mean2, kind) = Found(mean, kind) \cup {l.at}
          /\ ~(Goes(os[n], InBottle(os, n)) /\ Counted(os, n)) => Found(mean2, kind) = Found(mean, kind)
      BY Zenon DEF n
    <2>5. StanzaCounts(d, n, os, v, w, mean, mean2, l, kind)
      BY <1>1, <1>2, <1>17, <2>1, <2>2, <2>3, <2>4, Zenon DEF StanzaCounts
    <2> QED BY <1>2, <2>5, NumsOfStanza
  <1>19. l.is # "bottle"
    BY DEF Stanzas
  <1>20. NoLine(u, {"bottle"}) = NoLine(t, {"bottle"})
    BY <1>19, NoBottleGrows DEF u, NoLine
  <1>21. BottleFits(os, w, NoLine(u, {"bottle"}))
    <2>1. \A k \in 1..n : v[k] \in Seq(Lines)
      BY <1>6
    <2>2. \A k \in 1..(n - 1) : w[k] = v[k]
      BY <1>15
    <2>3. w[n] \in {v[n], v[n] \o <<l>>}
      BY <1>17
    <2>4. InBottle(os, n) <=> l.is = "digest"
      BY DEF n
    <2>5. InBottle(os, n) => ~NoLine(t, {"bottle"})
      BY <1>1, <1>2, BottleIsWritten DEF n
    <2> DEFINE none == NoLine(t, {"bottle"})
    <2>6. BottleFits(os, v, none) /\ (InBottle(os, n) => ~none)
      BY <1>1, <2>5
    <2> HIDE DEF none
    <2>7. BottleFits(os, w, none)
      BY <1>2, <1>19, <2>1, <2>2, <2>3, <2>4, <2>6, BottleOfStanza
    <2> QED BY <1>20, <2>7 DEF none
  <1> QED BY <1>1, <1>4, <1>16, <1>18, <1>21 DEF Agrees, u, w, n

-----------------------------------------------------------------------------
(* Steps that add nothing to what is left: branches, prose, new blocks.    *)

\* A step that adds nothing to what is left: at most one block more, with nothing in it.
SameLives(d, t, u, os, ot) ==
    /\ Len(ot) \in {Len(os), Len(os) + 1}
    /\ PlacesFit(u, ot) /\ OpenFits(d, ot)
    /\ \A k \in 1..Len(ot) : OneFits(d, u, ot, k)
    /\ \A k \in 1..Len(os) : SameLevel(os, ot, k) /\ Live(u, ot, k) = Live(t, os, k)
    /\ Len(ot) = Len(os) + 1 => /\ Live(u, ot, Len(ot)) = <<>>
                                /\ ot[Len(ot)].is = "bottle" => NoLine(t, {"bottle"})
    /\ NoLine(u, {"bottle"}) => NoLine(t, {"bottle"})

\* Steps that add nothing leave a text that fits.
LEMMA SameFits ==
    ASSUME NEW d, NEW t \in Seq(Lines), NEW u \in Seq(Lines), NEW os \in Seq(Blocks), os # <<>>,
           NEW ot \in Seq(Blocks), NEW mean, Agrees(d, t, os, mean), SameLives(d, t, u, os, ot)
    PROVE  Agrees(d, u, ot, mean)
  <1> DEFINE n == Len(os)
             m == Len(ot)
             v == Lives(t, os)
             w == Lives(u, ot)
             none == NoLine(t, {"bottle"})
             none2 == NoLine(u, {"bottle"})
  <1>1. /\ NumsFit(d, os, v, mean) /\ BottleFits(os, v, none)
    BY DEF Agrees
  <1>2. n \in Nat \ {0} /\ DOMAIN os = 1..n /\ DOMAIN ot = 1..m
    OBVIOUS
  <1>3. m \in {n, n + 1} /\ 1..n \subseteq 1..m
    BY DEF SameLives
  <1>4. /\ \A k \in 1..n : v[k] = Live(t, os, k)
        /\ \A k \in 1..m : w[k] = Live(u, ot, k)
    BY DEF Lives
  <1>5. /\ \A k \in 1..n : SameLevel(os, ot, k) /\ Live(u, ot, k) = Live(t, os, k)
        /\ m = n + 1 => Live(u, ot, m) = <<>> /\ (ot[m].is = "bottle" => none)
        /\ none2 => none
    BY DEF SameLives
  <1>6. PlacesFit(u, ot) /\ OpenFits(d, ot) /\ \A k \in 1..m : OneFits(d, u, ot, k)
    BY DEF SameLives
  <1> HIDE DEF n, m, v, w, none, none2
  <1>7. \A k \in 1..n : SameLevel(os, ot, k) /\ w[k] = v[k]
    BY <1>3, <1>4, <1>5
  <1>8. m = n + 1 => m \in 1..m
    BY <1>2
  <1>9. m = n + 1 => w[m] = <<>> /\ (ot[m].is = "bottle" => none)
    BY <1>4, <1>5, <1>8
  <1>10. NumsFit(d, ot, w, mean)
    BY <1>1, <1>2, <1>3, <1>7, <1>9, NumsOfSame
  <1>11. BottleFits(ot, w, none2)
    BY <1>1, <1>2, <1>3, <1>5, <1>7, <1>9, BottleOfSame
  <1> QED BY <1>6, <1>10, <1>11 DEF Agrees, m, w, none2

\* The blocks below the innermost one keep what they have.
Untouched(t, u, os, ot, n) ==
    \A k \in 1..n : ot[k] = os[k] /\ os[k].is # "doc"
                    /\ OpenerOf(u, ot, k) = OpenerOf(t, os, k)
                    /\ ContentOf(u, ot, k) = ContentOf(t, os, k)

\* Blocks that keep their lines still fit.
LEMMA LowerSame ==
    ASSUME NEW d, NEW t, NEW u, NEW os \in Seq(Blocks), NEW ot \in Seq(Blocks), NEW n \in Nat,
           n <= Len(os), \A k \in 1..Len(os) : OneFits(d, t, os, k), Untouched(t, u, os, ot, n)
    PROVE  \A k \in 1..n : SameLevel(os, ot, k) /\ Live(u, ot, k) = Live(t, os, k) /\ OneFits(d, u, ot, k)
  <1> SUFFICES ASSUME NEW k \in 1..n
               PROVE  SameLevel(os, ot, k) /\ Live(u, ot, k) = Live(t, os, k) /\ OneFits(d, u, ot, k)
    OBVIOUS
  <1>1. k \in 1..Len(os) /\ k \in Nat \ {0} /\ \A j \in 1..k : j \in 1..n
    OBVIOUS
  <1>2. SameLevel(os, ot, k)
    BY <1>1 DEF SameLevel, Alike, Untouched
  <1>3. InBottle(os, k) <=> InBottle(ot, k)
    BY <1>1, <1>2, SameCounts
  <1>4. OneFits(d, t, os, k) /\ os[k].is # "doc" /\ ot[k] = os[k]
        /\ OpenerOf(u, ot, k) = OpenerOf(t, os, k) /\ ContentOf(u, ot, k) = ContentOf(t, os, k)
    BY <1>1 DEF Untouched
  <1>5. Live(u, ot, k) = Live(t, os, k) /\ OneFits(d, u, ot, k)
    BY <1>3, <1>4, SameLive
  <1> QED BY <1>2, <1>5

\* The next branch of the innermost conditional.
LEMMA BranchKeeps ==
    ASSUME NEW d, NEW t \in Seq(Lines), NEW os \in Seq(Blocks), os # <<>>, NEW mean, Agrees(d, t, os, mean),
           NEW l \in Lines, NEW ot \in Seq(Blocks), Len(ot) = Len(os),
           \A k \in 1..(Len(os) - 1) : ot[k] = os[k],
           ot[Len(os)].at = os[Len(os)].at, NextBranchOf(os[Len(os)], l, ot[Len(os)])
    PROVE  Agrees(d, Append(t, l), ot, mean)
  <1> DEFINE n == Len(os)
             u == Append(t, l)
             a == ot[n]
             b == os[n]
             m == InBottle(os, n)
             o == OpenerOf(t, os, n)
             c == ContentOf(t, os, n)
             x == <<l>>
  <1>1. PlacesFit(t, os) /\ OpenFits(d, os) /\ \A k \in 1..n : OneFits(d, t, os, k)
    BY DEF Agrees
  <1>2. n \in Nat \ {0} /\ DOMAIN os = 1..n /\ DOMAIN ot = 1..n /\ n \in 1..n /\ Len(ot) = n
        /\ \A k \in 1..n : k = n \/ k \in 1..(n - 1)
    OBVIOUS
  <1>3. NextBranchOf(b, l, a) /\ a.is \in {"if", "else"} /\ b.is = "if" /\ l.is \in {"elsif", "else"}
    BY Zenon DEF NextBranchOf
  <1>4. \A k \in 1..n : ot[k].at = os[k].at
    BY <1>2
  <1>5. /\ PlacesFit(u, ot)
        /\ \A k \in 1..n : OpenerOf(u, ot, k) = OpenerOf(t, os, k)
        /\ \A k \in 1..(n - 1) : ContentOf(u, ot, k) = ContentOf(t, os, k)
        /\ ContentOf(u, ot, n) = c \o x
    <2>1. Len(os) \in Nat \ {0} /\ Len(ot) = Len(os) /\ (ot # <<>> => os # <<>>)
      OBVIOUS
    <2>2. \A k \in 1..Len(os) : ot[k].at = os[k].at
      BY <1>4
    <2> QED BY <1>1, <2>1, <2>2, ContentGrows
  <1>6. c \in Seq(Lines) /\ o \in Lines
    BY <1>1, <1>2, ContentIsText
  <1>7. u \in Seq(Lines) /\ m \in BOOLEAN
    BY TextGrows, InBottleIsBoolean
  <1>8. Conditional(a) /\ Conditional(b)
    BY <1>3 DEF Conditional
  <1>9. SameLevel(os, ot, n)
    BY <1>8 DEF SameLevel, Alike
  <1>10. m <=> InBottle(ot, n)
    BY <1>2, <1>9, SameCounts
  <1>11. LevelFits(d, o, c, b, m) /\ Live(t, os, n) = LiveOf(o, c, b, m)
    <2>1. b.is # "doc"
      BY <1>3
    <2> QED BY <1>1, <1>2, <2>1 DEF OneFits, Live
  <1>12. OpenerOf(u, ot, n) = o
    BY <1>2, <1>5
  <1> HIDE DEF n, u, a, b, m, o, c, x
  <1>13. LevelFits(d, o, c \o x, a, m) /\ LiveOf(o, c \o x, a, m) = LiveOf(o, c, b, m)
    BY <1>3, <1>6, <1>7, <1>11, NextBranchFits DEF x
  <1>14. m = InBottle(ot, n)
    BY <1>7, <1>10, InBottleIsBoolean
  <1>15. a.is # "doc"
    BY <1>3
  <1>16. OneFits(d, u, ot, n) /\ Live(u, ot, n) = Live(t, os, n)
    <2>1. OneFits(d, u, ot, n) <=> LevelFits(d, o, c \o x, a, m)
      BY <1>5, <1>12, <1>14, <1>15, Zenon DEF OneFits, a
    <2>2. Live(u, ot, n) = LiveOf(o, c \o x, a, m)
      BY <1>5, <1>12, <1>14, <1>15, Zenon DEF Live, a
    <2> QED BY <1>11, <1>13, <2>1, <2>2
  <1>17. \A k \in 1..(n - 1) : os[k].is # "doc" /\ ot[k] = os[k]
    <2>0. Len(os) = n
      BY DEF n
    <2>1. \A k \in 1..(n - 1) : k \in 1..n /\ k # n
      BY <1>2
    <2>2. \A k \in 1..(n - 1) : os[k].is # "doc"
      BY <1>1, <1>2, <2>0, <2>1 DEF OpenFits
    <2>3. \A k \in 1..(n - 1) : ot[k] = os[k]
      BY DEF n
    <2> QED BY <2>2, <2>3
  <1>18. \A k \in 1..(n - 1) : SameLevel(os, ot, k) /\ Live(u, ot, k) = Live(t, os, k) /\ OneFits(d, u, ot, k)
    <2>0. Len(os) = n
      BY DEF n
    <2>1. n - 1 \in Nat /\ n - 1 <= n /\ \A k \in 1..(n - 1) : k \in 1..n
      BY <1>2
    <2>2. Untouched(t, u, os, ot, n - 1)
      BY <1>5, <1>17, <2>1 DEF Untouched
    <2> DEFINE h == n - 1
    <2>3. h \in Nat /\ h <= Len(os)
      BY <2>0, <2>1
    <2> HIDE DEF h
    <2>4. \A k \in 1..h : SameLevel(os, ot, k) /\ Live(u, ot, k) = Live(t, os, k) /\ OneFits(d, u, ot, k)
      BY <1>1, <2>0, <2>2, <2>3, LowerSame DEF h
    <2> QED BY <2>4 DEF h
  <1>19. OpenFits(d, ot)
    <2>1. \A k \in 1..n : /\ ot[k].is = os[k].is \/ k = n
                          /\ Conditional(ot[k]) <=> Conditional(os[k])
                          /\ ~Conditional(ot[k]) => ot[k] = os[k]
      BY <1>2, <1>8, <1>17 DEF a, b
    <2>2. ot[n].is \in {"if", "else"} /\ os[n].is = "if"
      BY <1>3 DEF a, b
    <2>3. n # 1 /\ 1 \in 1..n
      BY <1>1, <1>2, <2>2 DEF OpenFits
    <2>4. Len(ot) = Len(os)
      BY <1>2 DEF n
    <2>5. /\ os[1].is = "class"
          /\ \A k \in 1..n : k # 1 => os[k].is # "class"
          /\ \A k \in 1..n : os[k].is # "while"
          /\ \A k \in 1..n : os[k].is = "doc" => k = Len(os)
          /\ \A k \in 1..n : os[k].is = "bottle" =>
                d = "formula" /\ \A j \in 1..n : j # k /\ j # 1 => Conditional(os[j])
          /\ \A k \in 1..n : ~Conditional(os[k]) => os[k].live
      BY <1>1, <1>2 DEF OpenFits
    <2>6. \A k \in 1..n : k # n => ot[k].is = os[k].is
      BY <2>1
    <2>7. \A k \in 1..n : ot[k].is = "bottle" => k # n /\ os[k].is = "bottle"
      BY <2>2, <2>6
    <2>8. /\ ot[1].is = "class"
          /\ \A k \in 1..n : k # 1 => ot[k].is # "class"
          /\ \A k \in 1..n : ot[k].is # "while"
          /\ \A k \in 1..n : ot[k].is = "doc" => k = Len(ot)
      BY <2>2, <2>3, <2>4, <2>5, <2>6
    <2>9. \A k \in 1..n : ot[k].is = "bottle" =>
             d = "formula" /\ \A j \in 1..n : j # k /\ j # 1 => Conditional(ot[j])
      BY <2>1, <2>5, <2>7
    <2>10. \A k \in 1..n : ~Conditional(ot[k]) => ot[k].live
      BY <2>1, <2>5
    <2> QED BY <1>2, <2>8, <2>9, <2>10 DEF OpenFits
  <1>20. NoLine(u, {"bottle"}) => NoLine(t, {"bottle"})
    BY NoBottleGrows DEF u
  <1>21. \A k \in 1..n : SameLevel(os, ot, k) /\ Live(u, ot, k) = Live(t, os, k) /\ OneFits(d, u, ot, k)
    BY <1>2, <1>9, <1>16, <1>18
  <1>22. SameLives(d, t, u, os, ot)
    <2>1. Len(ot) = n /\ Len(os) = n
      BY <1>2 DEF n
    <2> QED BY <1>2, <1>5, <1>19, <1>20, <1>21, <2>1 DEF SameLives
  <1>23. Agrees(d, u, ot, mean)
    BY <1>7, <1>22, SameFits
  <1> QED BY <1>23 DEF u

\* A line of a here-document at the top of a cask.
ProseOn(d, os, l) == d = "cask" /\ Len(os) = 2 /\ os[2].is = "doc" /\ l.is = "prose"

\* A line of prose at the top of a cask leaves a text that fits.
LEMMA ProseKeeps ==
    ASSUME NEW d, NEW t \in Seq(Lines), NEW os \in Seq(Blocks), os # <<>>, NEW mean,
           Agrees(d, t, os, mean), NEW l \in Lines, ProseOn(d, os, l)
    PROVE  Agrees(d, Append(t, l), os, mean)
  <1> DEFINE u == Append(t, l)
             o == OpenerOf(t, os, 2)
             c == ContentOf(t, os, 2)
             x == <<l>>
  <1>2. os # <<>> /\ Len(os) = 2 /\ Len(os) \in Nat \ {0} /\ DOMAIN os = 1..2 /\ os[2].is = "doc"
    BY DEF ProseOn
  <1>1. PlacesFit(t, os) /\ OpenFits(d, os) /\ OneFits(d, t, os, 1) /\ OneFits(d, t, os, 2)
        /\ \A k \in 1..2 : OneFits(d, t, os, k)
    BY <1>2 DEF Agrees
  <1>3. /\ PlacesFit(u, os)
        /\ \A k \in 1..Len(os) : OpenerOf(u, os, k) = OpenerOf(t, os, k)
        /\ \A k \in 1..(Len(os) - 1) : ContentOf(u, os, k) = ContentOf(t, os, k)
        /\ ContentOf(u, os, Len(os)) = ContentOf(t, os, Len(os)) \o x
    <2> DEFINE n == Len(os)
    <2>1. n \in Nat \ {0} /\ n = Len(os) /\ \A k \in 1..n : os[k].at = os[k].at
      BY <1>2
    <2> HIDE DEF n
    <2> QED BY <1>1, <2>1, ContentGrows
  <1>4. /\ OpenerOf(u, os, 2) = o /\ ContentOf(u, os, 2) = c \o x
        /\ OpenerOf(u, os, 1) = OpenerOf(t, os, 1) /\ ContentOf(u, os, 1) = ContentOf(t, os, 1)
    BY <1>2, <1>3
  <1>5. c \in Seq(Lines) /\ u \in Seq(Lines)
    <2>1. u \in Seq(Lines)
      BY TextGrows
    <2>2. Len(os) \in Nat /\ 2 \in 1..Len(os)
      BY <1>2
    <2>3. ContentOf(t, os, 2) \in Seq(Lines)
      BY <1>1, <2>2, ContentIsText
    <2> QED BY <2>1, <2>3
  <1>6. DocFits(d, o, c)
    BY <1>1, <1>2 DEF OneFits
  <1> HIDE DEF u, o, c, x
  <1>7. DocFits(d, o, c \o x)
    BY <1>5, <1>6, ProseFits DEF x, ProseOn
  <1>8. OneFits(d, u, os, 2) /\ Live(u, os, 2) = <<>> /\ Live(t, os, 2) = <<>>
    BY <1>2, <1>4, <1>7 DEF OneFits, Live
  <1>9. 1 \in Nat /\ 1 <= Len(os) /\ os[1].is # "doc" /\ \A k \in 1..1 : k = 1
    BY <1>1, <1>2 DEF OpenFits
  <1>10. Untouched(t, u, os, os, 1)
    BY <1>4, <1>9 DEF Untouched
  <1>11. \A k \in 1..1 : SameLevel(os, os, k) /\ Live(u, os, k) = Live(t, os, k) /\ OneFits(d, u, os, k)
    <2>1. \A k \in 1..Len(os) : OneFits(d, t, os, k)
      BY <1>1, <1>2
    <2> DEFINE h == 1
    <2>2. h \in Nat /\ h <= Len(os) /\ Untouched(t, u, os, os, h)
      BY <1>9, <1>10
    <2> HIDE DEF h
    <2>3. \A k \in 1..h : SameLevel(os, os, k) /\ Live(u, os, k) = Live(t, os, k) /\ OneFits(d, u, os, k)
      BY <2>1, <2>2, LowerSame
    <2> QED BY <2>3 DEF h
  <1>12. \A k \in 1..2 : k = 2 \/ k \in 1..1
    OBVIOUS
  <1>13. SameLevel(os, os, 2)
    BY DEF SameLevel, Alike
  <1>14. \A k \in 1..2 : SameLevel(os, os, k) /\ Live(u, os, k) = Live(t, os, k) /\ OneFits(d, u, os, k)
    BY <1>8, <1>11, <1>12, <1>13
  <1>15. NoLine(u, {"bottle"}) => NoLine(t, {"bottle"})
    BY NoBottleGrows DEF u
  <1>16. SameLives(d, t, u, os, os)
    BY <1>1, <1>2, <1>3, <1>14, <1>15 DEF SameLives
  <1>17. Agrees(d, u, os, mean)
    BY <1>2, <1>5, <1>16, SameFits
  <1> QED BY <1>17 DEF u

\* A block that is opened.
OpensOn(d, t, os, nb, l) ==
    /\ nb.is \in {"block", "bottle", "on", "if", "doc"} /\ l.is = nb.is /\ nb.at = Len(t) + 1
    /\ nb.live = l.here /\ nb.taken = l.here /\ (nb.is \notin {"on", "if"} => l.here)
    /\ \A k \in 1..Len(os) : os[k].is # "doc"
    /\ nb.is = "bottle" => d = "formula" /\ NoLine(t, {"bottle"}) /\ \A j \in 2..Len(os) : Conditional(os[j])
    /\ InBottle(os, Len(os)) => Conditional(nb)

\* A block that is opened leaves a text that fits.
LEMMA OpenKeeps ==
    ASSUME NEW d, NEW t \in Seq(Lines), NEW os \in Seq(Blocks), os # <<>>, NEW mean, Agrees(d, t, os, mean),
           NEW l \in Lines, NEW nb \in Blocks, OpensOn(d, t, os, nb, l)
    PROVE  Agrees(d, Append(t, l), Append(os, nb), mean)
  <1> DEFINE n == Len(os)
             p == n + 1
             u == Append(t, l)
             ot == Append(os, nb)
             m == InBottle(ot, p)
  <1>1. PlacesFit(t, os) /\ OpenFits(d, os) /\ \A k \in 1..n : OneFits(d, t, os, k)
    BY DEF Agrees
  <1>2. /\ nb.is \in {"block", "bottle", "on", "if", "doc"} /\ l.is = nb.is /\ nb.at = Len(t) + 1
        /\ nb.live = l.here /\ nb.taken = l.here /\ (nb.is \notin {"on", "if"} => l.here)
        /\ \A k \in 1..n : os[k].is # "doc"
        /\ nb.is = "bottle" => d = "formula" /\ NoLine(t, {"bottle"}) /\ \A j \in 2..n : Conditional(os[j])
        /\ InBottle(os, n) => Conditional(nb)
    BY Zenon DEF OpensOn
  <1>3. /\ n \in Nat \ {0} /\ p \in Nat \ {0} /\ DOMAIN os = 1..n /\ DOMAIN ot = 1..p /\ Len(ot) = p
        /\ ot \in Seq(Blocks) /\ ot[p] = nb /\ \A k \in 1..n : ot[k] = os[k]
    OBVIOUS
  <1>4. /\ PlacesFit(u, ot)
        /\ \A k \in 1..n : OpenerOf(u, ot, k) = OpenerOf(t, os, k)
        /\ \A k \in 1..n : ContentOf(u, ot, k) = ContentOf(t, os, k)
        /\ OpenerOf(u, ot, p) = l /\ ContentOf(u, ot, p) = <<>>
    <2>1. ot[Len(os) + 1].at = Len(t) + 1
      BY <1>2, <1>3
    <2>2. Len(os) \in Nat \ {0} /\ Len(ot) = Len(os) + 1 /\ \A k \in 1..Len(os) : ot[k] = os[k]
      BY <1>3
    <2> HIDE DEF ot
    <2> QED BY <1>1, <2>1, <2>2, ContentOpens
  <1>5. u \in Seq(Lines) /\ m \in BOOLEAN
    BY TextGrows, InBottleIsBoolean
  <1>6. Len(os) = n
    OBVIOUS
  <1>7. p = n + 1
    OBVIOUS
  <1> HIDE DEF n, p, u, ot, m
  <1>8. \A k \in 1..n : SameLevel(os, ot, k) /\ Live(u, ot, k) = Live(t, os, k) /\ OneFits(d, u, ot, k)
    <2>1. Untouched(t, u, os, ot, n)
      BY <1>2, <1>3, <1>4 DEF Untouched
    <2>2. n \in Nat /\ n <= Len(os) /\ \A k \in 1..Len(os) : OneFits(d, t, os, k)
      BY <1>1, <1>3, <1>6
    <2> QED BY <1>1, <1>3, <2>1, <2>2, LowerSame
  <1>9. OneFits(d, u, ot, p) /\ Live(u, ot, p) = <<>>
    <2>1. CASE nb.is = "doc"
      <3>1. DocFits(d, l, <<>>)
        BY <1>2, <2>1, NewDocFits
      <3> QED BY <1>3, <1>4, <2>1, <3>1 DEF OneFits, Live
    <2>2. CASE nb.is # "doc"
      <3>1. StartedBy(nb, l)
        <4>1. nb.is \in {"class", "block", "bottle", "on", "if"}
          BY <1>2, <2>2
        <4> QED BY <1>2, <4>1, Zenon DEF StartedBy
      <3>2. LevelFits(d, l, <<>>, nb, m) /\ LiveOf(l, <<>>, nb, m) = <<>>
        BY <1>5, <3>1, NewLevelFits
      <3> QED BY <1>3, <1>4, <2>2, <3>2 DEF OneFits, Live, m
    <2> QED BY <2>1, <2>2
  <1>10. \A k \in 1..p : k = p \/ k \in 1..n
    BY <1>3, <1>7
  <1>11. \A k \in 1..p : OneFits(d, u, ot, k)
    BY <1>8, <1>9, <1>10
  <1>12. OpenFits(d, ot)
    <2>1. /\ os[1].is = "class"
          /\ \A k \in 1..n : k # 1 => os[k].is # "class"
          /\ \A k \in 1..n : os[k].is # "while"
          /\ \A k \in 1..n : os[k].is = "bottle" =>
                d = "formula" /\ \A j \in 1..n : j # k /\ j # 1 => Conditional(os[j])
          /\ \A k \in 1..n : ~Conditional(os[k]) => os[k].live
      BY <1>1, <1>3 DEF OpenFits
    <2>2. 1 \in 1..n /\ p # 1 /\ p \in 1..p /\ p \notin 1..n
      BY <1>3, <1>7
    <2>3. /\ ot[1].is = "class"
          /\ \A k \in 1..p : k # 1 => ot[k].is # "class"
          /\ \A k \in 1..p : ot[k].is # "while"
          /\ \A k \in 1..p : ot[k].is = "doc" => k = Len(ot)
      <3>1. nb.is # "class" /\ nb.is # "while"
        BY <1>2
      <3>2. ot[1].is = "class"
        BY <1>3, <2>1, <2>2
      <3>3. ASSUME NEW k \in 1..p
            PROVE  (k # 1 => ot[k].is # "class") /\ ot[k].is # "while" /\ (ot[k].is = "doc" => k = Len(ot))
        <4>1. CASE k = p
          BY <1>3, <3>1, <4>1
        <4>2. CASE k \in 1..n
          BY <1>2, <1>3, <2>1, <4>2
        <4> QED BY <1>10, <3>3, <4>1, <4>2
      <3> QED BY <3>2, <3>3
    <2>4. \A k \in 1..p : ~Conditional(ot[k]) => ot[k].live
      <3>1. ~Conditional(nb) => nb.live
        BY <1>2 DEF Conditional
      <3> QED BY <1>3, <1>10, <2>1, <3>1, Zenon
    <2>5. ASSUME NEW k \in 1..p, ot[k].is = "bottle"
          PROVE  d = "formula" /\ \A j \in 1..p : j # k /\ j # 1 => Conditional(ot[j])
      <3>1. CASE k = p
        <4>1. d = "formula" /\ \A j \in 2..n : Conditional(os[j])
          BY <1>2, <1>3, <2>5, <3>1
        <4>2. \A j \in 1..n : j # 1 => j \in 2..n
          BY <1>3
        <4> QED BY <1>3, <1>10, <3>1, <4>1, <4>2, Zenon
      <3>2. CASE k \in 1..n
        <4>1. os[k].is = "bottle"
          BY <1>3, <2>5, <3>2
        <4>2. InBottle(os, n)
          BY <3>2, <4>1 DEF InBottle
        <4>3. Conditional(nb)
          BY <1>2, <4>2
        <4> QED BY <1>3, <1>10, <2>1, <3>2, <4>1, <4>3, Zenon
      <3> QED BY <1>10, <2>5, <3>1, <3>2
    <2> QED BY <1>3, <2>3, <2>4, <2>5 DEF OpenFits
  <1>13. NoLine(u, {"bottle"}) => NoLine(t, {"bottle"})
    BY NoBottleGrows DEF u
  <1>14. ot[p].is = "bottle" => NoLine(t, {"bottle"})
    BY <1>2, <1>3
  <1>15. SameLives(d, t, u, os, ot)
    BY <1>3, <1>4, <1>6, <1>7, <1>8, <1>9, <1>11, <1>12, <1>13, <1>14 DEF SameLives
  <1>16. Agrees(d, u, ot, mean)
    BY <1>3, <1>5, <1>15, SameFits
  <1> QED BY <1>16 DEF u, ot

-----------------------------------------------------------------------------
(* Steps that close a block.                                               *)

\* What the lines p that a closed block leaves are, by what was left of its own lines v.
Leaves(d, b, v, p) ==
    /\ \A kind \in Stanzas :
          /\ All(p, kind) = IF b.is = "doc" THEN {} ELSE All(v, kind)
          /\ Nums(d, p, kind) = IF b.is = "doc" THEN {}
                                ELSE IF Conditional(b) THEN Nums(d, v, kind)
                                ELSE IF Wide(d, kind) THEN All(v, kind) ELSE {}
    /\ b.is = "bottle" => Apart(p)
    /\ b.is # "bottle" /\ Apart(v) => Apart(p) /\ (Clean(v) => Clean(p))

\* What a block leaves when it is closed is what was left of its lines, or a block of them.
LEMMA ClosedLeaves ==
    ASSUME NEW d, NEW o \in Lines, NEW e \in Lines, NEW b, NEW v \in Seq(Lines),
           OpenerFits(o, b), b.is \in {"block", "bottle", "on", "if", "else"}, e.is = "end",
           LiveFits(d, v), b.is = "bottle" => d = "formula"
    PROVE  Leaves(d, b, v, Closed(o, v, e, b)) /\ Closed(o, v, e, b) \in Seq(Lines)
  <1> DEFINE p == Closed(o, v, e, b)
  <1>1. IsOpener(o) /\ o.is \notin {"prose", "doc"} /\ IsEnd(e) /\ (o.is = b.is \/ (b.is = "else" /\ o.is = "if"))
    BY OpenerKinds DEF IsEnd
  <1>2. Bal(Plain(v)) /\ (d = "formula" => NoLine(v, {"prose"}))
    BY DEF LiveFits
  <1>3. ASSUME NEW kind \in Stanzas
        PROVE  /\ All(p, kind) = IF b.is = "doc" THEN {} ELSE All(v, kind)
               /\ Nums(d, p, kind) = IF b.is = "doc" THEN {}
                                     ELSE IF Conditional(b) THEN Nums(d, v, kind)
                                     ELSE IF Wide(d, kind) THEN All(v, kind) ELSE {}
    <2>1. b.is # "doc"
      OBVIOUS
    <2>2. /\ All(Closed(o, v, e, b), kind) = All(v, kind)
          /\ Nums(d, Closed(o, v, e, b), kind) =
                 IF Conditional(b) THEN Nums(d, v, kind) ELSE IF Wide(d, kind) THEN All(v, kind) ELSE {}
      BY <1>2, ClosedNums
    <2> QED BY <2>1, <2>2, Zenon
  <1>4. Block(o, v, e) \in Seq(Lines)
    BY <1>1, BlockParts
  <1>5. CASE b.is = "bottle"
    <2>1. Plain(v) = v
      BY <1>2, <1>5, PlainOfPlain
    <2>2. p = Block(o, v, e) /\ o.is = "bottle"
      BY <1>1, <1>5 DEF Closed
    <2>3. Apart(p)
      BY <1>2, <2>1, <2>2, ApartOfBlock
    <2> QED BY <1>3, <1>4, <1>5, <2>2, <2>3 DEF Leaves
  <1>6. CASE b.is = "block"
    <2>1. p = Block(o, v, e) /\ o.is = "block"
      BY <1>1, <1>6 DEF Closed
    <2>2. o.is \notin {"bottle", "digest"} /\ e.is \notin {"bottle", "digest"}
      BY <2>1
    <2>3. Apart(v) => Apart(p)
      BY <2>1, <2>2, ApartOfBlock
    <2>4. Clean(v) => Clean(p)
      BY <2>1, <2>2, CleanOf
    <2> QED BY <1>3, <1>4, <1>6, <2>1, <2>3, <2>4 DEF Leaves
  <1>7. CASE b.is \in {"on", "if", "else"}
    <2>1. p = v
      BY <1>7 DEF Closed
    <2> HIDE DEF p
    <2>2. p \in Seq(Lines) /\ b.is # "bottle"
      BY <1>7, <2>1
    <2>3. Leaves(d, b, v, p)
      BY <1>3, <2>1, <2>2, Zenon DEF Leaves
    <2> QED BY <2>2, <2>3 DEF p
  <1> QED BY <1>5, <1>6, <1>7

\* A here-document leaves its lines, none of which counts.
LEMMA DocLeaves ==
    ASSUME NEW d, NEW b, NEW v, NEW p \in Seq(Lines), NoLine(p, Stanzas \cup {"bottle"}), b.is = "doc"
    PROVE  Leaves(d, b, v, p)
  <1>1. \A i \in DOMAIN p : p[i].is \notin Stanzas /\ p[i].is # "bottle"
    BY DEF NoLine
  <1>2. \A kind \in Stanzas : All(p, kind) = {}
    BY <1>1 DEF All, NumberedAs
  <1>3. \A kind \in Stanzas : Nums(d, p, kind) = {}
    BY <1>2, NumsOfNone
  <1>4. Clean(p)
    BY <1>1 DEF Clean, NoLine, Stanzas
  <1>5. Apart(p)
    BY <1>4 DEF Apart
  <1> QED BY <1>2, <1>3, <1>4, <1>5, Zenon DEF Leaves

\* The lines p of the innermost block go to the block around it, or nowhere.
PassesOn(d, n, os, ot, v, w, p) ==
    /\ n \in Nat /\ n >= 2 /\ DOMAIN os = 1..n /\ DOMAIN ot = 1..(n - 1) /\ Len(os) = n
    /\ \A k \in 1..(n - 1) : ot[k] = os[k]
    /\ \A k \in 1..n : v[k] \in Seq(Lines) /\ Bal(Plain(v[k]))
    /\ \A k \in 1..(n - 2) : w[k] = v[k]
    /\ Goes(os[n - 1], InBottle(os, n - 1)) => w[n - 1] = v[n - 1] \o p
    /\ ~Goes(os[n - 1], InBottle(os, n - 1)) => w[n - 1] = v[n - 1]
    /\ os[n].is \in {"block", "bottle", "on", "if", "else", "doc"}
    /\ p \in Seq(Lines) /\ Leaves(d, os[n], v[n], p)

\* What counted in the block that is closed counts in the block around it.
LEMMA NumsPassOn ==
    ASSUME NEW d, NEW n, NEW os, NEW ot, NEW v, NEW w, NEW mean, NEW p,
           PassesOn(d, n, os, ot, v, w, p), OpenFits(d, os), NumsFit(d, os, v, mean)
    PROVE  NumsFit(d, ot, w, mean)
  <1>1. n \in Nat /\ n >= 2 /\ DOMAIN os = 1..n /\ DOMAIN ot = 1..(n - 1) /\ Len(os) = n /\ p \in Seq(Lines)
    BY DEF PassesOn
  <1>2. \A k \in 1..(n - 1) : ot[k] = os[k]
    BY DEF PassesOn
  <1>3. \A k \in 1..n : v[k] \in Seq(Lines) /\ Bal(Plain(v[k]))
    BY DEF PassesOn
  <1>4. \A k \in 1..(n - 2) : w[k] = v[k]
    BY DEF PassesOn
  <1>5. w[n - 1] = IF Goes(os[n - 1], InBottle(os, n - 1)) THEN v[n - 1] \o p ELSE v[n - 1]
    BY Zenon DEF PassesOn
  <1>6. os[n].is \in {"block", "bottle", "on", "if", "else", "doc"}
    BY DEF PassesOn
  <1>7. \A kind \in Stanzas :
              /\ All(p, kind) = IF os[n].is = "doc" THEN {} ELSE All(v[n], kind)
              /\ Nums(d, p, kind) = IF os[n].is = "doc" THEN {}
                                    ELSE IF Conditional(os[n]) THEN Nums(d, v[n], kind)
                                    ELSE IF Wide(d, kind) THEN All(v[n], kind) ELSE {}
    BY Zenon DEF PassesOn, Leaves
  <1> QED BY <1>1, <1>2, <1>3, <1>4, <1>5, <1>6, <1>7, NumsOfClosed

\* The bottle block stands alone in the block around it.
LEMMA BottlePassesOn ==
    ASSUME NEW d, NEW n, NEW os, NEW ot, NEW v, NEW w, NEW none, NEW none2, NEW p,
           PassesOn(d, n, os, ot, v, w, p), OpenFits(d, os),
           BottleFits(os, v, none), none2 => none, InBottle(os, n) => ~none2
    PROVE  BottleFits(ot, w, none2)
  <1>1. n \in Nat /\ n >= 2 /\ DOMAIN os = 1..n /\ DOMAIN ot = 1..(n - 1) /\ Len(os) = n /\ p \in Seq(Lines)
    BY DEF PassesOn
  <1>2. \A k \in 1..(n - 1) : ot[k] = os[k]
    BY DEF PassesOn
  <1>3. \A k \in 1..n : v[k] \in Seq(Lines)
    BY DEF PassesOn
  <1>4. \A k \in 1..(n - 2) : w[k] = v[k]
    BY DEF PassesOn
  <1>5. w[n - 1] \in {v[n - 1], v[n - 1] \o p}
    BY Zenon DEF PassesOn
  <1>6. /\ os[n].is = "bottle" => Apart(p)
        /\ os[n].is # "bottle" /\ Apart(v[n]) => Apart(p) /\ (Clean(v[n]) => Clean(p))
    BY Zenon DEF PassesOn, Leaves
  <1>7. n \in 1..n
    BY <1>1
  <1>8. os[n].is = "bottle" => \A j \in 1..(n - 1) : ~InBottle(os, j)
    <2> SUFFICES ASSUME os[n].is = "bottle", NEW j \in 1..(n - 1), NEW i \in 1..j, os[i].is = "bottle"
                 PROVE  FALSE
      BY DEF InBottle
    <2>1. i \in 1..n /\ i # n /\ 1 \in 1..n
      BY <1>1
    <2>2. os[1].is = "class" /\ \A k \in 1..n : k # n /\ k # 1 => Conditional(os[k])
      BY <1>1, <1>7 DEF OpenFits
    <2> QED BY <2>1, <2>2 DEF Conditional
  <1>9. ~InBottle(os, n) => os[n].is # "bottle"
    BY <1>1, <1>7 DEF InBottle
  <1>10. ~InBottle(os, n) => Apart(v[n])
    BY <1>1, <1>7 DEF BottleFits
  <1>11. ~InBottle(os, n) => Apart(p) /\ (Clean(v[n]) => Clean(p))
    BY <1>6, <1>9, <1>10
  <1>12. os[n].is = "bottle" => Apart(p) /\ \A j \in 1..(n - 1) : ~InBottle(os, j)
    BY <1>6, <1>8
  <1> QED BY <1>1, <1>2, <1>3, <1>4, <1>5, <1>11, <1>12, BottleOfClosed

\* A block that is closed, by the lines p0 it is, as the block around it is read.
ClosedParts(t, os, n, e, p0, p) ==
    /\ p0 = Block(OpenerOf(t, os, n), ContentOf(t, os, n), e)
    /\ p = Pass("arch", Pass(Platform(InBottle(os, n - 1)), p0))

LeavesOn(d, t, os, n, p0, p) ==
    /\ p0 \in Seq(Lines) /\ p \in Seq(Lines)
    /\ os[n].is \in {"block", "bottle", "on", "if", "else", "doc"}
    /\ \/ PieceFits(d, p0, InBottle(os, n - 1), TRUE)
       \/ os[n - 1].is = "class" /\ PieceFits(d, p0, InBottle(os, n - 1), FALSE)
    /\ Leaves(d, os[n], Live(t, os, n), p)

\* The lines of a block that is closed are a piece of the block around it.
LEMMA BlockLeaves ==
    ASSUME NEW d \in {"formula", "cask"}, NEW t \in Seq(Lines), NEW os \in Seq(Blocks), NEW n \in Nat,
           n >= 2, n = Len(os), PlacesFit(t, os), OpenFits(d, os), \A k \in 1..n : OneFits(d, t, os, k),
           NEW e \in Lines, e.is = (IF os[n].is = "doc" THEN "eos" ELSE "end"),
           NEW p0, NEW p, ClosedParts(t, os, n, e, p0, p)
    PROVE  LeavesOn(d, t, os, n, p0, p)
  <1> USE DEF LeavesOn
  <1> DEFINE o == OpenerOf(t, os, n)
             c == ContentOf(t, os, n)
             b == os[n]
             q == InBottle(os, n)
             m == InBottle(os, n - 1)
  <1>1. n \in 1..n /\ n # 1 /\ n - 1 \in 1..n /\ DOMAIN os = 1..n /\ Len(os) \in Nat /\ n \in 1..Len(os) /\ 1 \in 1..n
    OBVIOUS
  <1>2. c \in Seq(Lines) /\ o \in Lines
    BY <1>1, ContentIsText
  <1>3. m \in BOOLEAN /\ q \in BOOLEAN
    BY InBottleIsBoolean
  <1>4. b.is \in {"block", "bottle", "on", "if", "else", "doc"}
    <2>1. b \in Blocks
      BY <1>1
    <2>2. b.is \in Openers \cup {"doc", "else"}
      BY <2>1 DEF Blocks
    <2>3. b.is # "class" /\ b.is # "while"
      BY <1>1 DEF OpenFits
    <2> QED BY <2>2, <2>3 DEF Openers
  <1>5. OneFits(d, t, os, n)
    BY <1>1
  <1>6. p0 \in Seq(Lines) /\ p \in Seq(Lines)
    <2>1. p0 \in Seq(Lines)
      BY <1>2, BlockParts DEF ClosedParts
    <2>2. p = Pass("arch", Pass(Platform(m), p0))
      BY DEF ClosedParts
    <2> HIDE DEF m
    <2> QED BY <1>3, <2>1, <2>2, PlatformIsMode, PassIsText
  <1>7. p0 = Block(o, c, e) /\ e.is = (IF b.is = "doc" THEN "eos" ELSE "end")
        /\ p = Pass("arch", Pass(Platform(m), p0))
    BY DEF ClosedParts
  <1>8. b.is = "bottle" => d = "formula"
    BY <1>1 DEF OpenFits
  <1>9. b.is = "bottle" => ~m
    <2> SUFFICES ASSUME b.is = "bottle", NEW i \in 1..(n - 1), os[i].is = "bottle" PROVE FALSE
      BY DEF InBottle, m
    <2>1. i \in 1..n /\ i # n
      BY <1>1
    <2>2. os[1].is = "class" /\ \A k \in 1..n : k # n /\ k # 1 => Conditional(os[k])
      BY <1>1 DEF OpenFits
    <2> QED BY <2>1, <2>2 DEF Conditional
  <1>10. q <=> (m \/ b.is = "bottle")
    <2>1. \A i \in 1..n : i = n \/ i \in 1..(n - 1)
      BY <1>1
    <2>2. \A i \in 1..(n - 1) : i \in 1..n
      BY <1>1
    <2> QED BY <1>1, <2>1, <2>2 DEF InBottle, m
  <1>11. b.is = "doc" => /\ DocFits(d, o, c) /\ (c # <<>> => n = 2) /\ Live(t, os, n) = <<>>
    BY <1>5 DEF OneFits, Live
  <1>12. b.is # "doc" => LevelFits(d, o, c, b, q) /\ Live(t, os, n) = LiveOf(o, c, b, q)
    BY <1>5 DEF OneFits, Live
  <1>13. os[1].is = "class"
    BY <1>1 DEF OpenFits
  <1>14. os[n] = b
    OBVIOUS
  <1> HIDE DEF o, c, b, q, m
  <1>15. CASE b.is = "doc"
    <2>1. e.is = "eos"
      BY <1>7, <1>15
    <2> DEFINE whole == n # 2
    <2>2. whole \in BOOLEAN /\ (c # <<>> => ~whole)
      BY <1>11, <1>15
    <2>3. whole = TRUE \/ (whole = FALSE /\ n = 2)
      OBVIOUS
    <2> HIDE DEF whole
    <2>4. /\ ReadAs(d, Block(o, c, e), m, whole, Block(o, c, e))
          /\ NoLine(Block(o, c, e), Stanzas \cup {"bottle"})
      BY <1>2, <1>3, <1>11, <1>15, <2>1, <2>2, DocBlockFits
    <2>5. PieceFits(d, p0, m, TRUE) \/ (os[n - 1].is = "class" /\ PieceFits(d, p0, m, FALSE))
      <3>1. PieceFits(d, p0, m, whole)
        BY <1>7, <2>4, Zenon DEF ReadAs
      <3>2. n = 2 => os[n - 1].is = "class"
        BY <1>13
      <3> QED BY <2>3, <3>1, <3>2, Zenon
    <2>6. p = p0 /\ NoLine(p, Stanzas \cup {"bottle"})
      BY <1>7, <2>4, Zenon DEF ReadAs
    <2>7. Leaves(d, b, Live(t, os, n), p)
      BY <1>6, <1>15, <2>6, DocLeaves
    <2> QED BY <1>4, <1>6, <1>14, <2>5, <2>7 DEF m
  <1>16. CASE b.is # "doc"
    <2>1. e.is = "end" /\ b.is \in {"block", "bottle", "on", "if", "else"}
      BY <1>4, <1>7, <1>16
    <2>2. LevelFits(d, o, c, b, q) /\ Live(t, os, n) = LiveOf(o, c, b, q)
      BY <1>12, <1>16
    <2>3. /\ PieceFits(d, Block(o, c, e), m, TRUE)
          /\ Pass("arch", Pass(Platform(m), Block(o, c, e))) = Closed(o, LiveOf(o, c, b, q), e, b)
      <3>1. ClosesIn(b, e, m, q)
        BY <1>9, <1>10, <2>1, Zenon DEF ClosesIn
      <3>2. ReadAs(d, Block(o, c, e), m, TRUE, Closed(o, LiveOf(o, c, b, q), e, b))
        BY <1>2, <1>3, <2>2, <3>1, ClosedFits
      <3> QED BY <3>2, Zenon DEF ReadAs
    <2>4. OpenerFits(o, b) /\ LiveFits(d, LiveOf(o, c, b, q))
      BY <2>2 DEF LevelFits
    <2> DEFINE v == LiveOf(o, c, b, q)
    <2>5. v \in Seq(Lines)
      BY <1>2, <1>3, KeptOfIsText
    <2>6. LiveFits(d, v)
      BY <2>4
    <2> HIDE DEF v
    <2>7. Leaves(d, b, v, Closed(o, v, e, b))
      BY <1>2, <1>8, <2>1, <2>4, <2>5, <2>6, ClosedLeaves
    <2>8. p = Closed(o, v, e, b)
      BY <1>7, <2>3 DEF v
    <2>9. Leaves(d, b, Live(t, os, n), p)
      BY <2>2, <2>7, <2>8 DEF v
    <2> QED BY <1>4, <1>6, <1>7, <1>14, <2>3, <2>9 DEF m
  <1> QED BY <1>15, <1>16

\* The innermost of two blocks or more is closed.
Closes(os, ot, e) ==
    /\ Len(os) >= 2 /\ Len(ot) = Len(os) - 1 /\ \A k \in 1..(Len(os) - 1) : ot[k] = os[k]
    /\ e.is = (IF os[Len(os)].is = "doc" THEN "eos" ELSE "end")

\* A block that is closed leaves a text that fits.
LEMMA CloseKeeps ==
    ASSUME NEW d \in {"formula", "cask"}, NEW t \in Seq(Lines), NEW os \in Seq(Blocks), os # <<>>, NEW mean,
           Agrees(d, t, os, mean), NEW e \in Lines, NEW ot \in Seq(Blocks), Closes(os, ot, e)
    PROVE  Agrees(d, Append(t, e), ot, mean)
  <1> DEFINE n == Len(os)
             h == n - 1
             g == n - 2
             u == Append(t, e)
             v == Lives(t, os)
             w == Lives(u, ot)
             b == os[n]
             a == os[h]
             O == OpenerOf(t, os, h)
             C == ContentOf(t, os, h)
             m == InBottle(os, h)
             p0 == Block(OpenerOf(t, os, n), ContentOf(t, os, n), e)
             p == Pass("arch", Pass(Platform(m), p0))
             none == NoLine(t, {"bottle"})
             none2 == NoLine(u, {"bottle"})
  <1>1. /\ PlacesFit(t, os) /\ OpenFits(d, os) /\ \A k \in 1..n : OneFits(d, t, os, k)
        /\ NumsFit(d, os, v, mean) /\ BottleFits(os, v, none)
    BY DEF Agrees
  <1>2. /\ n >= 2 /\ Len(ot) = h /\ \A k \in 1..h : ot[k] = os[k]
        /\ e.is = (IF b.is = "doc" THEN "eos" ELSE "end")
    BY DEF Closes
  <1>3. n \in Nat /\ DOMAIN os = 1..n /\ DOMAIN ot = 1..Len(ot)
    OBVIOUS
  <1>4. /\ PlacesFit(u, ot)
        /\ \A k \in 1..h : OpenerOf(u, ot, k) = OpenerOf(t, os, k)
        /\ \A k \in 1..g : ContentOf(u, ot, k) = ContentOf(t, os, k)
        /\ ContentOf(u, ot, h) = C \o p0
    <2>1. Len(os) \in Nat /\ Len(os) >= 2 /\ Len(ot) = Len(os) - 1 /\ \A k \in 1..(Len(os) - 1) : ot[k] = os[k]
      BY <1>2, <1>3
    <2> QED BY <1>1, <2>1, ContentCloses
  <1>5. u \in Seq(Lines) /\ m \in BOOLEAN
    BY TextGrows, InBottleIsBoolean
  <1>6. h = n - 1 /\ g = n - 2 /\ n = Len(os)
    OBVIOUS
  <1>7. \A k \in 1..n : v[k] = Live(t, os, k) /\ v[k] \in Seq(Lines) /\ Bal(Plain(v[k]))
    BY <1>1, LivesFit
  <1>8. \A k \in 1..Len(ot) : w[k] = Live(u, ot, k)
    BY DEF Lives
  <1>9. ClosedParts(t, os, n, e, p0, p)
    BY DEF ClosedParts
  <1> HIDE DEF n, h, g, u, v, w, O, C, m, p0, p, none, none2
  <1>10. /\ h \in Nat \ {0} /\ g \in Nat /\ h \in 1..n /\ n \in 1..n /\ h \in 1..h /\ h # n
         /\ h <= n /\ g <= n /\ g = h - 1 /\ 1 \in 1..h
         /\ \A k \in 1..h : k \in 1..n /\ k # n /\ k \in Nat \ {0} /\ (k = h \/ k \in 1..g)
         /\ \A k \in 1..g : k \in 1..n /\ k \in 1..h /\ k # n
    BY <1>2, <1>3, <1>6
  <1>11. /\ p0 \in Seq(Lines) /\ p \in Seq(Lines)
         /\ b.is \in {"block", "bottle", "on", "if", "else", "doc"}
         /\ \/ PieceFits(d, p0, m, TRUE)
            \/ a.is = "class" /\ PieceFits(d, p0, m, FALSE)
         /\ Leaves(d, b, Live(t, os, n), p)
    <2>1. e.is = (IF os[n].is = "doc" THEN "eos" ELSE "end")
      BY <1>2
    <2>2. LeavesOn(d, t, os, n, p0, p)
      BY <1>1, <1>2, <1>3, <1>6, <1>9, <2>1, BlockLeaves
    <2> QED BY <1>6, <2>2, Zenon DEF m, LeavesOn
  <1>12. \A k \in 1..h : os[k].is # "doc"
    BY <1>1, <1>3, <1>6, <1>10 DEF OpenFits
  <1>13. C \in Seq(Lines)
    <2>1. Len(os) \in Nat /\ h \in 1..Len(os)
      BY <1>3, <1>6, <1>10
    <2> QED BY <1>1, <2>1, ContentIsText DEF C
  <1>14. LevelFits(d, O, C, a, m) /\ v[h] = LiveOf(O, C, a, m)
    <2>1. OneFits(d, t, os, h) /\ os[h].is # "doc" /\ v[h] = Live(t, os, h)
      BY <1>1, <1>7, <1>10, <1>12
    <2> QED BY <2>1, Zenon DEF OneFits, Live, O, C, m
  <1>15. Appended(d, O, C, a, m, p0)
    BY <1>5, <1>11, <1>13, <1>14, AppendPiece, Zenon
  <1>16. SameLevel(os, ot, h)
    <2>1. \A j \in 1..(h - 1) : j \in 1..h
      BY <1>10
    <2> QED BY <1>2, <1>10, <2>1 DEF SameLevel, Alike
  <1>17. m = InBottle(ot, h)
    <2>1. m <=> InBottle(ot, h)
      BY <1>10, <1>16, SameCounts DEF m
    <2> QED BY <1>5, <2>1, InBottleIsBoolean
  <1>18. ot[h] = a /\ a.is # "doc" /\ OpenerOf(u, ot, h) = O
    BY <1>2, <1>4, <1>10, <1>12 DEF O
  <1>19. OneFits(d, u, ot, h) /\ Live(u, ot, h) = LiveOf(O, C \o p0, a, m)
    <2>1. LevelFits(d, O, C \o p0, a, m)
      BY <1>15 DEF Appended
    <2>2. OneFits(d, u, ot, h) <=> LevelFits(d, O, C \o p0, a, m)
      BY <1>4, <1>17, <1>18, Zenon DEF OneFits
    <2>3. Live(u, ot, h) = LiveOf(O, C \o p0, a, m)
      BY <1>4, <1>17, <1>18, Zenon DEF Live
    <2> QED BY <2>1, <2>2, <2>3
  <1>20. /\ Goes(a, m) => w[h] = v[h] \o p
         /\ ~Goes(a, m) => w[h] = v[h]
    <2>1. w[h] = LiveOf(O, C \o p0, a, m)
      BY <1>2, <1>8, <1>10, <1>19
    <2>2. Goes(a, m) => LiveOf(O, C \o p0, a, m) = LiveOf(O, C, a, m) \o p
      BY <1>15, Zenon DEF Appended, p
    <2>3. ~Goes(a, m) => LiveOf(O, C \o p0, a, m) = LiveOf(O, C, a, m)
      BY <1>15, Zenon DEF Appended
    <2> QED BY <1>14, <2>1, <2>2, <2>3, Zenon
  <1>21. \A k \in 1..g : SameLevel(os, ot, k) /\ Live(u, ot, k) = Live(t, os, k) /\ OneFits(d, u, ot, k)
    <2>1. Untouched(t, u, os, ot, g)
      BY <1>2, <1>4, <1>10, <1>12 DEF Untouched
    <2>2. g <= Len(os) /\ \A k \in 1..Len(os) : OneFits(d, t, os, k)
      BY <1>1, <1>6, <1>10
    <2> QED BY <1>10, <2>1, <2>2, LowerSame
  <1>22. \A k \in 1..g : w[k] = v[k]
    <2> SUFFICES ASSUME NEW k \in 1..g PROVE w[k] = v[k]
      OBVIOUS
    <2>1. k \in 1..n /\ k \in 1..h
      BY <1>10
    <2>2. w[k] = Live(u, ot, k) /\ v[k] = Live(t, os, k)
      BY <1>2, <1>7, <1>8, <2>1
    <2> QED BY <1>21, <2>2
  <1>23. \A k \in 1..Len(ot) : OneFits(d, u, ot, k)
    BY <1>2, <1>10, <1>19, <1>21
  <1>24. PassesOn(d, n, os, ot, v, w, p)
    <2>1. Leaves(d, os[n], v[n], p) /\ os[n].is \in {"block", "bottle", "on", "if", "else", "doc"} /\ p \in Seq(Lines)
      BY <1>7, <1>10, <1>11
    <2>2. /\ Goes(os[n - 1], InBottle(os, n - 1)) => w[n - 1] = v[n - 1] \o p
          /\ ~Goes(os[n - 1], InBottle(os, n - 1)) => w[n - 1] = v[n - 1]
      BY <1>6, <1>20, Zenon DEF m
    <2>3. \A k \in 1..(n - 1) : ot[k] = os[k]
      BY <1>2, <1>6
    <2>4. \A k \in 1..(n - 2) : w[k] = v[k]
      BY <1>6, <1>22
    <2>5. n \in Nat /\ n >= 2 /\ DOMAIN os = 1..n /\ DOMAIN ot = 1..(n - 1) /\ Len(os) = n
      BY <1>2, <1>3, <1>6
    <2>6. \A k \in 1..n : v[k] \in Seq(Lines) /\ Bal(Plain(v[k]))
      BY <1>7
    <2> QED BY <2>1, <2>2, <2>3, <2>4, <2>5, <2>6, Zenon DEF PassesOn
  <1>25. OpenFits(d, ot)
    <2>1. DOMAIN ot = 1..h
      BY <1>2, <1>3
    <2>2. /\ os[1].is = "class"
          /\ \A k \in 1..n : k # 1 => os[k].is # "class"
          /\ \A k \in 1..n : os[k].is # "while"
          /\ \A k \in 1..n : os[k].is = "bottle" =>
                d = "formula" /\ \A j \in 1..n : j # k /\ j # 1 => Conditional(os[j])
          /\ \A k \in 1..n : ~Conditional(os[k]) => os[k].live
      BY <1>1, <1>3 DEF OpenFits
    <2>3. /\ ot[1].is = "class"
          /\ \A k \in 1..h : k # 1 => ot[k].is # "class"
          /\ \A k \in 1..h : ot[k].is # "while"
          /\ \A k \in 1..h : ot[k].is = "doc" => k = Len(ot)
      BY <1>2, <1>10, <1>12, <2>2
    <2>4. \A k \in 1..h : ot[k].is = "bottle" =>
             d = "formula" /\ \A j \in 1..h : j # k /\ j # 1 => Conditional(ot[j])
      BY <1>2, <1>10, <2>2
    <2>5. \A k \in 1..h : ~Conditional(ot[k]) => ot[k].live
      BY <1>2, <1>10, <2>2
    <2> QED BY <2>1, <2>3, <2>4, <2>5 DEF OpenFits
  <1>26. NumsFit(d, ot, w, mean)
    BY <1>1, <1>24, NumsPassOn
  <1>27. none2 => none
    BY NoBottleGrows DEF none, none2, u
  <1>28. InBottle(os, n) => ~none2
    <2>1. InBottle(os, n) => ~none
      <3>1. n \in 1..Len(os) /\ \A k \in 1..Len(os) : OneFits(d, t, os, k)
        BY <1>1, <1>6, <1>10
      <3> QED BY <1>1, <3>1, BottleIsWritten DEF none
    <2> QED BY <1>27, <2>1
  <1>29. BottleFits(ot, w, none2)
    BY <1>1, <1>24, <1>27, <1>28, BottlePassesOn
  <1> QED BY <1>4, <1>23, <1>25, <1>26, <1>29 DEF Agrees, w, none2, u

-----------------------------------------------------------------------------
(* The first line of a text and its last one.                              *)

\* The first of at most one number.
LEMMA FirstOfFound ==
    \A x \in Nat : FirstOf({x} \ {0}, 0) = x
  <1> SUFFICES ASSUME NEW x \in Nat PROVE FirstOf({x} \ {0}, 0) = x
    OBVIOUS
  <1> DEFINE S == {x} \ {0}
  <1>1. FirstOf(S, 0) \in S \cup {0} /\ (S = {} => FirstOf(S, 0) = 0)
    <2>1. S \subseteq Nat
      OBVIOUS
    <2> HIDE DEF S
    <2>2. FirstOf(S, 0) \in S \cup {0}
      BY <2>1, FirstIsOneOf
    <2> QED BY <2>2 DEF FirstOf
  <1>2. S # {} => FirstOf(S, 0) \in S
    <2>1. S # {} => \E i \in S : \A j \in S : i <= j
      OBVIOUS
    <2> HIDE DEF S
    <2>2. S # {} => Min(S) \in S
      BY <2>1, Zenon DEF Min
    <2> QED BY <2>2 DEF FirstOf
  <1>3. CASE x = 0
    BY <1>1, <1>3
  <1>4. CASE x # 0
    BY <1>2, <1>4
  <1> QED BY <1>3, <1>4

\* The facts of a text are what is found in it.
LEMMA FactsFound ==
    ASSUME NEW d, NEW v, NEW mean \in Facts, \A kind \in Stanzas : Found(mean, kind) = Nums(d, v, kind)
    PROVE  Collected(d, v) = mean
  <1>1. /\ mean = [dependencies |-> mean.dependencies, url |-> mean.url,
                   version |-> mean.version, bottle |-> mean.bottle]
        /\ mean.url \in Nat /\ mean.version \in Nat
    BY DEF Facts
  <1>2. /\ "dependency" \in Stanzas /\ "digest" \in Stanzas /\ "url" \in Stanzas /\ "version" \in Stanzas
    BY DEF Stanzas
  <1>3. /\ Found(mean, "dependency") = mean.dependencies /\ Found(mean, "digest") = mean.bottle
        /\ Found(mean, "url") = {mean.url} \ {0} /\ Found(mean, "version") = {mean.version} \ {0}
    BY DEF Found
  <1>4. /\ Nums(d, v, "dependency") = mean.dependencies /\ Nums(d, v, "digest") = mean.bottle
        /\ Nums(d, v, "url") = {mean.url} \ {0} /\ Nums(d, v, "version") = {mean.version} \ {0}
    BY <1>2, <1>3
  <1>5. FirstOf({mean.url} \ {0}, 0) = mean.url /\ FirstOf({mean.version} \ {0}, 0) = mean.version
    BY <1>1, FirstOfFound
  <1> QED BY <1>1, <1>4, <1>5, Zenon DEF Collected

\* The class is closed: the parser reads what Ruby has collected.
LEMMA ClassCloses ==
    ASSUME NEW d \in {"formula", "cask"}, NEW t \in Seq(Lines), NEW os \in Seq(Blocks), os # <<>>, Len(os) = 1,
           NEW mean \in Facts, Agrees(d, t, os, mean), NEW e \in Lines, e.is = "end"
    PROVE  Parsed(d, Append(t, e)) = mean
  <1> DEFINE o == OpenerOf(t, os, 1)
             c == ContentOf(t, os, 1)
             b == os[1]
             v == LiveOf(o, c, b, FALSE)
             V == Lives(t, os)
  <1>1. /\ PlacesFit(t, os) /\ OpenFits(d, os) /\ OneFits(d, t, os, 1)
        /\ NumsFit(d, os, V, mean) /\ BottleFits(os, V, NoLine(t, {"bottle"}))
    BY DEF Agrees
  <1>2. DOMAIN os = 1..1 /\ b.is = "class" /\ 1 \in 1..Len(os) /\ Len(os) \in Nat /\ 1 \in DOMAIN os
        /\ \A k \in DOMAIN os : k = 1
    <2>1. DOMAIN os = 1..1 /\ 1 \in 1..Len(os) /\ Len(os) \in Nat
      OBVIOUS
    <2>2. b.is = "class"
      BY <1>1 DEF OpenFits
    <2> QED BY <2>1, <2>2
  <1>3. ~InBottle(os, 1)
    BY <1>2 DEF InBottle
  <1>4. InBottle(os, 1) = FALSE
    BY <1>3, InBottleIsBoolean
  <1>5. c \in Seq(Lines) /\ o \in Lines
    BY <1>1, <1>2, ContentIsText
  <1>6. V[1] = Live(t, os, 1)
    BY <1>2 DEF Lives
  <1>7. Append(t, e) = Block(o, c, e)
    BY <1>1, TextCloses
  <1>8. b.is # "doc"
    BY <1>2
  <1> HIDE DEF o, c, b, V
  <1>9. LevelFits(d, o, c, b, FALSE) /\ V[1] = v
    <2>1. OneFits(d, t, os, 1) <=> LevelFits(d, o, c, b, InBottle(os, 1))
      BY <1>8, Zenon DEF OneFits, o, c, b
    <2>2. Live(t, os, 1) = LiveOf(o, c, b, InBottle(os, 1))
      BY <1>8, Zenon DEF Live, o, c, b
    <2> QED BY <1>1, <1>4, <1>6, <2>1, <2>2, Zenon
  <1>10. Apart(V[1])
    BY <1>1, <1>2, <1>3 DEF BottleFits
  <1>11. Apart(LiveOf(o, c, b, FALSE))
    BY <1>9, <1>10, Zenon
  <1>12. Parsed(d, Block(o, c, e)) = Collected(d, LiveOf(o, c, b, FALSE))
    <2>1. ClassStands(d, o, c, e, b)
      BY <1>2, <1>9, <1>11, Zenon DEF ClassStands, b
    <2>2. ClassReads(d, o, c, e, b)
      BY <1>5, <2>1, ClassMeans
    <2> QED BY <2>2 DEF ClassReads
  <1>13. Counted(os, 1)
    BY DEF Counted
  <1>14. ASSUME NEW kind \in Stanzas PROVE Found(mean, kind) = Nums(d, V[1], kind)
    <2>1. \A x : x \in Found(mean, kind) <=> x \in Nums(d, V[1], kind)
      BY <1>1, <1>2, <1>13 DEF NumsFit, Gathers
    <2> QED BY <2>1
  <1>15. Collected(d, V[1]) = mean
    BY <1>14, FactsFound
  <1> QED BY <1>7, <1>9, <1>12, <1>15, Zenon

\* A text of one line, that opens a class.
ClassOpened(t, os, l, b) ==
    /\ t = <<l>> /\ os = <<b>> /\ l.is = "class" /\ b.is = "class" /\ b.at = 1
    /\ l.here /\ b.live = l.here /\ b.taken = l.here

\* The first line of a class fits.
LEMMA ClassOpens ==
    ASSUME NEW d, NEW t, NEW os, NEW l \in Lines, NEW b \in Blocks, ClassOpened(t, os, l, b)
    PROVE  Agrees(d, t, os, NoFacts)
  <1> DEFINE v == Lives(t, os)
             m == InBottle(os, 1)
  <1>1. /\ t \in Seq(Lines) /\ Len(t) = 1 /\ DOMAIN t = {1} /\ t[1] = l
        /\ os \in Seq(Blocks) /\ Len(os) = 1 /\ DOMAIN os = {1} /\ os[1] = b
        /\ 1..Len(os) = {1} /\ os # <<>>
    BY DEF ClassOpened
  <1>2. PlacesFit(t, os)
    BY <1>1 DEF PlacesFit, ClassOpened
  <1>3. b.is = "class" /\ l.is = b.is /\ b.live = l.here /\ b.taken = l.here /\ (b.is \notin {"on", "if"} => l.here)
    BY Zenon DEF ClassOpened
  <1>4. OpenFits(d, os)
    <2>1. os[1].is = "class" /\ ~Conditional(os[1]) /\ os[1].live
      <3>1. b.live
        BY Zenon DEF ClassOpened
      <3> QED BY <1>1, <1>3, <3>1 DEF Conditional
    <2> QED BY <1>1, <2>1 DEF OpenFits
  <1>5. OpenerOf(t, os, 1) = l /\ ContentOf(t, os, 1) = <<>>
    <2>1. os[1].at = 1
      BY <1>1 DEF ClassOpened
    <2>2. OpenerOf(t, os, 1) = l
      BY <1>1, <2>1 DEF OpenerOf
    <2>3. ContentOf(t, os, 1) = SubSeq(t, 2, 1)
      BY <1>1, <2>1 DEF ContentOf
    <2>4. SubSeq(t, 2, 1) = <<>>
      BY <1>1
    <2> QED BY <2>2, <2>3, <2>4
  <1>6. m \in BOOLEAN
    BY InBottleIsBoolean
  <1>7. os[1].is # "doc"
    BY <1>1, <1>3
  <1> HIDE DEF v, m
  <1>8. LevelFits(d, l, <<>>, b, m) /\ LiveOf(l, <<>>, b, m) = <<>>
    <2>1. b.is \in {"class", "block", "bottle", "on", "if"}
      BY <1>3
    <2>2. StartedBy(b, l)
      BY <1>3, <2>1, Zenon DEF StartedBy
    <2> QED BY <1>6, <2>2, NewLevelFits
  <1>9. OneFits(d, t, os, 1) /\ Live(t, os, 1) = <<>>
    BY <1>1, <1>5, <1>7, <1>8, Zenon DEF OneFits, Live, m
  <1>10. v[1] = <<>>
    BY <1>1, <1>9 DEF Lives, v
  <1>11. \A kind \in Stanzas : Found(NoFacts, kind) = {}
    BY DEF Found, NoFacts, Stanzas
  <1>12. \A kind : Nums(d, v[1], kind) = {} /\ All(v[1], kind) = {}
    BY <1>10, NumsOfNothing, AllOfNothing
  <1>13. NumsFit(d, os, v, NoFacts)
    <2>1. Gathers(d, os, v, NoFacts)
      BY <1>1, <1>11, <1>12 DEF Gathers
    <2> QED BY <1>1, <1>12, <2>1 DEF NumsFit
  <1>14. Clean(v[1]) /\ Apart(v[1])
    <2>1. Clean(<<>>)
      BY CleanOf
    <2> QED BY <1>10, <2>1 DEF Apart
  <1>15. BottleFits(os, v, NoLine(t, {"bottle"}))
    BY <1>1, <1>14 DEF BottleFits
  <1> QED BY <1>1, <1>2, <1>4, <1>9, <1>13, <1>15 DEF Agrees, v

-----------------------------------------------------------------------------
(* The stanzas Ruby collects.                                              *)

\* Stanzas of the class count where every block that is open is a condition that holds.
LEMMA CountsForClass ==
    ASSUME NEW d, NEW os \in Seq(Blocks), NEW n \in Nat \ {0}, DOMAIN os = 1..n, OpenFits(d, os), ~InBottle(os, n)
    PROVE  Goes(os[n], InBottle(os, n)) /\ Counted(os, n)
              <=> \A j \in 2..n : Conditional(os[j]) /\ os[j].live
  <1>1. \A j \in 1..n : os[j].is # "bottle" /\ ~InBottle(os, j)
    BY DEF InBottle
  <1>2. \A j \in 1..n : (Kin(os[j]) <=> Conditional(os[j])) /\ (Goes(os[j], InBottle(os, j)) <=> os[j].live)
    BY <1>1, Zenon DEF Kin, Goes
  <1>3. n \in 1..n /\ 1 \in 1..n /\ (\A j \in 2..n : j \in 1..n /\ (j = n \/ j \in 2..(n - 1)))
        /\ (\A j \in 2..(n - 1) : j \in 2..n) /\ (n # 1 => n \in 2..n)
    OBVIOUS
  <1>4. os[1].live
    <2>1. os[1].is = "class" /\ os # <<>>
      BY <1>3 DEF OpenFits
    <2>2. ~Conditional(os[1])
      BY <2>1 DEF Conditional
    <2> QED BY <1>3, <2>2 DEF OpenFits
  <1>5. Counted(os, n) <=> (n # 1 => Conditional(os[n])) /\ \A j \in 2..(n - 1) : Conditional(os[j]) /\ os[j].live
    <2>1. Counted(os, n) <=> (n # 1 => Kin(os[n])) /\ \A j \in 2..(n - 1) : Kin(os[j]) /\ Goes(os[j], InBottle(os, j))
      BY Zenon DEF Counted, Passable
    <2> QED BY <1>2, <1>3, <2>1, Zenon
  <1>6. Goes(os[n], InBottle(os, n)) <=> os[n].live
    BY <1>2, <1>3, Zenon
  <1>7. n = 1 => 2..n = {}
    OBVIOUS
  <1> DEFINE G == Goes(os[n], InBottle(os, n))
             K == Counted(os, n)
  <1> HIDE DEF G, K
  <1>8. G /\ K => \A j \in 2..n : Conditional(os[j]) /\ os[j].live
    <2> SUFFICES ASSUME G, K, NEW j \in 2..n PROVE Conditional(os[j]) /\ os[j].live
      OBVIOUS
    <2>1. CASE j = n
      <3>1. n # 1
        BY <2>1
      <3> QED BY <1>5, <1>6, <2>1, <3>1, Zenon DEF G, K
    <2>2. CASE j \in 2..(n - 1)
      BY <1>5, <2>2, Zenon DEF K
    <2> QED BY <1>3, <2>1, <2>2
  <1>9. (\A j \in 2..n : Conditional(os[j]) /\ os[j].live) => G /\ K
    <2> SUFFICES ASSUME \A j \in 2..n : Conditional(os[j]) /\ os[j].live PROVE G /\ K
      OBVIOUS
    <2>1. CASE n = 1
      <3>1. 2..(n - 1) = {}
        BY <2>1
      <3>2. os[n].live
        BY <1>4, <2>1, Zenon
      <3>3. G
        BY <1>6, <3>2, Zenon DEF G
      <3>4. K
        BY <1>5, <2>1, <3>1, Zenon DEF K
      <3> QED BY <3>3, <3>4
    <2>2. CASE n # 1
      <3>1. G
        BY <1>3, <1>6, <2>2, Zenon DEF G
      <3>2. K
        BY <1>3, <1>5, <2>2, Zenon DEF K
      <3> QED BY <3>1, <3>2
    <2> QED BY <2>1, <2>2
  <1> QED BY <1>8, <1>9 DEF G, K

\* What counts at the end of the open blocks os, n of them, within a bottle block.
BottleLaw(os, n) ==
    Goes(os[n], InBottle(os, n)) /\ Counted(os, n)
       <=> \E i \in 1..n : /\ os[i].is = "bottle"
                           /\ \A j \in 2..n : j # i => /\ Conditional(os[j])
                                                       /\ os[j].live \/ (j > i /\ os[j].is = "on")

\* Digests count in the bottle block where conditions hold, and platform blocks within it.
LEMMA CountsForBottle ==
    ASSUME NEW d, NEW os \in Seq(Blocks), NEW n \in Nat \ {0}, DOMAIN os = 1..n, OpenFits(d, os), InBottle(os, n)
    PROVE  BottleLaw(os, n)
  <1> SUFFICES Goes(os[n], InBottle(os, n)) /\ Counted(os, n)
                 <=> \E i \in 1..n : /\ os[i].is = "bottle"
                                     /\ \A j \in 2..n : j # i => /\ Conditional(os[j])
                                                                 /\ os[j].live \/ (j > i /\ os[j].is = "on")
    BY Zenon DEF BottleLaw
  <1>1. PICK i \in 1..n : os[i].is = "bottle"
    BY DEF InBottle
  <1>2. os[1].is = "class" /\ 1 \in 1..n /\ n \in 1..n
    <2>1. os # <<>> /\ 1 \in 1..n /\ n \in 1..n
      BY <1>1
    <2> QED BY <2>1 DEF OpenFits
  <1>3. i # 1 /\ \A j \in 1..n : j # i /\ j # 1 => Conditional(os[j]) /\ os[j].is # "bottle"
    <2>1. i # 1
      BY <1>1, <1>2
    <2>2. \A j \in 1..n : j # i /\ j # 1 => Conditional(os[j])
      BY <1>1 DEF OpenFits
    <2> QED BY <2>1, <2>2 DEF Conditional
  <1>4. os[i].live
    <2>1. ~Conditional(os[i])
      BY <1>1 DEF Conditional
    <2> QED BY <2>1 DEF OpenFits
  <1>5. \A j \in 1..n : os[j].is = "bottle" => j = i
    BY <1>2, <1>3
  <1>6. \A j \in 1..n : InBottle(os, j) <=> i <= j
    <2> SUFFICES ASSUME NEW j \in 1..n PROVE InBottle(os, j) <=> i <= j
      OBVIOUS
    <2>1. \A l \in 1..j : l \in 1..n
      OBVIOUS
    <2>2. InBottle(os, j) => i <= j
      BY <1>5, <2>1 DEF InBottle
    <2>3. i <= j => i \in 1..j
      OBVIOUS
    <2> QED BY <1>1, <2>2, <2>3 DEF InBottle
  <1> DEFINE In(j) == os[j].live \/ (j > i /\ os[j].is = "on")
             G == Goes(os[n], InBottle(os, n))
             K == Counted(os, n)
  <1>7. \A j \in 2..n : Kin(os[j]) /\ (Goes(os[j], InBottle(os, j)) <=> (j # i => In(j)))
    <2> SUFFICES ASSUME NEW j \in 2..n PROVE Kin(os[j]) /\ (Goes(os[j], InBottle(os, j)) <=> (j # i => In(j)))
      OBVIOUS
    <2>1. j \in 1..n /\ j # 1
      OBVIOUS
    <2>2. CASE j = i
      BY <1>1, <1>4, <2>2, Zenon DEF Kin, Goes
    <2>3. CASE j # i
      <3>1. InBottle(os, j) <=> j > i
        BY <1>6, <2>1, <2>3
      <3>2. Conditional(os[j])
        BY <1>3, <2>1, <2>3
      <3>3. Goes(os[j], InBottle(os, j)) <=> In(j)
        BY <3>1, Zenon DEF Goes
      <3> QED BY <2>3, <3>2, <3>3, Zenon DEF Kin
    <2> QED BY <2>2, <2>3
  <1>8. n # 1 /\ n \in 2..n /\ (\A j \in 2..n : j \in 1..n /\ j # 1 /\ (j = n \/ j \in 2..(n - 1)))
        /\ \A j \in 2..(n - 1) : j \in 2..n
    BY <1>1, <1>3
  <1> HIDE DEF In, G, K
  <1>9. K <=> \A j \in 2..(n - 1) : j # i => In(j)
    <2>1. K <=> Kin(os[n]) /\ \A j \in 2..(n - 1) : Kin(os[j]) /\ Goes(os[j], InBottle(os, j))
      BY <1>8, Zenon DEF Counted, Passable, K
    <2> QED BY <1>7, <1>8, <2>1, Zenon
  <1>10. G <=> (n # i => In(n))
    BY <1>7, <1>8, Zenon DEF G
  <1>11. G /\ K <=> \A j \in 2..n : j # i => In(j)
    BY <1>8, <1>9, <1>10, Zenon
  <1>12. (\A j \in 2..n : j # i => In(j)) =>
            \E k \in 1..n : /\ os[k].is = "bottle"
                            /\ \A j \in 2..n : j # k => /\ Conditional(os[j])
                                                        /\ os[j].live \/ (j > k /\ os[j].is = "on")
    BY <1>1, <1>3, <1>8, Zenon DEF In
  <1>13. ASSUME NEW k \in 1..n, os[k].is = "bottle",
                \A j \in 2..n : j # k => Conditional(os[j]) /\ (os[j].live \/ (j > k /\ os[j].is = "on"))
         PROVE  \A j \in 2..n : j # i => In(j)
    <2>1. k = i
      BY <1>5, <1>13
    <2> QED BY <1>13, <2>1, Zenon DEF In
  <1>14. (\E k \in 1..n : /\ os[k].is = "bottle"
                          /\ \A j \in 2..n : j # k => /\ Conditional(os[j])
                                                      /\ os[j].live \/ (j > k /\ os[j].is = "on"))
            => \A j \in 2..n : j # i => In(j)
    BY <1>13, Zenon
  <1> QED BY <1>11, <1>12, <1>14, Zenon DEF G, K

-----------------------------------------------------------------------------
(* Each action keeps the text and what Ruby makes of it together.          *)

\* A text without odd lines is read as Ruby reads it.
TextInv ==
    /\ TapSourceMeansRuby
    /\ ~odd /\ parsed = NoParse /\ open # <<>> => Agrees(dialect, text, open, meaning)
    /\ ~odd /\ parsed = NoParse /\ open = <<>> => Parsed(dialect, text) = meaning

\* The line that is added.
LEMMA LineIs ==
    ASSUME TapInv, NEW kind \in LineKinds, NEW here \in BOOLEAN, AddLine(kind, here),
           Len(text) + 1 <= MaxTapLines
    PROVE  \E l \in Lines : text' = Append(text, l) /\ l.is = kind /\ l.here = here /\ l.at = Len(text) + 1
  <1> DEFINE l == [is |-> kind, here |-> here, at |-> Len(text) + 1]
  <1>1. Len(text) \in Nat /\ MaxTapLines \in Nat
    BY TapSourceAssumption DEF TapSourceAssumption, TapInv
  <1>2. l \in Lines
    BY <1>1 DEF Lines
  <1> QED BY <1>2 DEF AddLine

\* Which blocks are open, by the innermost one.
LEMMA WithinIs ==
    ASSUME TapInv, open # <<>>, OpenFits(dialect, open)
    PROVE  /\ Within("bottle") <=> InBottle(open, Len(open))
           /\ Within("doc") <=> open[Len(open)].is = "doc"
           /\ Len(open) \in Nat \ {0} /\ DOMAIN open = 1..Len(open)
           /\ \A k \in 1..Len(open) : open[k].is = "doc" => k = Len(open)
  <1>1. Len(open) \in Nat \ {0} /\ DOMAIN open = 1..Len(open) /\ Len(open) \in DOMAIN open
    BY DEF TapInv
  <1>2. \A k \in DOMAIN open : open[k].is = "doc" => k = Len(open)
    BY DEF OpenFits
  <1>3. Within("bottle") <=> InBottle(open, Len(open))
    BY <1>1 DEF Within, InBottle
  <1>4. Within("doc") <=> open[Len(open)].is = "doc"
    BY <1>1, <1>2 DEF Within
  <1> QED BY <1>1, <1>2, <1>3, <1>4

LEMMA DialectIs == TapInv => dialect \in {"formula", "cask"}
  BY TapSourceAssumption DEF TapSourceAssumption, TapInv

\* What a stanza adds to the facts.
LEMMA StanzaFacts ==
    ASSUME TapInv, open # <<>>, OpenFits(dialect, open), NEW kind \in Stanzas, Stanza(kind)
    PROVE  /\ \A j \in Stanzas : j # kind => Found(meaning', j) = Found(meaning, j)
           /\ Found(meaning', kind) =
                 IF Goes(open[Len(open)], InBottle(open, Len(open))) /\ Counted(open, Len(open))
                 THEN Found(meaning, kind) \cup {Len(text) + 1} ELSE Found(meaning, kind)
  <1> DEFINE n == Len(open)
             i == Len(text) + 1
             counts == Goes(open[n], InBottle(open, n)) /\ Counted(open, n)
  <1>1. /\ Within("bottle") <=> InBottle(open, n)
        /\ n \in Nat \ {0} /\ DOMAIN open = 1..n /\ open \in Seq(Blocks)
    BY WithinIs DEF TapInv
  <1>2. kind = "digest" <=> InBottle(open, n)
    BY <1>1 DEF Stanza
  <1>3. kind # "digest" => (counts <=> OfTheClass)
    <2> SUFFICES ASSUME kind # "digest" PROVE counts <=> OfTheClass
      OBVIOUS
    <2>1. ~InBottle(open, n)
      BY <1>2
    <2> HIDE DEF n
    <2>2. Goes(open[n], InBottle(open, n)) /\ Counted(open, n)
             <=> \A j \in 2..n : Conditional(open[j]) /\ open[j].live
      BY <1>1, <2>1, CountsForClass
    <2> QED BY <2>2, Zenon DEF OfTheClass, n
  <1>4. kind = "digest" => (counts <=> OfTheBottle)
    <2> SUFFICES ASSUME kind = "digest" PROVE counts <=> OfTheBottle
      OBVIOUS
    <2>1. InBottle(open, n)
      BY <1>2
    <2>a. n = Len(open)
      OBVIOUS
    <2> HIDE DEF n
    <2>2. Goes(open[n], InBottle(open, n)) /\ Counted(open, n)
             <=> \E b \in 1..n : /\ open[b].is = "bottle"
                                 /\ \A j \in 2..n : j # b => /\ Conditional(open[j])
                                                             /\ open[j].live \/ (j > b /\ open[j].is = "on")
      <3>1. BottleLaw(open, n)
        BY <1>1, <2>1, CountsForBottle
      <3> QED BY <3>1, Zenon DEF BottleLaw
    <2> QED BY <1>1, <2>a, <2>2, Zenon DEF OfTheBottle
  <1> DEFINE A == OfTheClass
             B == OfTheBottle
  <1>5. /\ kind \in {"url", "version"} /\ A => meaning[kind] = 0
        /\ meaning' = CASE kind = "dependency" /\ A -> [meaning EXCEPT !.dependencies = @ \cup {i}]
                        [] kind \in {"url", "version"} /\ A -> [meaning EXCEPT ![kind] = i]
                        [] kind = "digest" /\ B -> [meaning EXCEPT !.bottle = @ \cup {i}]
                        [] OTHER -> meaning
    BY DEF Stanza
  <1>6. meaning \in Facts /\ i \in Nat \ {0}
    BY DEF TapInv
  <1>7. kind \in {"dependency", "url", "version", "digest"}
    BY DEF Stanzas
  <1> HIDE DEF n, i, counts, A, B
  <1>8. CASE kind = "dependency"
    <2>1. meaning' = IF counts THEN [meaning EXCEPT !.dependencies = @ \cup {i}] ELSE meaning
      BY <1>3, <1>5, <1>8 DEF A
    <2>2. meaning' = meaning \/ (counts /\ meaning' = [meaning EXCEPT !.dependencies = @ \cup {i}])
      BY <2>1
    <2>3. \A j \in Stanzas : j # "dependency" => Found(meaning', j) = Found(meaning, j)
      BY <1>6, <2>2 DEF Found, Facts, Stanzas
    <2>4. Found(meaning', "dependency") =
              IF counts THEN Found(meaning, "dependency") \cup {i} ELSE Found(meaning, "dependency")
      BY <1>6, <2>1 DEF Found, Facts
    <2> QED BY <1>8, <2>3, <2>4 DEF counts, n, i
  <1>9. CASE kind = "url"
    <2>1. meaning' = IF counts THEN [meaning EXCEPT !.url = i] ELSE meaning
      BY <1>3, <1>5, <1>9 DEF A
    <2>2. counts => meaning.url = 0
      BY <1>3, <1>5, <1>9 DEF A
    <2>3. \A j \in Stanzas : j # "url" => Found(meaning', j) = Found(meaning, j)
      BY <1>6, <2>1 DEF Found, Facts, Stanzas
    <2>4. Found(meaning', "url") =
              IF counts THEN Found(meaning, "url") \cup {i} ELSE Found(meaning, "url")
      BY <1>6, <2>1, <2>2 DEF Found, Facts
    <2> QED BY <1>9, <2>3, <2>4 DEF counts, n, i
  <1>10. CASE kind = "version"
    <2>1. meaning' = IF counts THEN [meaning EXCEPT !.version = i] ELSE meaning
      BY <1>3, <1>5, <1>10 DEF A
    <2>2. counts => meaning.version = 0
      BY <1>3, <1>5, <1>10 DEF A
    <2>3. \A j \in Stanzas : j # "version" => Found(meaning', j) = Found(meaning, j)
      BY <1>6, <2>1 DEF Found, Facts, Stanzas
    <2>4. Found(meaning', "version") =
              IF counts THEN Found(meaning, "version") \cup {i} ELSE Found(meaning, "version")
      BY <1>6, <2>1, <2>2 DEF Found, Facts
    <2> QED BY <1>10, <2>3, <2>4 DEF counts, n, i
  <1>11. CASE kind = "digest"
    <2>1. meaning' = IF counts THEN [meaning EXCEPT !.bottle = @ \cup {i}] ELSE meaning
      BY <1>4, <1>5, <1>11 DEF B
    <2>2. \A j \in Stanzas : j # "digest" => Found(meaning', j) = Found(meaning, j)
      BY <1>6, <2>1 DEF Found, Facts, Stanzas
    <2>3. Found(meaning', "digest") = IF counts THEN Found(meaning, "digest") \cup {i} ELSE Found(meaning, "digest")
      BY <1>6, <2>1 DEF Found, Facts
    <2> QED BY <1>11, <2>2, <2>3 DEF counts, n, i
  <1> QED BY <1>7, <1>8, <1>9, <1>10, <1>11

\* A text that is read as Ruby reads it, in the midst of its blocks.
TextOpen == open # <<>> /\ Agrees(dialect, text, open, meaning)

\* The action properties of a line that is not odd: what was read so far was not odd.
LEMMA NotOddBefore ==
    ASSUME TapInv, TextInv, parsed = NoParse, open # <<>>, ~odd
    PROVE  TextOpen /\ OpenFits(dialect, open)
  BY DEF TextInv, TextOpen, Agrees

\* There is room for the line.
LEMMA RoomForLine ==
    ASSUME TapInv, NEW n \in {1, 2}, RoomFor(n)
    PROVE  Len(text) + 1 <= MaxTapLines
  <1>1. Len(text) \in Nat /\ Len(open) \in Nat /\ MaxTapLines \in Nat
    BY TapSourceAssumption DEF TapSourceAssumption, TapInv
  <1> QED BY <1>1 DEF RoomFor

\* The next text is read as Ruby reads it.
LEMMA StillOpen ==
    ASSUME TapInv, parsed' = NoParse, open' # <<>>, Agrees(dialect', text', open', meaning')
    PROVE  TextInv'
  BY DEF TextInv, TapSourceMeansRuby

\* Stanza: the line is collected by the parser exactly when Ruby collects it.
LEMMA StanzaStep ==
    ASSUME TapInv, TextInv, NEW kind \in Stanzas, Stanza(kind), ~odd'
    PROVE  TextInv'
  <1> DEFINE n == Len(open)
  <1>1. /\ RoomFor(1) /\ Writing /\ AddLine(kind, TRUE) /\ UNCHANGED open
        /\ (kind = "digest" <=> Within("bottle"))
        /\ odd' = (odd \/ (~OnTop /\ (kind = "version" \/ (kind = "url" /\ dialect = "cask"))))
    BY DEF Stanza
  <1>2. parsed = NoParse /\ open # <<>> /\ UNCHANGED <<dialect, parsed>> /\ kind \in LineKinds
    BY <1>1 DEF AddLine, LineKinds
  <1>3. ~odd /\ (~OnTop => ~(kind = "version" \/ (kind = "url" /\ dialect = "cask")))
    BY <1>1
  <1>4. TextOpen /\ OpenFits(dialect, open)
    BY <1>2, <1>3, NotOddBefore
  <1>5. PICK l \in Lines : text' = Append(text, l) /\ l.is = kind /\ l.here = TRUE /\ l.at = Len(text) + 1
    <2>1. Len(text) + 1 <= MaxTapLines
      BY <1>1, RoomForLine
    <2> QED BY <1>1, <1>2, <2>1, LineIs
  <1>6. /\ Within("bottle") <=> InBottle(open, n)
        /\ Within("doc") <=> open[n].is = "doc"
        /\ n \in Nat \ {0} /\ DOMAIN open = 1..n
    BY <1>2, <1>4, WithinIs
  <1>7. InBottle(open, n) <=> kind = "digest"
    BY <1>1, <1>6
  <1>8. open[n].is # "doc"
    BY <1>1, <1>6 DEF Writing
  <1>9. InBlock(open, n) => ~Wide(dialect, kind)
    <2> SUFFICES ASSUME InBlock(open, n) PROVE ~Wide(dialect, kind)
      OBVIOUS
    <2>1. PICK b \in 1..n : open[b].is = "block"
      BY DEF InBlock
    <2>2. open[1].is = "class" /\ b # 1 /\ b \in 2..n
      BY <1>2, <1>4, <1>6, <2>1 DEF OpenFits
    <2>3. ~Conditional(open[b])
      BY <2>1 DEF Conditional
    <2>4. ~OnTop
      BY <2>2, <2>3 DEF OnTop
    <2>5. kind # "digest"
      <3> SUFFICES ASSUME kind = "digest" PROVE FALSE
        OBVIOUS
      <3>1. PICK a \in 1..n : open[a].is = "bottle"
        BY <1>7 DEF InBottle
      <3>2. a \in DOMAIN open /\ b \in DOMAIN open /\ b # a /\ b # 1
        BY <1>6, <2>1, <2>2, <3>1
      <3>3. Conditional(open[b])
        BY <1>4, <3>1, <3>2 DEF OpenFits
      <3> QED BY <2>3, <3>3
    <2> QED BY <1>3, <2>4, <2>5 DEF Wide
  <1>10. /\ \A j \in Stanzas : j # kind => Found(meaning', j) = Found(meaning, j)
         /\ Found(meaning', kind) =
               IF Goes(open[Len(open)], InBottle(open, Len(open))) /\ Counted(open, Len(open))
               THEN Found(meaning, kind) \cup {Len(text) + 1} ELSE Found(meaning, kind)
    BY <1>2, <1>4, StanzaFacts
  <1>11. Found(meaning', kind) =
            IF Goes(open[Len(open)], InBottle(open, Len(open))) /\ Counted(open, Len(open))
            THEN Found(meaning, kind) \cup {l.at} ELSE Found(meaning, kind)
    BY <1>5, <1>10
  <1>12. dialect \in {"formula", "cask"} /\ text \in Seq(Lines) /\ open \in Seq(Blocks)
    BY DialectIs DEF TapInv
  <1>13. Agrees(dialect, Append(text, l), open, meaning')
    <2>1. Agrees(dialect, text, open, meaning) /\ open # <<>>
      BY <1>4 DEF TextOpen
    <2>2. l.is = kind
      BY <1>5
    <2> QED BY <1>7, <1>8, <1>9, <1>10, <1>11, <1>12, <2>1, <2>2, StanzaFits
  <1>14. Agrees(dialect', text', open', meaning')
    BY <1>1, <1>2, <1>5, <1>13
  <1>15. parsed' = NoParse /\ open' # <<>>
    BY <1>1, <1>2
  <1> QED BY <1>14, <1>15, StillOpen

\* OpenBlock: a block with nothing in it changes nothing.
LEMMA OpenStep ==
    ASSUME TapInv, TextInv, NEW kind \in Openers \ {"class"}, NEW here \in BOOLEAN, OpenBlock(kind, here), ~odd'
    PROVE  TextInv'
  <1> DEFINE nb == [is |-> kind, at |-> Len(text) + 1, live |-> here, taken |-> here]
  <1>1. /\ RoomFor(2) /\ Writing /\ AddLine(kind, here) /\ UNCHANGED meaning
        /\ kind = "bottle" => dialect = "formula" /\ (\A i \in DOMAIN text : text[i].is # "bottle") /\ OnTop
        /\ Within("bottle") => Conditional([is |-> kind])
        /\ (kind \notin {"on", "if"} => here)
        /\ open' = Append(open, nb)
        /\ odd' = (odd \/ kind = "while")
    BY DEF OpenBlock
  <1>2. /\ parsed = NoParse /\ open # <<>> /\ UNCHANGED <<dialect, parsed>>
        /\ kind \in LineKinds /\ kind \in {"block", "bottle", "on", "if"} /\ ~odd
    BY <1>1 DEF AddLine, LineKinds, Openers
  <1>3. TextOpen /\ OpenFits(dialect, open)
    BY <1>2, NotOddBefore
  <1>4. Len(text) + 1 \in 1..MaxTapLines
    <2>1. Len(text) + 1 <= MaxTapLines
      BY <1>1, RoomForLine
    <2> QED BY <2>1, TapSourceAssumption DEF TapSourceAssumption, TapInv
  <1>5. PICK l \in Lines : text' = Append(text, l) /\ l.is = kind /\ l.here = here /\ l.at = Len(text) + 1
    BY <1>1, <1>2, <1>4, LineIs
  <1>6. nb \in Blocks
    BY <1>4 DEF Blocks
  <1>7. /\ nb.is = kind /\ nb.at = Len(text) + 1 /\ nb.live = here /\ nb.taken = here
    OBVIOUS
  <1> HIDE DEF nb
  <1>8. /\ Within("bottle") <=> InBottle(open, Len(open))
        /\ Within("doc") <=> open[Len(open)].is = "doc"
        /\ Len(open) \in Nat \ {0} /\ DOMAIN open = 1..Len(open)
        /\ \A k \in 1..Len(open) : open[k].is = "doc" => k = Len(open)
    BY <1>2, <1>3, WithinIs
  <1>9. \A k \in 1..Len(open) : open[k].is # "doc"
    BY <1>1, <1>8 DEF Writing
  <1>10. nb.is = "bottle" => dialect = "formula" /\ NoLine(text, {"bottle"})
                             /\ \A j \in 2..Len(open) : Conditional(open[j])
    BY <1>1, <1>7 DEF NoLine, OnTop
  <1>11. InBottle(open, Len(open)) => Conditional(nb)
    BY <1>1, <1>7, <1>8 DEF Conditional
  <1>12. OpensOn(dialect, text, open, nb, l)
    <2>1. nb.is \in {"block", "bottle", "on", "if", "doc"} /\ l.is = nb.is /\ nb.at = Len(text) + 1
      BY <1>2, <1>5, <1>7
    <2>2. nb.live = l.here /\ nb.taken = l.here
      BY <1>5, <1>7, Zenon
    <2>3. nb.is \notin {"on", "if"} => l.here
      BY <1>1, <1>5, <1>7
    <2> QED BY <1>9, <1>10, <1>11, <2>1, <2>2, <2>3, Zenon DEF OpensOn
  <1>13. Agrees(dialect, Append(text, l), Append(open, nb), meaning)
    <2>1. text \in Seq(Lines) /\ open \in Seq(Blocks)
      BY DEF TapInv
    <2> QED BY <1>3, <1>6, <1>12, <2>1, OpenKeeps DEF TextOpen
  <1>14. Agrees(dialect', text', open', meaning')
    BY <1>1, <1>2, <1>5, <1>13
  <1>15. parsed' = NoParse /\ open' # <<>>
    BY <1>1, <1>2, <1>6 DEF TapInv
  <1> QED BY <1>14, <1>15, StillOpen

\* OpenDoc: a here-document with nothing in it changes nothing.
LEMMA DocStep ==
    ASSUME TapInv, TextInv, OpenDoc, ~odd'
    PROVE  TextInv'
  <1> DEFINE nb == [is |-> "doc", at |-> Len(text) + 1, live |-> TRUE, taken |-> TRUE]
  <1>1. /\ RoomFor(2) /\ Writing /\ ~Within("bottle") /\ AddLine("doc", TRUE)
        /\ open' = Append(open, nb) /\ UNCHANGED <<meaning, odd>>
    BY DEF OpenDoc
  <1>2. /\ parsed = NoParse /\ open # <<>> /\ UNCHANGED <<dialect, parsed>>
        /\ "doc" \in LineKinds /\ ~odd
    BY <1>1 DEF AddLine, LineKinds
  <1>3. TextOpen /\ OpenFits(dialect, open)
    BY <1>2, NotOddBefore
  <1>4. Len(text) + 1 \in 1..MaxTapLines
    <2>1. Len(text) + 1 <= MaxTapLines
      BY <1>1, RoomForLine
    <2> QED BY <2>1, TapSourceAssumption DEF TapSourceAssumption, TapInv
  <1>5. PICK l \in Lines : text' = Append(text, l) /\ l.is = "doc" /\ l.here = TRUE /\ l.at = Len(text) + 1
    <2> DEFINE kind == "doc"
               here == TRUE
    <2>1. AddLine(kind, here) /\ kind \in LineKinds /\ here \in BOOLEAN
      BY <1>1, <1>2, Zenon
    <2>3. Len(text) + 1 <= MaxTapLines
      BY <1>4
    <2>2. kind = "doc" /\ here = TRUE
      OBVIOUS
    <2> HIDE DEF kind, here
    <2> QED BY <2>1, <2>2, <2>3, LineIs
  <1>6. nb \in Blocks
    BY <1>4 DEF Blocks
  <1>7. /\ nb.is = "doc" /\ nb.at = Len(text) + 1 /\ nb.live = TRUE /\ nb.taken = TRUE
    OBVIOUS
  <1> HIDE DEF nb
  <1>8. /\ Within("bottle") <=> InBottle(open, Len(open))
        /\ Within("doc") <=> open[Len(open)].is = "doc"
        /\ Len(open) \in Nat \ {0} /\ DOMAIN open = 1..Len(open)
        /\ \A k \in 1..Len(open) : open[k].is = "doc" => k = Len(open)
    BY <1>2, <1>3, WithinIs
  <1>9. \A k \in 1..Len(open) : open[k].is # "doc"
    BY <1>1, <1>8 DEF Writing
  <1>10. OpensOn(dialect, text, open, nb, l)
    <2>1. nb.is \in {"block", "bottle", "on", "if", "doc"} /\ l.is = nb.is /\ nb.at = Len(text) + 1
          /\ nb.is # "bottle"
      BY <1>5, <1>7
    <2>2. nb.live = l.here /\ nb.taken = l.here /\ l.here
      BY <1>5, <1>7, Zenon
    <2>3. ~InBottle(open, Len(open))
      BY <1>1, <1>8
    <2> QED BY <1>9, <2>1, <2>2, <2>3, Zenon DEF OpensOn
  <1>11. Agrees(dialect, Append(text, l), Append(open, nb), meaning)
    <2>1. text \in Seq(Lines) /\ open \in Seq(Blocks)
      BY DEF TapInv
    <2> QED BY <1>3, <1>6, <1>10, <2>1, OpenKeeps DEF TextOpen
  <1>12. Agrees(dialect', text', open', meaning')
    BY <1>1, <1>2, <1>5, <1>11
  <1>13. parsed' = NoParse /\ open' # <<>>
    BY <1>1, <1>2, <1>6 DEF TapInv
  <1> QED BY <1>12, <1>13, StillOpen

\* NextBranch: the parser goes on with the branch that Ruby takes.
LEMMA BranchStep ==
    ASSUME TapInv, TextInv, NEW kind \in {"elsif", "else"}, NEW here \in BOOLEAN, NextBranch(kind, here), ~odd'
    PROVE  TextInv'
  <1> DEFINE n == Len(open)
             b == open[n]
             a == [is |-> IF kind = "else" THEN "else" ELSE "if", at |-> b.at,
                   live |-> here /\ ~b.taken, taken |-> here \/ b.taken]
  <1>1. /\ RoomFor(1) /\ open # <<>> /\ open[n].is = "if" /\ (kind = "else" => here) /\ AddLine(kind, here)
        /\ open' = [open EXCEPT ![n] = a]
        /\ UNCHANGED <<meaning, odd>>
    BY DEF NextBranch, Last
  <1>2. parsed = NoParse /\ UNCHANGED <<dialect, parsed>> /\ kind \in LineKinds /\ ~odd
    BY <1>1 DEF AddLine, LineKinds
  <1>3. TextOpen /\ OpenFits(dialect, open)
    BY <1>1, <1>2, NotOddBefore
  <1>4. PICK l \in Lines : text' = Append(text, l) /\ l.is = kind /\ l.here = here /\ l.at = Len(text) + 1
    <2>1. Len(text) + 1 <= MaxTapLines
      BY <1>1, RoomForLine
    <2> QED BY <1>1, <1>2, <2>1, LineIs
  <1>5. /\ n \in Nat \ {0} /\ DOMAIN open = 1..n /\ n \in DOMAIN open
        /\ open \in Seq(Blocks) /\ open[n] \in Blocks
    BY <1>1 DEF TapInv
  <1>6. a \in Blocks /\ b.taken \in BOOLEAN
    <2>1. b \in Blocks
      BY <1>5
    <2>2. b.at \in 1..MaxTapLines /\ b.taken \in BOOLEAN
      BY <2>1 DEF Blocks
    <2> QED BY <2>2 DEF Blocks, Openers
  <1>7. /\ a.at = b.at /\ a.is = (IF kind = "else" THEN "else" ELSE "if")
    OBVIOUS
  <1>8. a.live = (here /\ ~b.taken) /\ a.taken = (here \/ b.taken)
    BY Zenon
  <1>9. b = open[n]
    OBVIOUS
  <1> HIDE DEF a, b
  <1>10. open' \in Seq(Blocks) /\ Len(open') = n /\ open'[n] = a
         /\ \A k \in 1..(n - 1) : open'[k] = open[k]
    <2>1. n = Len(open) /\ open' = [open EXCEPT ![n] = a]
      BY <1>1
    <2> HIDE DEF n
    <2>2. open' \in Seq(Blocks) /\ Len(open') = n
      BY <1>5, <1>6, <2>1
    <2>3. open'[n] = a /\ \A k \in 1..n : k # n => open'[k] = open[k]
      BY <1>5, <2>1
    <2>4. \A k \in 1..(n - 1) : k \in 1..n /\ k # n
      BY <1>5
    <2> QED BY <2>2, <2>3, <2>4
  <1>11. NextBranchOf(b, l, a)
    <2>1. b.is = "if" /\ l.is \in {"elsif", "else"}
      BY <1>1, <1>4, <1>9
    <2>2. l.is = "else" => l.here
      BY <1>1, <1>4
    <2>3. a.is = (IF l.is = "else" THEN "else" ELSE "if")
      BY <1>4, <1>7
    <2>4. a.live = (l.here /\ ~b.taken) /\ a.taken = (l.here \/ b.taken)
      BY <1>4, <1>8, Zenon
    <2> QED BY <1>6, <2>1, <2>2, <2>3, <2>4, Zenon DEF NextBranchOf
  <1>12. open'[n].at = open[n].at /\ NextBranchOf(open[n], l, open'[n])
    BY <1>7, <1>9, <1>10, <1>11, Zenon
  <1>13. Agrees(dialect, Append(text, l), open', meaning)
    <2>1. text \in Seq(Lines) /\ open # <<>> /\ Agrees(dialect, text, open, meaning)
      BY <1>3 DEF TapInv, TextOpen
    <2>2. /\ Len(open') = Len(open) /\ \A k \in 1..(Len(open) - 1) : open'[k] = open[k]
          /\ open'[Len(open)].at = open[Len(open)].at /\ NextBranchOf(open[Len(open)], l, open'[Len(open)])
      BY <1>10, <1>12
    <2> QED BY <1>5, <1>10, <2>1, <2>2, BranchKeeps
  <1>14. Agrees(dialect', text', open', meaning')
    BY <1>1, <1>2, <1>4, <1>13
  <1>15. parsed' = NoParse /\ open' # <<>>
    BY <1>2, <1>5, <1>10
  <1> QED BY <1>14, <1>15, StillOpen

\* Prose: at the top of a cask the parser skips it, as Ruby does.
LEMMA ProseStep ==
    ASSUME TapInv, TextInv, Prose, ~odd'
    PROVE  TextInv'
  <1>1. /\ RoomFor(1) /\ Within("doc") /\ AddLine("prose", TRUE) /\ UNCHANGED <<open, meaning>>
        /\ odd' = (odd \/ dialect = "formula" \/ Len(open) > 2)
    BY DEF Prose
  <1>2. /\ parsed = NoParse /\ open # <<>> /\ UNCHANGED <<dialect, parsed>>
        /\ "prose" \in LineKinds /\ ~odd /\ dialect # "formula" /\ ~(Len(open) > 2)
    BY <1>1 DEF AddLine, LineKinds
  <1>3. TextOpen /\ OpenFits(dialect, open)
    BY <1>2, NotOddBefore
  <1>4. PICK l \in Lines : text' = Append(text, l) /\ l.is = "prose" /\ l.here = TRUE /\ l.at = Len(text) + 1
    <2>1. Len(text) + 1 <= MaxTapLines
      BY <1>1, RoomForLine
    <2> QED BY <1>1, <1>2, <2>1, LineIs
  <1>5. /\ open[Len(open)].is = "doc" /\ Len(open) \in Nat \ {0}
        /\ open[1].is = "class"
    <2>1. Within("doc") <=> open[Len(open)].is = "doc"
      BY <1>2, <1>3, WithinIs
    <2>2. Len(open) \in Nat \ {0}
      BY <1>2, <1>3, WithinIs
    <2> QED BY <1>1, <1>2, <1>3, <2>1, <2>2 DEF OpenFits
  <1>6. Len(open) = 2
    <2> DEFINE n == Len(open)
    <2>1. n # 1
      BY <1>5
    <2>2. n \in Nat \ {0} /\ ~(n > 2)
      BY <1>2, <1>5
    <2> HIDE DEF n
    <2>3. n = 2
      BY <2>1, <2>2
    <2> QED BY <2>3 DEF n
  <1>7. ProseOn(dialect, open, l)
    <2>1. dialect = "cask"
      BY <1>2, DialectIs
    <2> QED BY <1>4, <1>5, <1>6, <2>1 DEF ProseOn
  <1>8. Agrees(dialect, Append(text, l), open, meaning)
    <2>1. text \in Seq(Lines) /\ open \in Seq(Blocks)
      BY DEF TapInv
    <2> QED BY <1>3, <1>7, <2>1, ProseKeeps DEF TextOpen
  <1>9. Agrees(dialect', text', open', meaning')
    BY <1>1, <1>2, <1>4, <1>8
  <1>10. parsed' = NoParse /\ open' # <<>>
    BY <1>1, <1>2
  <1> QED BY <1>9, <1>10, StillOpen

\* CloseBlock: what was left of the block is left of the block around it; with the class
\* closed, the parser's result is what Ruby has collected.
LEMMA CloseStep ==
    ASSUME TapInv, TextInv, CloseBlock, ~odd'
    PROVE  TextInv'
  <1> DEFINE n == Len(open)
             kind == IF Within("doc") THEN "eos" ELSE "end"
  <1>1. AddLine(kind, TRUE) /\ open' = Front(open) /\ UNCHANGED <<meaning, odd>> /\ kind \in LineKinds
    BY DEF CloseBlock, LineKinds
  <1>2. parsed = NoParse /\ open # <<>> /\ UNCHANGED <<dialect, parsed>> /\ ~odd
    BY <1>1 DEF AddLine
  <1>3. TextOpen /\ OpenFits(dialect, open)
    BY <1>2, NotOddBefore
  <1>4. /\ Within("doc") <=> open[n].is = "doc"
        /\ n \in Nat \ {0} /\ DOMAIN open = 1..n
    BY <1>2, <1>3, WithinIs
  <1>5. PICK l \in Lines : text' = Append(text, l) /\ l.is = kind /\ l.here = TRUE /\ l.at = Len(text) + 1
    <2>1. Len(text) \in Nat /\ MaxTapLines \in Nat /\ Len(text) + n <= MaxTapLines
      BY TapSourceAssumption DEF TapSourceAssumption, TapInv
    <2>2. Len(text) + 1 <= MaxTapLines
      BY <1>4, <2>1
    <2> HIDE DEF kind
    <2> QED BY <1>1, <2>2, LineIs
  <1>6. l.is = (IF open[n].is = "doc" THEN "eos" ELSE "end")
    BY <1>4, <1>5
  <1>7. text \in Seq(Lines) /\ open \in Seq(Blocks) /\ dialect \in {"formula", "cask"} /\ meaning \in Facts
    BY DialectIs DEF TapInv
  <1> HIDE DEF n, kind
  <1>8. CASE n = 1
    <2>1. l.is = "end"
      BY <1>2, <1>3, <1>6, <1>8 DEF OpenFits
    <2>2. Parsed(dialect, Append(text, l)) = meaning
      <3>1. Len(open) = 1 /\ open # <<>> /\ Agrees(dialect, text, open, meaning)
        BY <1>3, <1>8 DEF n, TextOpen
      <3> QED BY <1>7, <2>1, <3>1, ClassCloses
    <2>3. open' = <<>>
      <3>1. 1 - 1 = 0
        OBVIOUS
      <3> QED BY <1>1, <1>7, <1>8, <3>1 DEF Front, n
    <2>4. Parsed(dialect', text') = meaning' /\ parsed' = NoParse
      BY <1>1, <1>2, <1>5, <2>2
    <2> QED BY <2>3, <2>4 DEF TextInv, TapSourceMeansRuby
  <1>9. CASE n # 1
    <2>1. n >= 2 /\ n - 1 \in Nat /\ n - 1 # 0
      BY <1>4, <1>9
    <2>2. open' \in Seq(Blocks) /\ Len(open') = n - 1
      <3>1. \A i \in 1..(n - 1) : open[i] \in Blocks
        BY <1>4, <1>7
      <3>2. n - 1 \in Int /\ (IF 1 <= n - 1 THEN (n - 1) - 1 + 1 ELSE 0) = n - 1
        BY <2>1
      <3>3. SubSeq(open, 1, n - 1) \in Seq(Blocks) /\ Len(SubSeq(open, 1, n - 1)) = n - 1
        BY <3>1, <3>2, SubSeqProperties
      <3> QED BY <1>1, <3>3 DEF Front, n
    <2>3. \A k \in 1..(n - 1) : open'[k] = open[k]
      BY <1>1, <2>1 DEF Front, n
    <2>4. Closes(open, open', l)
      BY <1>6, <2>1, <2>2, <2>3 DEF Closes, n
    <2>5. Agrees(dialect, Append(text, l), open', meaning)
      <3>1. open # <<>> /\ Agrees(dialect, text, open, meaning)
        BY <1>3 DEF TextOpen
      <3> QED BY <1>7, <2>2, <2>4, <3>1, CloseKeeps
    <2>6. Agrees(dialect', text', open', meaning')
      BY <1>1, <1>2, <1>5, <2>5
    <2>7. parsed' = NoParse /\ open' # <<>>
      BY <1>2, <2>1, <2>2
    <2> QED BY <2>6, <2>7, StillOpen
  <1> QED BY <1>8, <1>9

\* ReadTap: the text is complete.
LEMMA ReadStep ==
    ASSUME TapInv, TextInv, ReadTap
    PROVE  TextInv'
  <1>1. /\ open = <<>> /\ parsed = NoParse /\ parsed' = Parsed(dialect, text)
        /\ UNCHANGED <<dialect, text, open, meaning, odd>>
    BY DEF ReadTap
  <1>2. ~odd' => parsed' = meaning'
    BY <1>1 DEF TextInv
  <1>3. parsed' = NoParse => Parsed(dialect', text') = parsed'
    BY <1>1
  <1> QED BY <1>1, <1>2 DEF TextInv, TapSourceMeansRuby

\* The first line of a text.
LEMMA TextInitInv == TapSourceInit => TextInv
  <1> SUFFICES ASSUME TapSourceInit PROVE TextInv
    OBVIOUS
  <1> DEFINE l == [is |-> "class", here |-> TRUE, at |-> 1]
             b == [is |-> "class", at |-> 1, live |-> TRUE, taken |-> TRUE]
  <1>1. 1 \in 1..MaxTapLines
    BY TapSourceAssumption DEF TapSourceAssumption
  <1>2. l \in Lines /\ b \in Blocks
    BY <1>1 DEF Lines, LineKinds, Blocks, Openers
  <1>3. text = <<l>> /\ open = <<b>> /\ meaning = NoFacts /\ parsed = NoParse
    BY DEF TapSourceInit
  <1>4. ClassOpened(text, open, l, b)
    BY <1>3 DEF ClassOpened
  <1> HIDE DEF l, b
  <1>5. Agrees(dialect, text, open, meaning)
    BY <1>2, <1>3, <1>4, ClassOpens
  <1>6. open # <<>>
    BY <1>3
  <1> QED BY <1>3, <1>5, <1>6 DEF TextInv, TapSourceMeansRuby

\* Every step keeps the text read as Ruby reads it.
LEMMA TextNextInv == TapInv /\ TextInv /\ [TapSourceNext]_tapVars => TextInv'
  <1> SUFFICES ASSUME TapInv, TextInv, [TapSourceNext]_tapVars PROVE TextInv'
    OBVIOUS
  <1>1. CASE UNCHANGED tapVars
    BY <1>1 DEF tapVars, TextInv, TapSourceMeansRuby
  <1>2. CASE ReadTap
    BY <1>2, ReadStep
  <1>3. CASE odd' /\ ~ReadTap /\ ~UNCHANGED tapVars
    BY <1>3 DEF TextInv, TapSourceMeansRuby
  <1>4. CASE ~odd'
    BY <1>1, <1>2, <1>4, StanzaStep, OpenStep, BranchStep, DocStep, ProseStep, CloseStep DEF TapSourceNext
  <1> QED BY <1>1, <1>2, <1>3, <1>4

-----------------------------------------------------------------------------
(* The specification.                                                      *)

\* What the parser makes of a text are numbers of its lines, and a text that grows always
\* has room for the ends of its blocks: tap_formula.rs, cask.rs.
THEOREM TapTypeCorrect == TapSourceSpec => []TapSourceTypeOK
  <1> QED BY TapInitInv, TapNextInv, TapInvTypes, PTL DEF TapSourceSpec

\* The parser of tap_formula.rs and cask.rs, that counts the words blocks open and end
\* with, collects from any text without odd lines what Ruby collects on this machine.
THEOREM TapSourceCorrect == TapSourceSpec => []TapSourceMeansRuby
  <1>1. TextInv => TapSourceMeansRuby
    BY DEF TextInv
  <1> QED BY <1>1, TapInitInv, TapNextInv, TextInitInv, TextNextInv, PTL DEF TapSourceSpec
=============================================================================
