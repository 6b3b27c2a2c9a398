-------------------------- MODULE TapText_proofs --------------------------
(***************************************************************************)
(* Lemmas about the parser of TapSource, for texts of any length: what the *)
(* depth of lines, the passes over platform blocks and conditionals, the   *)
(* here-documents and the lines of a kind are when texts are put together  *)
(* and when lines are put in a block; what the lines of a block leave, and *)
(* what the parser makes of a class.                                       *)
(*                                                                         *)
(* The passes are recursive functions of the number of lines.  Steps and   *)
(* Iterates state what such a recursion is, and keeps, for one step given  *)
(* as a function; every induction is an instance of them, or of            *)
(* AllNaturals.                                                            *)
(***************************************************************************)
EXTENDS TapSource, FiniteSetTheorems, SequenceTheorems,
        NaturalsInduction, WellFoundedInduction, TLAPS

-----------------------------------------------------------------------------
(* Least elements, and induction.                                          *)

LEMMA LeastNatural ==
    ASSUME NEW S, S \subseteq Nat, S # {}
    PROVE  \E x \in S : \A y \in S : x <= y
  <1> DEFINE Less == {p \in Nat \X Nat : p[1] < p[2]}
  <1>1. IsWellFoundedOn(Less, Nat)
    BY NatLessThanWellFounded DEF OpToRel
  <1> HIDE DEF Less
  <1>2. PICK x \in S : \A y \in S : ~(<<y, x>> \in Less)
    BY <1>1, WFMin, Zenon
  <1>3. \A y \in S : ~(y < x)
    BY <1>2 DEF Less
  <1> QED BY <1>3

LEMMA AllNaturals ==
    ASSUME NEW S, S \subseteq Nat, 0 \in S, \A i \in S : i + 1 \in S
    PROVE  S = Nat
  <1> SUFFICES ASSUME Nat \ S # {} PROVE FALSE
    OBVIOUS
  <1>1. PICK x \in Nat \ S : \A y \in Nat \ S : x <= y
    BY LeastNatural
  <1>2. x # 0 /\ x - 1 \in Nat /\ (x - 1) + 1 = x
    BY <1>1
  <1>3. x - 1 \in S
    BY <1>1, <1>2
  <1> QED BY <1>1, <1>2, <1>3

-----------------------------------------------------------------------------
(* Iteration.  A function that is defined from its value one step before   *)
(* exists, and keeps what each step keeps.                                 *)

Steps(f, b, G, N) == f[0] = b /\ \A n \in 1..N : f[n] = G[n][f[n - 1]]

LEMMA Iterates ==
    ASSUME NEW D, NEW b \in D, NEW G \in [Nat -> [D -> D]], NEW N \in Nat
    PROVE  \E f \in [0..N -> D] : Steps(f, b, G, N)
  <1> DEFINE S == {m \in Nat :
              \E f \in [0..m -> D] : \A n \in 0..m : f[n] = IF n = 0 THEN b ELSE G[n][f[n - 1]]}
  <1>1. 0 \in S
    <2> DEFINE f == [n \in 0..0 |-> b]
    <2>1. f \in [0..0 -> D] /\ \A n \in 0..0 : f[n] = IF n = 0 THEN b ELSE G[n][f[n - 1]]
      OBVIOUS
    <2> QED BY <2>1
  <1>2. ASSUME NEW m \in S PROVE m + 1 \in S
    <2>1. m \in Nat
      OBVIOUS
    <2>2. PICK f \in [0..m -> D] : \A n \in 0..m : f[n] = IF n = 0 THEN b ELSE G[n][f[n - 1]]
      OBVIOUS
    <2> DEFINE g == [n \in 0..(m + 1) |-> IF n = m + 1 THEN G[m + 1][f[m]] ELSE f[n]]
    <2>3. g \in [0..(m + 1) -> D]
      <3>1. m \in 0..m /\ f[m] \in D /\ \A n \in 0..(m + 1) : n # m + 1 => n \in 0..m
        BY <2>1
      <3> QED BY <3>1
    <2>4. ASSUME NEW n \in 0..(m + 1) PROVE g[n] = IF n = 0 THEN b ELSE G[n][g[n - 1]]
      <3>1. CASE n = m + 1
        <4>1. n # 0 /\ n - 1 = m /\ m \in 0..(m + 1) /\ m # m + 1
          BY <2>1, <3>1
        <4>2. g[n] = G[n][f[m]] /\ g[m] = f[m]
          BY <3>1, <4>1
        <4> HIDE DEF g
        <4> QED BY <4>1, <4>2
      <3>2. CASE n # m + 1
        <4>1. n \in 0..m /\ (n # 0 => n - 1 \in 0..(m + 1) /\ n - 1 # m + 1)
          BY <2>1, <3>2
        <4>2. g[n] = f[n] /\ (n # 0 => g[n - 1] = f[n - 1])
          BY <3>2, <4>1
        <4>3. f[n] = IF n = 0 THEN b ELSE G[n][f[n - 1]]
          BY <2>2, <4>1
        <4> HIDE DEF g
        <4> QED BY <4>2, <4>3
      <3> QED BY <3>1, <3>2
    <2> HIDE DEF g
    <2> QED BY <2>1, <2>3, <2>4
  <1>3. S = Nat
    <2> HIDE DEF S
    <2>1. S \subseteq Nat
      BY DEF S
    <2> QED BY <1>1, <1>2, <2>1, AllNaturals
  <1>4. PICK f \in [0..N -> D] : \A n \in 0..N : f[n] = IF n = 0 THEN b ELSE G[n][f[n - 1]]
    BY <1>3
  <1>5. f[0] = b /\ \A n \in 1..N : f[n] = G[n][f[n - 1]]
    <2>1. 0 \in 0..N /\ \A n \in 1..N : n \in 0..N /\ n # 0
      OBVIOUS
    <2> QED BY <1>4, <2>1
  <1> QED BY <1>5 DEF Steps

LEMMA Stays ==
    ASSUME NEW D, NEW N \in Nat, NEW c, c[0] \in D,
           \A n \in 1..N : c[n - 1] \in D => c[n] \in D
    PROVE  \A n \in 0..N : c[n] \in D
  <1> DEFINE T == {m \in Nat : m \in 0..N => c[m] \in D}
  <1>1. 0 \in T
    OBVIOUS
  <1>2. ASSUME NEW m \in T PROVE m + 1 \in T
    <2> SUFFICES ASSUME m + 1 \in 0..N PROVE c[m + 1] \in D
      OBVIOUS
    <2>1. m \in 0..N /\ m + 1 \in 1..N /\ (m + 1) - 1 = m
      OBVIOUS
    <2> QED BY <2>1
  <1>3. T = Nat
    <2> HIDE DEF T
    <2>1. T \subseteq Nat
      BY DEF T
    <2> QED BY <1>1, <1>2, <2>1, AllNaturals
  <1> QED BY <1>3

-----------------------------------------------------------------------------
(* The texts of taps: parts of a text are texts.                           *)

\* The first of a set of numbers is one of them.
LEMMA FirstIsOneOf ==
    ASSUME NEW S, S \subseteq Nat, NEW none
    PROVE  FirstOf(S, none) \in S \cup {none}
  <1>1. CASE S = {}
    BY <1>1 DEF FirstOf
  <1>2. CASE S # {}
    <2>1. \E i \in S : \A j \in S : i <= j
      BY <1>2, LeastNatural
    <2>2. Min(S) \in S
      BY <2>1, Zenon DEF Min
    <2> QED BY <1>2, <2>2 DEF FirstOf
  <1> QED BY <1>1, <1>2

\* A part of a text is a text.
LEMMA CutIsText ==
    ASSUME NEW ls \in Seq(Lines), NEW a \in Nat \ {0}, NEW b \in Int
    PROVE  /\ Cut(ls, a, b) \in Seq(Lines)
           /\ a >= 2 /\ ls # <<>> => Len(Cut(ls, a, b)) < Len(ls)
  <1> DEFINE c == IF b < Len(ls) THEN b ELSE Len(ls)
  <1>1. c \in Int /\ c <= Len(ls) /\ a \in Int
    OBVIOUS
  <1>2. \A i \in a..c : ls[i] \in Lines
    BY <1>1
  <1> HIDE DEF c
  <1>3. /\ SubSeq(ls, a, c) \in Seq(Lines)
        /\ Len(SubSeq(ls, a, c)) = IF a <= c THEN c - a + 1 ELSE 0
    BY <1>1, <1>2, SubSeqProperties
  <1>4. ls # <<>> => Len(ls) \in Nat \ {0}
    OBVIOUS
  <1>5. Cut(ls, a, b) = SubSeq(ls, a, c)
    BY DEF Cut, c
  <1>6. a >= 2 /\ ls # <<>> => Len(SubSeq(ls, a, c)) < Len(ls)
    BY <1>1, <1>3, <1>4
  <1> QED BY <1>3, <1>5, <1>6

LEMMA EndIsThere ==
    ASSUME NEW ls \in Seq(Lines)
    PROVE  /\ MatchingEnd(ls) \in Nat \ {0}
           /\ MatchingEnd(ls) <= Len(ls) + 1
           /\ ls # <<>> => MatchingEnd(ls) >= 2
  <1> DEFINE S == {i \in 2..Len(ls) : ls[i].is = "end" /\ Depth(Cut(ls, 2, i), 1) = 0}
  <1>1. S \subseteq 2..Len(ls) /\ Len(ls) \in Nat /\ (ls # <<>> => Len(ls) # 0)
    OBVIOUS
  <1>2. MatchingEnd(ls) = FirstOf(S, Len(ls) + 1)
    BY DEF MatchingEnd
  <1> HIDE DEF S
  <1>3. S \subseteq Nat
    BY <1>1
  <1>4. MatchingEnd(ls) \in S \cup {Len(ls) + 1}
    BY <1>2, <1>3, FirstIsOneOf
  <1> DEFINE e == MatchingEnd(ls)
  <1>5. e \in S \/ e = Len(ls) + 1
    BY <1>4
  <1> HIDE DEF e
  <1>6. e \in Nat \ {0} /\ e <= Len(ls) + 1 /\ (Len(ls) # 0 => e >= 2)
    <2>1. CASE e \in S
      <3>1. e \in 2..Len(ls) /\ Len(ls) \in Nat
        BY <1>1, <2>1
      <3> QED BY <3>1
    <2>2. CASE e = Len(ls) + 1
      BY <1>1, <2>2
    <2> QED BY <1>5, <2>1, <2>2
  <1> QED BY <1>1, <1>6 DEF e

\* What is within the first block of a text, and what comes after it, are texts.
LEMMA InnerAndBeyond ==
    ASSUME NEW ls \in Seq(Lines)
    PROVE  /\ Inner(ls) \in Seq(Lines) /\ Beyond(ls) \in Seq(Lines)
           /\ ls # <<>> => Len(Inner(ls)) < Len(ls) /\ Len(Beyond(ls)) < Len(ls)
  <1> DEFINE e == MatchingEnd(ls)
  <1>1. e \in Nat \ {0} /\ e - 1 \in Int /\ e + 1 \in Nat \ {0} /\ e + 1 >= 2
        /\ Len(ls) \in Int /\ 2 \in Nat \ {0} /\ 2 >= 2
    BY EndIsThere
  <1> HIDE DEF e
  <1> QED BY <1>1, CutIsText DEF Inner, Beyond, e

\* A text is its first line and the rest.
LEMMA FirstAndRest ==
    ASSUME NEW ls \in Seq(Lines), ls # <<>>
    PROVE  /\ Tail(ls) \in Seq(Lines) /\ Len(Tail(ls)) < Len(ls)
           /\ \A t \in Seq(Lines) : <<ls[1]>> \o t \in Seq(Lines)
  <1>1. ls[1] \in Lines /\ Tail(ls) \in Seq(Lines) /\ Len(Tail(ls)) < Len(ls)
    OBVIOUS
  <1>2. <<ls[1]>> \in Seq(Lines)
    BY <1>1
  <1> QED BY <1>1, <1>2

-----------------------------------------------------------------------------
(* The passes over a text are functions from texts to texts.               *)

Passes == [Seq(Lines) -> Seq(Lines)]
NoPass == [ls \in Seq(Lines) |-> <<>>]

UnwrapStep(f) ==
    [ls \in Seq(Lines) |->
        IF ls = <<>> THEN <<>>
        ELSE IF ls[1].is = "on" THEN f[Inner(ls)] \o f[Beyond(ls)]
        ELSE <<ls[1]>> \o f[Tail(ls)]]

LEMMA UnwrapStepIsPass ==
    ASSUME NEW f \in Passes
    PROVE  UnwrapStep(f) \in Passes
  <1> SUFFICES ASSUME NEW ls \in Seq(Lines) PROVE UnwrapStep(f)[ls] \in Seq(Lines)
    BY DEF UnwrapStep, Passes
  <1>1. \A t \in Seq(Lines) : f[t] \in Seq(Lines)
    BY DEF Passes
  <1>2. f[Inner(ls)] \o f[Beyond(ls)] \in Seq(Lines)
    BY <1>1, InnerAndBeyond
  <1>3. ls # <<>> => <<ls[1]>> \o f[Tail(ls)] \in Seq(Lines)
    BY <1>1, FirstAndRest
  <1>4. <<>> \in Seq(Lines)
    OBVIOUS
  <1> QED BY <1>2, <1>3, <1>4 DEF UnwrapStep

LEMMA UnwrapPasses ==
    ASSUME NEW lines \in Seq(Lines)
    PROVE  \E c \in [0..Len(lines) -> Passes] :
              /\ c[0] = NoPass
              /\ \A n \in 1..Len(lines) : c[n] = UnwrapStep(c[n - 1])
              /\ UnwrapOn(lines) = c[Len(lines)][lines]
  <1> DEFINE N == Len(lines)
             Level(f, n) == IF n = 0 THEN NoPass ELSE UnwrapStep(f[n - 1])
             Solves(f) == f = [n \in 0..N |-> Level(f, n)]
             c == CHOOSE f : Solves(f)
             G == [n \in Nat |-> [f \in Passes |-> UnwrapStep(f)]]
  <1>1. N \in Nat /\ NoPass \in Passes
    BY DEF NoPass, Passes
  <1>2. G \in [Nat -> [Passes -> Passes]]
    BY UnwrapStepIsPass
  <1>3. PICK h \in [0..N -> Passes] : Steps(h, NoPass, G, N)
    <2> HIDE DEF G, N
    <2> QED BY <1>1, <1>2, Iterates
  <1>4. Solves(h)
    <2>1. ASSUME NEW n \in 0..N PROVE h[n] = Level(h, n)
      <3>1. CASE n = 0
        BY <1>3, <3>1 DEF Steps
      <3>2. CASE n # 0
        <4>1. n \in 1..N /\ n \in Nat /\ n - 1 \in 0..N
          BY <1>1, <3>2
        <4>2. h[n - 1] \in Passes
          BY <1>3, <4>1
        <4>3. h[n] = G[n][h[n - 1]]
          BY <1>3, <4>1 DEF Steps
        <4> QED BY <3>2, <4>1, <4>2, <4>3
      <3> QED BY <3>1, <3>2
    <2>2. h = [n \in 0..N |-> h[n]]
      BY <1>3
    <2> HIDE DEF Level, N
    <2> QED BY <2>1, <2>2
  <1>5. Solves(c)
    <2> HIDE DEF Solves
    <2> QED BY <1>4
  <1>6. UnwrapOn(lines) = c[N][lines]
    <2>1. \A f, n : Level(f, n) =
             [ls \in Seq(Lines) |->
                IF n = 0 \/ ls = <<>> THEN <<>>
                ELSE IF ls[1].is = "on"
                THEN f[n - 1][Inner(ls)] \o f[n - 1][Beyond(ls)]
                ELSE <<ls[1]>> \o f[n - 1][Tail(ls)]]
      BY DEF NoPass, UnwrapStep
    <2> HIDE DEF Level
    <2>2. c = CHOOSE f : f = [n \in 0..N |->
             [ls \in Seq(Lines) |->
                IF n = 0 \/ ls = <<>> THEN <<>>
                ELSE IF ls[1].is = "on"
                THEN f[n - 1][Inner(ls)] \o f[n - 1][Beyond(ls)]
                ELSE <<ls[1]>> \o f[n - 1][Tail(ls)]]]
      BY <2>1
    <2> HIDE DEF c
    <2> QED BY <2>2 DEF UnwrapOn
  <1>7. \A n \in 0..N : c[n] = Level(c, n)
    <2> HIDE DEF c, Level
    <2> QED BY <1>5
  <1>8. \A n \in 0..N : c[n] \in Passes
    <2>1. c[0] \in Passes
      BY <1>1, <1>7
    <2>2. ASSUME NEW n \in 1..N, c[n - 1] \in Passes PROVE c[n] \in Passes
      <3>1. n \in 0..N /\ n # 0
        BY <1>1
      <3>2. c[n] = UnwrapStep(c[n - 1])
        BY <1>7, <3>1
      <3> QED BY <2>2, <3>2, UnwrapStepIsPass
    <2> HIDE DEF c, N
    <2> QED BY <1>1, <2>1, <2>2, Stays
  <1>9. c \in [0..N -> Passes]
    <2>1. c = [n \in 0..N |-> c[n]]
      BY <1>5
    <2> HIDE DEF c, N
    <2> QED BY <1>8, <2>1
  <1>10. c[0] = NoPass /\ \A n \in 1..N : c[n] = UnwrapStep(c[n - 1])
    <2>1. 0 \in 0..N /\ \A n \in 1..N : n \in 0..N /\ n # 0
      BY <1>1
    <2> QED BY <1>7, <2>1
  <1> HIDE DEF c
  <1> QED BY <1>6, <1>9, <1>10

\* What unwrapping leaves is a text: unwrap_on_blocks.
LEMMA UnwrapIsText ==
    ASSUME NEW ls \in Seq(Lines)
    PROVE  UnwrapOn(ls) \in Seq(Lines)
  <1>1. PICK c \in [0..Len(ls) -> Passes] : UnwrapOn(ls) = c[Len(ls)][ls]
    BY UnwrapPasses
  <1>2. c[Len(ls)] \in Passes
    BY <1>1
  <1> QED BY <1>1, <1>2 DEF Passes

-----------------------------------------------------------------------------
(* The platform blocks of a text.                                           *)

OnStep(f) ==
    [ls \in Seq(Lines) |->
        IF ls = <<>> THEN <<>>
        ELSE IF ls[1].is = "bottle"
        THEN <<ls[1]>> \o UnwrapOn(Inner(ls)) \o Cut(ls, MatchingEnd(ls), MatchingEnd(ls))
                       \o f[Beyond(ls)]
        ELSE IF ls[1].is = "on"
        THEN (IF ls[1].here THEN f[Inner(ls)] ELSE <<>>)
             \o f[Beyond(ls)]
        ELSE <<ls[1]>> \o f[Tail(ls)]]

LEMMA OnStepIsPass ==
    ASSUME NEW f \in Passes
    PROVE  OnStep(f) \in Passes
  <1> SUFFICES ASSUME NEW ls \in Seq(Lines) PROVE OnStep(f)[ls] \in Seq(Lines)
    BY DEF OnStep, Passes
  <1>1. \A t \in Seq(Lines) : f[t] \in Seq(Lines)
    BY DEF Passes
  <1> DEFINE in == UnwrapOn(Inner(ls))
             end == Cut(ls, MatchingEnd(ls), MatchingEnd(ls))
             rest == f[Beyond(ls)]
             kept == IF ls[1].here THEN f[Inner(ls)] ELSE <<>>
             bottle == <<ls[1]>> \o in \o end \o rest
  <1>2. in \in Seq(Lines) /\ end \in Seq(Lines) /\ rest \in Seq(Lines)
    <2>1. MatchingEnd(ls) \in Nat \ {0} /\ MatchingEnd(ls) \in Int
      BY EndIsThere
    <2> QED BY <1>1, <2>1, CutIsText, InnerAndBeyond, UnwrapIsText
  <1>3. kept \in Seq(Lines) /\ <<>> \in Seq(Lines)
    BY <1>1, InnerAndBeyond
  <1>4. ls # <<>> => bottle \in Seq(Lines)
    <2> SUFFICES ASSUME ls # <<>> PROVE bottle \in Seq(Lines)
      OBVIOUS
    <2> HIDE DEF in, end, rest
    <2>1. <<ls[1]>> \o in \in Seq(Lines)
      BY <1>2, FirstAndRest
    <2> QED BY <1>2, <2>1
  <1>5. ls # <<>> => <<ls[1]>> \o f[Tail(ls)] \in Seq(Lines)
    BY <1>1, FirstAndRest
  <1>6. kept \o rest \in Seq(Lines)
    <2> HIDE DEF kept, rest
    <2> QED BY <1>2, <1>3
  <1>7. OnStep(f)[ls] = IF ls = <<>> THEN <<>>
                        ELSE IF ls[1].is = "bottle" THEN bottle
                        ELSE IF ls[1].is = "on" THEN kept \o rest
                        ELSE <<ls[1]>> \o f[Tail(ls)]
    BY DEF OnStep
  <1> HIDE DEF bottle, kept, rest
  <1> QED BY <1>3, <1>4, <1>5, <1>6, <1>7

LEMMA OnPasses ==
    ASSUME NEW lines \in Seq(Lines)
    PROVE  \E c \in [0..Len(lines) -> Passes] :
              /\ c[0] = NoPass
              /\ \A n \in 1..Len(lines) : c[n] = OnStep(c[n - 1])
              /\ ResolveOn(lines) = c[Len(lines)][lines]
  <1> DEFINE N == Len(lines)
             Level(f, n) == IF n = 0 THEN NoPass ELSE OnStep(f[n - 1])
             Solves(f) == f = [n \in 0..N |-> Level(f, n)]
             c == CHOOSE f : Solves(f)
             G == [n \in Nat |-> [f \in Passes |-> OnStep(f)]]
  <1>1. N \in Nat /\ NoPass \in Passes
    BY DEF NoPass, Passes
  <1>2. G \in [Nat -> [Passes -> Passes]]
    BY OnStepIsPass
  <1>3. PICK h \in [0..N -> Passes] : Steps(h, NoPass, G, N)
    <2> HIDE DEF G, N
    <2> QED BY <1>1, <1>2, Iterates
  <1>4. Solves(h)
    <2>1. ASSUME NEW n \in 0..N PROVE h[n] = Level(h, n)
      <3>1. CASE n = 0
        BY <1>3, <3>1 DEF Steps
      <3>2. CASE n # 0
        <4>1. n \in 1..N /\ n \in Nat /\ n - 1 \in 0..N
          BY <1>1, <3>2
        <4>2. h[n - 1] \in Passes
          BY <1>3, <4>1
        <4>3. h[n] = G[n][h[n - 1]]
          BY <1>3, <4>1 DEF Steps
        <4> QED BY <3>2, <4>1, <4>2, <4>3
      <3> QED BY <3>1, <3>2
    <2>2. h = [n \in 0..N |-> h[n]]
      BY <1>3
    <2> HIDE DEF Level, N
    <2> QED BY <2>1, <2>2
  <1>5. Solves(c)
    <2> HIDE DEF Solves
    <2> QED BY <1>4
  <1>6. ResolveOn(lines) = c[N][lines]
    <2>1. \A f, n : Level(f, n) =
             [ls \in Seq(Lines) |->
                IF n = 0 \/ ls = <<>> THEN <<>>
                ELSE IF ls[1].is = "bottle"
                THEN <<ls[1]>> \o UnwrapOn(Inner(ls)) \o Cut(ls, MatchingEnd(ls), MatchingEnd(ls))
                               \o f[n - 1][Beyond(ls)]
                ELSE IF ls[1].is = "on"
                THEN (IF ls[1].here THEN f[n - 1][Inner(ls)] ELSE <<>>)
                     \o f[n - 1][Beyond(ls)]
                ELSE <<ls[1]>> \o f[n - 1][Tail(ls)]]
      <3> SUFFICES ASSUME NEW f, NEW n PROVE Level(f, n) =
             [ls \in Seq(Lines) |->
                IF n = 0 \/ ls = <<>> THEN <<>>
                ELSE IF ls[1].is = "bottle"
                THEN <<ls[1]>> \o UnwrapOn(Inner(ls)) \o Cut(ls, MatchingEnd(ls), MatchingEnd(ls))
                               \o f[n - 1][Beyond(ls)]
                ELSE IF ls[1].is = "on"
                THEN (IF ls[1].here THEN f[n - 1][Inner(ls)] ELSE <<>>)
                     \o f[n - 1][Beyond(ls)]
                ELSE <<ls[1]>> \o f[n - 1][Tail(ls)]]
        OBVIOUS
      <3>1. CASE n = 0
        BY <3>1 DEF NoPass
      <3>2. CASE n # 0
        BY <3>2 DEF OnStep
      <3> QED BY <3>1, <3>2
    <2> HIDE DEF Level
    <2>2. c = CHOOSE f : f = [n \in 0..N |->
             [ls \in Seq(Lines) |->
                IF n = 0 \/ ls = <<>> THEN <<>>
                ELSE IF ls[1].is = "bottle"
                THEN <<ls[1]>> \o UnwrapOn(Inner(ls)) \o Cut(ls, MatchingEnd(ls), MatchingEnd(ls))
                               \o f[n - 1][Beyond(ls)]
                ELSE IF ls[1].is = "on"
                THEN (IF ls[1].here THEN f[n - 1][Inner(ls)] ELSE <<>>)
                     \o f[n - 1][Beyond(ls)]
                ELSE <<ls[1]>> \o f[n - 1][Tail(ls)]]]
      BY <2>1
    <2> HIDE DEF c
    <2> QED BY <2>2 DEF ResolveOn
  <1>7. \A n \in 0..N : c[n] = Level(c, n)
    <2> HIDE DEF c, Level
    <2> QED BY <1>5
  <1>8. \A n \in 0..N : c[n] \in Passes
    <2>1. c[0] \in Passes
      BY <1>1, <1>7
    <2>2. ASSUME NEW n \in 1..N, c[n - 1] \in Passes PROVE c[n] \in Passes
      <3>1. n \in 0..N /\ n # 0
        BY <1>1
      <3>2. c[n] = OnStep(c[n - 1])
        BY <1>7, <3>1
      <3> QED BY <2>2, <3>2, OnStepIsPass
    <2> HIDE DEF c, N
    <2> QED BY <1>1, <2>1, <2>2, Stays
  <1>9. c \in [0..N -> Passes]
    <2>1. c = [n \in 0..N |-> c[n]]
      BY <1>5
    <2> HIDE DEF c, N
    <2> QED BY <1>8, <2>1
  <1>10. c[0] = NoPass /\ \A n \in 1..N : c[n] = OnStep(c[n - 1])
    <2>1. 0 \in 0..N /\ \A n \in 1..N : n \in 0..N /\ n # 0
      BY <1>1
    <2> QED BY <1>7, <2>1
  <1> HIDE DEF c
  <1> QED BY <1>6, <1>9, <1>10

\* What resolving the platform blocks leaves is a text.
LEMMA OnIsText ==
    ASSUME NEW ls \in Seq(Lines)
    PROVE  ResolveOn(ls) \in Seq(Lines)
  <1>1. PICK c \in [0..Len(ls) -> Passes] : ResolveOn(ls) = c[Len(ls)][ls]
    BY OnPasses
  <1>2. c[Len(ls)] \in Passes
    BY <1>1
  <1> QED BY <1>1, <1>2 DEF Passes

-----------------------------------------------------------------------------
(* The conditionals of a text.                                              *)

ArchStep(f) ==
    [ls \in Seq(Lines) |->
        IF ls = <<>> THEN <<>>
        ELSE IF ls[1].is = "if"
        THEN f[BranchKept(ls)] \o f[Beyond(ls)]
        ELSE <<ls[1]>> \o f[Tail(ls)]]

\* The branch that is kept is a text.
LEMMA BranchIsText ==
    ASSUME NEW ls \in Seq(Lines)
    PROVE  /\ BranchKept(ls) \in Seq(Lines)
           /\ ls # <<>> => Len(BranchKept(ls)) < Len(ls)
  <1> DEFINE kept == {i \in Branches(ls) : ls[i].is = "else" \/ ls[i].here}
             after == {i \in Branches(ls) : i > Min(kept)}
             e == FirstOf(after, MatchingEnd(ls))
  <1>1. Branches(ls) \subseteq Nat \ {0} /\ Branches(ls) \subseteq Nat
    <2>1. MatchingEnd(ls) \in Int
      BY EndIsThere
    <2> QED BY <2>1 DEF Branches
  <1>2. CASE kept = {}
    <2>1. BranchKept(ls) = <<>>
      BY <1>2 DEF BranchKept
    <2>2. Len(<<>>) = 0 /\ <<>> \in Seq(Lines) /\ (ls # <<>> => Len(ls) > 0)
      OBVIOUS
    <2> QED BY <2>1, <2>2
  <1>3. CASE kept # {}
    <2>1. Min(kept) \in kept
      <3>1. \E i \in kept : \A j \in kept : i <= j
        BY <1>1, <1>3, LeastNatural
      <3> QED BY <3>1, Zenon DEF Min
    <2>2. Min(kept) + 1 \in Nat \ {0} /\ Min(kept) + 1 >= 2
      BY <1>1, <2>1
    <2>3. e \in Int
      <3>1. after \subseteq Nat
        BY <1>1
      <3> HIDE DEF after
      <3>2. e \in after \cup {MatchingEnd(ls)}
        BY <3>1, FirstIsOneOf
      <3> HIDE DEF e
      <3> QED BY <3>1, <3>2, EndIsThere
    <2>4. BranchKept(ls) = Cut(ls, Min(kept) + 1, e - 1)
      BY <1>3 DEF BranchKept
    <2>5. e - 1 \in Int
      <3> HIDE DEF e
      <3> QED BY <2>3
    <2> HIDE DEF e, kept
    <2> QED BY <2>2, <2>4, <2>5, CutIsText
  <1> QED BY <1>2, <1>3

LEMMA ArchStepIsPass ==
    ASSUME NEW f \in Passes
    PROVE  ArchStep(f) \in Passes
  <1> SUFFICES ASSUME NEW ls \in Seq(Lines) PROVE ArchStep(f)[ls] \in Seq(Lines)
    BY DEF ArchStep, Passes
  <1>1. \A t \in Seq(Lines) : f[t] \in Seq(Lines)
    BY DEF Passes
  <1>2. f[BranchKept(ls)] \o f[Beyond(ls)] \in Seq(Lines)
    BY <1>1, BranchIsText, InnerAndBeyond
  <1>3. ls # <<>> => <<ls[1]>> \o f[Tail(ls)] \in Seq(Lines)
    BY <1>1, FirstAndRest
  <1>4. <<>> \in Seq(Lines)
    OBVIOUS
  <1> QED BY <1>2, <1>3, <1>4 DEF ArchStep

LEMMA ArchPasses ==
    ASSUME NEW lines \in Seq(Lines)
    PROVE  \E c \in [0..Len(lines) -> Passes] :
              /\ c[0] = NoPass
              /\ \A n \in 1..Len(lines) : c[n] = ArchStep(c[n - 1])
              /\ ResolveArch(lines) = c[Len(lines)][lines]
  <1> DEFINE N == Len(lines)
             Level(f, n) == IF n = 0 THEN NoPass ELSE ArchStep(f[n - 1])
             Solves(f) == f = [n \in 0..N |-> Level(f, n)]
             c == CHOOSE f : Solves(f)
             G == [n \in Nat |-> [f \in Passes |-> ArchStep(f)]]
  <1>1. N \in Nat /\ NoPass \in Passes
    BY DEF NoPass, Passes
  <1>2. G \in [Nat -> [Passes -> Passes]]
    BY ArchStepIsPass
  <1>3. PICK h \in [0..N -> Passes] : Steps(h, NoPass, G, N)
    <2> HIDE DEF G, N
    <2> QED BY <1>1, <1>2, Iterates
  <1>4. Solves(h)
    <2>1. ASSUME NEW n \in 0..N PROVE h[n] = Level(h, n)
      <3>1. CASE n = 0
        BY <1>3, <3>1 DEF Steps
      <3>2. CASE n # 0
        <4>1. n \in 1..N /\ n \in Nat /\ n - 1 \in 0..N
          BY <1>1, <3>2
        <4>2. h[n - 1] \in Passes
          BY <1>3, <4>1
        <4>3. h[n] = G[n][h[n - 1]]
          BY <1>3, <4>1 DEF Steps
        <4> QED BY <3>2, <4>1, <4>2, <4>3
      <3> QED BY <3>1, <3>2
    <2>2. h = [n \in 0..N |-> h[n]]
      BY <1>3
    <2> HIDE DEF Level, N
    <2> QED BY <2>1, <2>2
  <1>5. Solves(c)
    <2> HIDE DEF Solves
    <2> QED BY <1>4
  <1>6. ResolveArch(lines) = c[N][lines]
    <2>1. \A f, n : Level(f, n) =
             [ls \in Seq(Lines) |->
                IF n = 0 \/ ls = <<>> THEN <<>>
                ELSE IF ls[1].is = "if"
                THEN f[n - 1][BranchKept(ls)] \o f[n - 1][Beyond(ls)]
                ELSE <<ls[1]>> \o f[n - 1][Tail(ls)]]
      BY DEF NoPass, ArchStep
    <2> HIDE DEF Level
    <2>2. c = CHOOSE f : f = [n \in 0..N |->
             [ls \in Seq(Lines) |->
                IF n = 0 \/ ls = <<>> THEN <<>>
                ELSE IF ls[1].is = "if"
                THEN f[n - 1][BranchKept(ls)] \o f[n - 1][Beyond(ls)]
                ELSE <<ls[1]>> \o f[n - 1][Tail(ls)]]]
      BY <2>1
    <2> HIDE DEF c
    <2> QED BY <2>2 DEF ResolveArch
  <1>7. \A n \in 0..N : c[n] = Level(c, n)
    <2> HIDE DEF c, Level
    <2> QED BY <1>5
  <1>8. \A n \in 0..N : c[n] \in Passes
    <2>1. c[0] \in Passes
      BY <1>1, <1>7
    <2>2. ASSUME NEW n \in 1..N, c[n - 1] \in Passes PROVE c[n] \in Passes
      <3>1. n \in 0..N /\ n # 0
        BY <1>1
      <3>2. c[n] = ArchStep(c[n - 1])
        BY <1>7, <3>1
      <3> QED BY <2>2, <3>2, ArchStepIsPass
    <2> HIDE DEF c, N
    <2> QED BY <1>1, <2>1, <2>2, Stays
  <1>9. c \in [0..N -> Passes]
    <2>1. c = [n \in 0..N |-> c[n]]
      BY <1>5
    <2> HIDE DEF c, N
    <2> QED BY <1>8, <2>1
  <1>10. c[0] = NoPass /\ \A n \in 1..N : c[n] = ArchStep(c[n - 1])
    <2>1. 0 \in 0..N /\ \A n \in 1..N : n \in 0..N /\ n # 0
      BY <1>1
    <2> QED BY <1>7, <2>1
  <1> HIDE DEF c
  <1> QED BY <1>6, <1>9, <1>10

\* What resolving the conditionals leaves is a text.
LEMMA ArchIsText ==
    ASSUME NEW ls \in Seq(Lines)
    PROVE  ResolveArch(ls) \in Seq(Lines)
  <1>1. PICK c \in [0..Len(ls) -> Passes] : ResolveArch(ls) = c[Len(ls)][ls]
    BY ArchPasses
  <1>2. c[Len(ls)] \in Passes
    BY <1>1
  <1> QED BY <1>1, <1>2 DEF Passes

-----------------------------------------------------------------------------
(* What is collected from a text are numbers of its lines.                 *)

LineNumbers == 1..MaxTapLines

\* Lines are collected by their numbers.
LEMMA NumbersOfLines ==
    ASSUME NEW ls \in Seq(Lines), NEW S, S \subseteq DOMAIN ls, NEW kind
    PROVE  /\ NumberedAs(ls, S, kind) \subseteq LineNumbers
           /\ FirstOf(NumberedAs(ls, S, kind), 0) \in 0..MaxTapLines
  <1>1. \A i \in DOMAIN ls : ls[i] \in Lines
    OBVIOUS
  <1>2. NumberedAs(ls, S, kind) \subseteq LineNumbers
    BY <1>1 DEF NumberedAs, Lines, LineNumbers
  <1>3. MaxTapLines \in Nat /\ LineNumbers \subseteq Nat
    BY TapSourceAssumption DEF TapSourceAssumption, LineNumbers
  <1>4. FirstOf(NumberedAs(ls, S, kind), 0) \in NumberedAs(ls, S, kind) \cup {0}
    BY <1>2, <1>3, FirstIsOneOf
  <1> QED BY <1>2, <1>3, <1>4 DEF LineNumbers

LEMMA BodyIsText ==
    ASSUME NEW ls \in Seq(Lines), NEW kind
    PROVE  BodyOf(ls, kind) \in Seq(Lines)
  <1> DEFINE S == {i \in DOMAIN ls : ls[i].is = kind}
             from == FirstOf(S, 0)
             block == Cut(ls, from, Len(ls))
  <1>1. from \in S \cup {0} /\ S \subseteq Nat \ {0} /\ Len(ls) \in Int
    <2>1. S \subseteq Nat \ {0} /\ Len(ls) \in Int
      OBVIOUS
    <2> HIDE DEF S
    <2> QED BY <2>1, FirstIsOneOf
  <1>2. BodyOf(ls, kind) \in {ls, Inner(block)} /\ (from = 0 => BodyOf(ls, kind) = ls)
    BY DEF BodyOf
  <1>3. from # 0 => block \in Seq(Lines)
    <2> HIDE DEF from, S
    <2> QED BY <1>1, CutIsText
  <1> HIDE DEF block, from
  <1> QED BY <1>2, <1>3, InnerAndBeyond

LEMMA BottleIsText ==
    ASSUME NEW ls \in Seq(Lines)
    PROVE  BottleBlock(ls) \in Seq(Lines)
  <1> DEFINE S == {i \in DOMAIN ls : ls[i].is = "bottle"}
  <1>1. S \subseteq Nat \ {0} /\ Len(ls) \in Int
    OBVIOUS
  <1>2. CASE S = {}
    BY <1>2 DEF BottleBlock
  <1>3. CASE S # {}
    <2>1. BottleBlock(ls) = BodyOf(Cut(ls, Min(S), Len(ls)), "bottle")
      BY <1>3 DEF BottleBlock
    <2> HIDE DEF S
    <2>2. \E i \in S : \A j \in S : i <= j
      BY <1>1, <1>3, LeastNatural
    <2>3. Min(S) \in S
      BY <2>2, Zenon DEF Min
    <2>4. Cut(ls, Min(S), Len(ls)) \in Seq(Lines)
      BY <1>1, <2>3, CutIsText
    <2> QED BY <2>1, <2>4, BodyIsText
  <1> QED BY <1>2, <1>3

LEMMA DocsAreText ==
    ASSUME NEW ls \in Seq(Lines)
    PROVE  WithoutDocs(ls) \in Seq(Lines)
  <1> DEFINE quoted == {i \in DOMAIN ls : \E a, b \in DOMAIN ls :
                          /\ a < i /\ i <= b /\ ls[a].is = "doc" /\ ls[b].is = "eos"
                          /\ \A c \in a..(b - 1) : ls[c].is # "eos"}
             u == [i \in DOMAIN ls |-> IF i \in quoted THEN [ls[i] EXCEPT !.is = "eos"] ELSE ls[i]]
  <1>1. WithoutDocs(ls) = u
    BY DEF WithoutDocs
  <1>2. Len(ls) \in Nat /\ DOMAIN ls = 1..Len(ls) /\ \A i \in DOMAIN ls : ls[i] \in Lines
    OBVIOUS
  <1>3. \A l \in Lines : [l EXCEPT !.is = "eos"] \in Lines
    BY DEF Lines, LineKinds
  <1> HIDE DEF quoted
  <1>4. u \in [1..Len(ls) -> Lines]
    BY <1>2, <1>3
  <1> HIDE DEF u
  <1> QED BY <1>1, <1>2, <1>4

\* Whatever the text, the parser returns facts that are numbers of its lines.
LEMMA ParsedIsFacts ==
    ASSUME NEW ls \in Seq(Lines), NEW d
    PROVE  Parsed(d, ls) \in Facts
  <1> DEFINE live == ResolveArch(ResolveOn(ls))
             body == BodyOf(IF d = "cask" THEN WithoutDocs(live) ELSE live, "class")
             bottle == BottleBlock(live)
  <1>1. live \in Seq(Lines)
    BY OnIsText, ArchIsText
  <1> HIDE DEF live
  <1>2. body \in Seq(Lines) /\ bottle \in Seq(Lines)
    BY <1>1, DocsAreText, BodyIsText, BottleIsText
  <1>3. Parsed(d, ls) = [dependencies |-> NumberedAs(body, AtTop(body), "dependency"),
                         url |-> UrlOf(d, live, body), version |-> VersionOf(live),
                         bottle |-> DigestsOf(bottle)]
    BY DEF Parsed, live
  <1> HIDE DEF body, bottle
  <1>4. AtTop(body) \subseteq DOMAIN body
    BY DEF AtTop
  <1>5. NumberedAs(body, AtTop(body), "dependency") \subseteq 1..MaxTapLines
    BY <1>2, <1>4, NumbersOfLines DEF LineNumbers
  <1>6. UrlOf(d, live, body) \in 0..MaxTapLines
    BY <1>1, <1>2, <1>4, NumbersOfLines DEF UrlOf
  <1>7. VersionOf(live) \in 0..MaxTapLines
    BY <1>1, NumbersOfLines DEF VersionOf
  <1>8. DigestsOf(bottle) \subseteq 1..MaxTapLines
    BY <1>2, NumbersOfLines DEF DigestsOf, LineNumbers
  <1> QED BY <1>3, <1>5, <1>6, <1>7, <1>8 DEF Facts

-----------------------------------------------------------------------------
(* Sequences.                                                              *)

\* Two texts put together: their lines, one after the other.
LEMMA JoinParts ==
    \A s, t \in Seq(Lines) :
       /\ s \o t \in Seq(Lines) /\ Len(s \o t) = Len(s) + Len(t)
       /\ Len(s) \in Nat /\ Len(t) \in Nat
       /\ \A i \in 1..Len(s) : (s \o t)[i] = s[i]
       /\ \A i \in 1..Len(t) : (s \o t)[Len(s) + i] = t[i]
  OBVIOUS

\* The lines of a part of a text.
LEMMA CutParts ==
    \A s \in Seq(Lines) : \A a \in Nat \ {0} : \A b \in 0..Len(s) :
       /\ SubSeq(s, a, b) \in Seq(Lines)
       /\ Len(SubSeq(s, a, b)) = IF a <= b THEN b - a + 1 ELSE 0
       /\ \A i \in 1..(b - a + 1) : SubSeq(s, a, b)[i] = s[a + i - 1]
  <1> SUFFICES ASSUME NEW s \in Seq(Lines), NEW a \in Nat \ {0}, NEW b \in 0..Len(s)
               PROVE  /\ SubSeq(s, a, b) \in Seq(Lines)
                      /\ Len(SubSeq(s, a, b)) = IF a <= b THEN b - a + 1 ELSE 0
                      /\ \A i \in 1..(b - a + 1) : SubSeq(s, a, b)[i] = s[a + i - 1]
    OBVIOUS
  <1>1. \A i \in a..b : s[i] \in Lines
    OBVIOUS
  <1>2. a \in Int /\ b \in Int
    OBVIOUS
  <1> QED BY <1>1, <1>2, SubSeqProperties

\* A text of one line.
LEMMA OneLine ==
    ASSUME NEW l \in Lines
    PROVE  /\ <<l>> \in Seq(Lines) /\ Len(<<l>>) = 1 /\ DOMAIN <<l>> = {1} /\ <<l>>[1] = l
           /\ SubSeq(<<l>>, 1, 0) = <<>> /\ SubSeq(<<l>>, 1, 1) = <<l>>
           /\ <<>> \in Seq(Lines) /\ Len(<<>>) = 0 /\ SubSeq(<<>>, 1, 0) = <<>>
  <1>1. <<l>> \in Seq(Lines) /\ Len(<<l>>) = 1 /\ <<l>>[1] = l /\ DOMAIN <<l>> = {1}
    OBVIOUS
  <1>2. SubSeq(<<l>>, 1, 1) = <<l>>
    BY <1>1, SubSeqFull
  <1> QED BY <1>1, <1>2

-----------------------------------------------------------------------------
(* Depth.                                                                  *)

LEMMA DepthIsNatural ==
    ASSUME NEW d \in Nat, NEW l
    PROVE  DepthAfter(d, l) \in Nat
  <1>1. Opens(l) \in {0, 1, 2}
    BY DEF Opens
  <1> QED BY <1>1 DEF DepthAfter

\* The depth after a line is that before it and what the line opens or closes.
LEMMA DepthSteps ==
    ASSUME NEW ls \in Seq(Lines), NEW d \in Nat
    PROVE  \E f \in [0..Len(ls) -> Nat] :
              /\ f[0] = d
              /\ \A n \in 1..Len(ls) : f[n] = DepthAfter(f[n - 1], ls[n])
              /\ Depth(ls, d) = f[Len(ls)]
  <1> DEFINE N == Len(ls)
             Level(f, n) == IF n = 0 THEN d ELSE DepthAfter(f[n - 1], ls[n])
             Solves(f) == f = [n \in 0..N |-> Level(f, n)]
             c == CHOOSE f : Solves(f)
             G == [n \in Nat |-> [x \in Nat |-> DepthAfter(x, ls[n])]]
  <1>1. N \in Nat
    OBVIOUS
  <1>2. G \in [Nat -> [Nat -> Nat]]
    BY DepthIsNatural
  <1>3. PICK h \in [0..N -> Nat] : Steps(h, d, G, N)
    <2> HIDE DEF G, N
    <2> QED BY <1>1, <1>2, Iterates
  <1>4. Solves(h)
    <2>1. ASSUME NEW n \in 0..N PROVE h[n] = Level(h, n)
      <3>1. CASE n = 0
        BY <1>3, <3>1 DEF Steps
      <3>2. CASE n # 0
        <4>1. n \in 1..N /\ n \in Nat /\ n - 1 \in 0..N
          BY <1>1, <3>2
        <4>2. h[n - 1] \in Nat
          BY <1>3, <4>1
        <4>3. h[n] = G[n][h[n - 1]]
          BY <1>3, <4>1 DEF Steps
        <4> QED BY <3>2, <4>1, <4>2, <4>3
      <3> QED BY <3>1, <3>2
    <2>2. h = [n \in 0..N |-> h[n]]
      BY <1>3
    <2> HIDE DEF Level, N
    <2> QED BY <2>1, <2>2
  <1>5. Solves(c)
    <2> HIDE DEF Solves
    <2> QED BY <1>4
  <1>6. Depth(ls, d) = c[N]
    BY DEF Depth
  <1>7. \A n \in 0..N : c[n] = Level(c, n)
    <2> HIDE DEF c, Level
    <2> QED BY <1>5
  <1>8. \A n \in 0..N : c[n] \in Nat
    <2>1. c[0] \in Nat
      BY <1>1, <1>7
    <2>2. ASSUME NEW n \in 1..N, c[n - 1] \in Nat PROVE c[n] \in Nat
      <3>1. n \in 0..N /\ n # 0
        BY <1>1
      <3>2. c[n] = DepthAfter(c[n - 1], ls[n])
        BY <1>7, <3>1
      <3> QED BY <2>2, <3>2, DepthIsNatural
    <2> HIDE DEF c, N
    <2> QED BY <1>1, <2>1, <2>2, Stays
  <1>9. c \in [0..N -> Nat]
    <2>1. c = [n \in 0..N |-> c[n]]
      BY <1>5
    <2> HIDE DEF c, N
    <2> QED BY <1>8, <2>1
  <1>10. c[0] = d /\ \A n \in 1..N : c[n] = DepthAfter(c[n - 1], ls[n])
    <2>1. 0 \in 0..N /\ \A n \in 1..N : n \in 0..N /\ n # 0
      BY <1>1
    <2> QED BY <1>7, <2>1
  <1> HIDE DEF c
  <1> QED BY <1>6, <1>9, <1>10

\* Whatever counts as the lines do is the depth.
LEMMA DepthIs ==
    ASSUME NEW ls \in Seq(Lines), NEW d \in Nat, NEW f, f[0] = d,
           \A n \in 1..Len(ls) : f[n] = DepthAfter(f[n - 1], ls[n])
    PROVE  Depth(ls, d) = f[Len(ls)]
  <1>1. PICK g \in [0..Len(ls) -> Nat] :
              /\ g[0] = d
              /\ \A n \in 1..Len(ls) : g[n] = DepthAfter(g[n - 1], ls[n])
              /\ Depth(ls, d) = g[Len(ls)]
    BY DepthSteps
  <1> DEFINE T == {m \in Nat : m <= Len(ls) => f[m] = g[m]}
  <1>2. 0 \in T
    BY <1>1
  <1>3. ASSUME NEW m \in T PROVE m + 1 \in T
    <2> SUFFICES ASSUME m + 1 <= Len(ls) PROVE f[m + 1] = g[m + 1]
      OBVIOUS
    <2>1. m + 1 \in 1..Len(ls) /\ (m + 1) - 1 = m /\ f[m] = g[m]
      OBVIOUS
    <2> QED BY <1>1, <2>1
  <1>4. T = Nat
    <2> HIDE DEF T
    <2>1. T \subseteq Nat
      BY DEF T
    <2> QED BY <1>2, <1>3, <2>1, AllNaturals
  <1>5. Len(ls) \in T
    BY <1>4
  <1> QED BY <1>1, <1>5

\* The depth of no line, of one line, and of a line and the rest.
LEMMA DepthOfLines ==
    ASSUME NEW d \in Nat
    PROVE  /\ Depth(<<>>, d) = d
           /\ \A l \in Lines : Depth(<<l>>, d) = DepthAfter(d, l)
           /\ \A ls \in Seq(Lines) : Depth(ls, d) \in Nat
  <1>1. Depth(<<>>, d) = d
    <2> DEFINE none == <<>>
               f == [n \in {0} |-> d]
    <2>1. none \in Seq(Lines) /\ Len(none) = 0 /\ f[0] = d
      OBVIOUS
    <2> HIDE DEF f, none
    <2>2. \A n \in 1..Len(none) : f[n] = DepthAfter(f[n - 1], none[n])
      BY <2>1
    <2>3. Depth(none, d) = f[Len(none)]
      BY <2>1, <2>2, DepthIs
    <2> QED BY <2>1, <2>3 DEF none
  <1>2. ASSUME NEW l \in Lines PROVE Depth(<<l>>, d) = DepthAfter(d, l)
    <2> DEFINE ls == <<l>>
               f == [n \in {0, 1} |-> IF n = 0 THEN d ELSE DepthAfter(d, l)]
    <2>1. ls \in Seq(Lines) /\ Len(ls) = 1 /\ ls[1] = l
      OBVIOUS
    <2>2. f[0] = d /\ f[1] = DepthAfter(d, l)
      OBVIOUS
    <2> HIDE DEF f, ls
    <2>3. \A n \in 1..Len(ls) : f[n] = DepthAfter(f[n - 1], ls[n])
      BY <2>1, <2>2
    <2>4. Depth(ls, d) = f[Len(ls)]
      BY <2>1, <2>2, <2>3, DepthIs
    <2> QED BY <2>1, <2>2, <2>4 DEF ls
  <1>3. ASSUME NEW ls \in Seq(Lines) PROVE Depth(ls, d) \in Nat
    <2>1. PICK f \in [0..Len(ls) -> Nat] : Depth(ls, d) = f[Len(ls)]
      BY DepthSteps
    <2> QED BY <2>1
  <1> QED BY <1>1, <1>2, <1>3

\* The depth of two texts is that of the second, from that of the first.
LEMMA DepthOfConcat ==
    ASSUME NEW a \in Seq(Lines), NEW b \in Seq(Lines), NEW d \in Nat
    PROVE  Depth(a \o b, d) = Depth(b, Depth(a, d))
  <1>1. PICK f \in [0..Len(a) -> Nat] :
              /\ f[0] = d
              /\ \A n \in 1..Len(a) : f[n] = DepthAfter(f[n - 1], a[n])
              /\ Depth(a, d) = f[Len(a)]
    BY DepthSteps
  <1>2. Depth(a, d) \in Nat
    BY DepthOfLines
  <1>3. PICK g \in [0..Len(b) -> Nat] :
              /\ g[0] = Depth(a, d)
              /\ \A n \in 1..Len(b) : g[n] = DepthAfter(g[n - 1], b[n])
              /\ Depth(b, Depth(a, d)) = g[Len(b)]
    BY <1>2, DepthSteps
  <1> DEFINE u == a \o b
             h == [n \in 0..Len(u) |-> IF n <= Len(a) THEN f[n] ELSE g[n - Len(a)]]
  <1>4. /\ u \in Seq(Lines) /\ Len(u) = Len(a) + Len(b) /\ Len(a) \in Nat /\ Len(b) \in Nat
        /\ \A n \in 1..Len(a) : u[n] = a[n]
        /\ \A n \in 1..Len(b) : u[Len(a) + n] = b[n]
    OBVIOUS
  <1> HIDE DEF u
  <1>5. h[0] = d
    BY <1>1, <1>4
  <1>6. \A n \in 0..Len(b) : h[Len(a) + n] = g[n]
    <2>1. ASSUME NEW n \in 0..Len(b) PROVE h[Len(a) + n] = g[n]
      <3>1. CASE n = 0
        BY <1>1, <1>3, <1>4, <3>1
      <3>2. CASE n # 0
        <4>1. Len(a) + n \in 0..Len(u) /\ ~(Len(a) + n <= Len(a)) /\ Len(a) + n - Len(a) = n
          BY <1>4, <3>2
        <4> QED BY <4>1
      <3> QED BY <3>1, <3>2
    <2> QED BY <2>1
  <1>7. ASSUME NEW n \in 1..Len(u) PROVE h[n] = DepthAfter(h[n - 1], u[n])
    <2>1. CASE n <= Len(a)
      <3>1. n \in 1..Len(a) /\ n - 1 <= Len(a) /\ n - 1 \in 0..Len(u) /\ n \in 0..Len(u)
        BY <1>4, <2>1
      <3>2. h[n] = f[n] /\ h[n - 1] = f[n - 1]
        BY <2>1, <3>1
      <3> QED BY <1>1, <1>4, <3>1, <3>2
    <2>2. CASE n > Len(a)
      <3> DEFINE m == n - Len(a)
      <3>1. m \in 1..Len(b) /\ m \in 0..Len(b) /\ m - 1 \in 0..Len(b)
            /\ n = Len(a) + m /\ n - 1 = Len(a) + (m - 1)
        BY <1>4, <2>2
      <3> HIDE DEF m
      <3>2. h[n] = g[m] /\ h[n - 1] = g[m - 1]
        BY <1>6, <3>1
      <3>3. u[n] = b[m] /\ g[m] = DepthAfter(g[m - 1], b[m])
        BY <1>3, <1>4, <3>1
      <3> QED BY <3>2, <3>3
    <2> QED BY <1>4, <2>1, <2>2
  <1> HIDE DEF h
  <1>8. Depth(u, d) = h[Len(u)]
    BY <1>4, <1>5, <1>7, DepthIs
  <1>9. h[Len(u)] = g[Len(b)]
    BY <1>4, <1>6
  <1> QED BY <1>3, <1>8, <1>9 DEF u

\* The start of two texts is a start of the first, or the first and a start of the second.
LEMMA PrefixOfConcat ==
    ASSUME NEW a \in Seq(Lines), NEW b \in Seq(Lines), NEW i \in 0..(Len(a) + Len(b))
    PROVE  SubSeq(a \o b, 1, i) = IF i <= Len(a) THEN SubSeq(a, 1, i)
                                  ELSE a \o SubSeq(b, 1, i - Len(a))
  <1>1. CASE i <= Len(a)
    <2>1. SubSeq(a, 1, i) \in Seq(Lines) /\ SubSeq(a \o b, 1, i) \in Seq(Lines)
      BY <1>1
    <2> QED BY <1>1, <2>1, SeqEqual
  <1>2. CASE i > Len(a)
    <2> DEFINE c == SubSeq(b, 1, i - Len(a))
               l == SubSeq(a \o b, 1, i)
    <2>1. c \in Seq(Lines) /\ l \in Seq(Lines) /\ Len(c) = i - Len(a) /\ Len(l) = i
          /\ (\A k \in 1..(i - Len(a)) : c[k] = b[k])
          /\ (\A n \in 1..i : l[n] = (a \o b)[n])
      BY <1>2
    <2> HIDE DEF c, l
    <2>2. a \o c \in Seq(Lines) /\ Len(a \o c) = i
      BY <1>2, <2>1
    <2>3. \A n \in 1..i : l[n] = (a \o c)[n]
      <3>1. ASSUME NEW n \in 1..i PROVE l[n] = (a \o c)[n]
        <4>1. CASE n <= Len(a)
          <5>1. n \in 1..Len(a)
            BY <4>1
          <5> QED BY <2>1, <5>1, JoinParts
        <4>2. CASE n > Len(a)
          <5> DEFINE k == n - Len(a)
          <5>1. k \in 1..Len(b) /\ k \in 1..Len(c) /\ n = Len(a) + k /\ k \in 1..(i - Len(a))
            BY <1>2, <2>1, <4>2
          <5> HIDE DEF k
          <5>2. (a \o b)[n] = b[k]
            BY <5>1, JoinParts
          <5>3. (a \o c)[n] = c[k]
            BY <2>1, <5>1, JoinParts
          <5>4. c[k] = b[k] /\ l[n] = (a \o b)[n]
            BY <2>1, <5>1
          <5> QED BY <5>2, <5>3, <5>4
        <4>3. n <= Len(a) \/ n > Len(a)
          OBVIOUS
        <4> HIDE DEF c, l
        <4> QED BY <4>1, <4>2, <4>3
      <3> QED BY <3>1
    <2>4. l = a \o c
      BY <2>1, <2>2, <2>3, SeqEqual
    <2> QED BY <1>2, <2>4 DEF c, l
  <1> QED BY <1>1, <1>2

-----------------------------------------------------------------------------
(* Lines that open and close as many blocks.                               *)

Bal(ls) ==
    \A d \in Nat : Depth(ls, d) = d /\ \A i \in 0..Len(ls) : Depth(SubSeq(ls, 1, i), d) >= d

\* A line that opens and closes nothing is balanced.
LEMMA BalOfLines ==
    /\ Bal(<<>>)
    /\ \A l \in Lines : l.is # "end" /\ Opens(l) = 0 => Bal(<<l>>)
  <1>1. Bal(<<>>)
    <2>1. \A i \in 0..Len(<<>>) : i = 0
      OBVIOUS
    <2>2. SubSeq(<<>>, 1, 0) = <<>>
      OBVIOUS
    <2>3. \A d \in Nat : Depth(<<>>, d) = d /\ d >= d
      BY DepthOfLines
    <2> DEFINE none == <<>>
    <2>4. SubSeq(none, 1, 0) = none /\ \A i \in 0..Len(none) : i = 0
      BY <2>1, <2>2
    <2>5. \A d \in Nat : Depth(none, d) = d /\ d >= d
      BY <2>3
    <2> HIDE DEF none
    <2>6. Bal(none)
      BY <2>4, <2>5 DEF Bal
    <2> QED BY <2>6 DEF none
  <1>2. ASSUME NEW l \in Lines, l.is # "end", Opens(l) = 0 PROVE Bal(<<l>>)
    <2> DEFINE one == <<l>>
               none == <<>>
    <2>1. \A i \in 0..Len(one) : SubSeq(one, 1, i) = none \/ SubSeq(one, 1, i) = one
      <3>1. \A i \in 0..Len(one) : i = 0 \/ i = 1
        BY OneLine
      <3> QED BY <3>1, OneLine
    <2>2. \A d \in Nat : Depth(one, d) = d /\ Depth(none, d) = d /\ d >= d
      BY <1>2, DepthOfLines DEF DepthAfter
    <2> HIDE DEF one, none
    <2>3. Bal(one)
      BY <2>1, <2>2 DEF Bal
    <2> QED BY <2>3 DEF one
  <1> QED BY <1>1, <1>2

\* Two balanced texts are balanced.
LEMMA BalOfConcat ==
    ASSUME NEW a \in Seq(Lines), NEW b \in Seq(Lines), Bal(a), Bal(b)
    PROVE  Bal(a \o b)
  <1> SUFFICES ASSUME NEW d \in Nat
               PROVE  /\ Depth(a \o b, d) = d
                      /\ \A i \in 0..Len(a \o b) : Depth(SubSeq(a \o b, 1, i), d) >= d
    BY DEF Bal
  <1>1. Depth(a \o b, d) = d
    BY DepthOfConcat DEF Bal
  <1>2. Len(a \o b) = Len(a) + Len(b)
    OBVIOUS
  <1>3. ASSUME NEW i \in 0..(Len(a) + Len(b)) PROVE Depth(SubSeq(a \o b, 1, i), d) >= d
    <2>1. CASE i <= Len(a)
      <3>1. i \in 0..Len(a)
        BY <2>1
      <3> QED BY <2>1, <3>1, PrefixOfConcat DEF Bal
    <2>2. CASE i > Len(a)
      <3>1. i - Len(a) \in 0..Len(b) /\ SubSeq(b, 1, i - Len(a)) \in Seq(Lines)
        BY <2>2
      <3>2. Depth(SubSeq(a \o b, 1, i), d) = Depth(SubSeq(b, 1, i - Len(a)), Depth(a, d))
        <4> DEFINE c == SubSeq(b, 1, i - Len(a))
        <4>1. SubSeq(a \o b, 1, i) = a \o c
          BY <2>2, PrefixOfConcat
        <4>2. c \in Seq(Lines)
          BY <3>1
        <4> HIDE DEF c
        <4>3. Depth(a \o c, d) = Depth(c, Depth(a, d))
          BY <4>2, DepthOfConcat
        <4> QED BY <4>1, <4>3 DEF c
      <3>3. Depth(a, d) = d
        BY DEF Bal
      <3> QED BY <3>1, <3>2, <3>3 DEF Bal
    <2> QED BY <2>1, <2>2
  <1> QED BY <1>1, <1>2, <1>3

\* A block: its first line, what it holds, its end.
IsOpener(l) == l \in Lines /\ Opens(l) = 1 /\ l.is # "end"
IsEnd(l) == l \in Lines /\ l.is = "end"
Block(o, ls, e) == (<<o>> \o ls) \o <<e>>

\* The lines of a block.
LEMMA BlockParts ==
    ASSUME NEW o \in Lines, NEW ls \in Seq(Lines), NEW e \in Lines
    PROVE  /\ Block(o, ls, e) \in Seq(Lines) /\ Len(Block(o, ls, e)) = Len(ls) + 2
           /\ Block(o, ls, e)[1] = o /\ Block(o, ls, e)[Len(ls) + 2] = e
           /\ \A i \in 1..Len(ls) : Block(o, ls, e)[i + 1] = ls[i]
           /\ <<o>> \in Seq(Lines) /\ <<e>> \in Seq(Lines)
           /\ <<o>> \o ls \in Seq(Lines) /\ Len(<<o>> \o ls) = Len(ls) + 1
  <1> DEFINE a == <<o>>
             b == a \o ls
             z == <<e>>
             c == b \o z
  <1>1. a \in Seq(Lines) /\ Len(a) = 1 /\ a[1] = o /\ z \in Seq(Lines) /\ Len(z) = 1 /\ z[1] = e
    OBVIOUS
  <1> HIDE DEF a, z
  <1>2. b \in Seq(Lines) /\ Len(b) = Len(ls) + 1 /\ b[1] = o /\ \A i \in 1..Len(ls) : b[i + 1] = ls[i]
    <2>1. a \o ls \in Seq(Lines) /\ Len(a \o ls) = Len(a) + Len(ls)
          /\ (\A i \in 1..Len(a) : (a \o ls)[i] = a[i])
          /\ \A i \in 1..Len(ls) : (a \o ls)[Len(a) + i] = ls[i]
      BY <1>1, JoinParts
    <2>2. \A i \in 1..Len(ls) : i + 1 = Len(a) + i
      BY <1>1
    <2>3. 1 \in 1..Len(a)
      BY <1>1
    <2> HIDE DEF b
    <2> QED BY <1>1, <2>1, <2>2, <2>3 DEF b
  <1> HIDE DEF b
  <1>3. c \in Seq(Lines) /\ Len(c) = Len(ls) + 2 /\ c[1] = o /\ c[Len(ls) + 2] = e
        /\ \A i \in 1..Len(ls) : c[i + 1] = ls[i]
    <2>1. Len(b) \in Nat /\ Len(z) = 1 /\ 1 \in 1..Len(z) /\ 1 \in 1..Len(b)
          /\ \A i \in 1..Len(ls) : i + 1 \in 1..Len(b)
      BY <1>1, <1>2
    <2>2. c \in Seq(Lines) /\ Len(c) = Len(b) + 1 /\ c[Len(b) + 1] = z[1] /\ \A i \in 1..Len(b) : c[i] = b[i]
      <3>1. c \in Seq(Lines) /\ Len(c) = Len(b) + Len(z)
            /\ (\A i \in 1..Len(b) : c[i] = b[i])
            /\ \A i \in 1..Len(z) : c[Len(b) + i] = z[i]
        BY <1>1, <1>2, JoinParts
      <3> HIDE DEF c
      <3> QED BY <1>1, <2>1, <3>1
    <2> HIDE DEF c
    <2> QED BY <1>1, <1>2, <2>1, <2>2
  <1> QED BY <1>1, <1>2, <1>3 DEF Block, a, b, z

\* A start of a block is its first line and a start of what it holds.
LEMMA BlockPrefix ==
    ASSUME NEW o \in Lines, NEW ls \in Seq(Lines), NEW e \in Lines, NEW i \in 0..(Len(ls) + 2)
    PROVE  SubSeq(Block(o, ls, e), 1, i) =
              IF i = 0 THEN <<>>
              ELSE IF i <= Len(ls) + 1 THEN <<o>> \o SubSeq(ls, 1, i - 1)
              ELSE Block(o, ls, e)
  <1> DEFINE b == <<o>> \o ls
             t == Block(o, ls, e)
  <1>1. /\ t \in Seq(Lines) /\ Len(t) = Len(ls) + 2
        /\ b \in Seq(Lines) /\ Len(b) = Len(ls) + 1 /\ t = b \o <<e>> /\ <<e>> \in Seq(Lines)
        /\ <<o>> \in Seq(Lines) /\ Len(<<o>>) = 1 /\ Len(<<e>>) = 1
    BY BlockParts DEF Block
  <1>2. CASE i = 0
    BY <1>1, <1>2
  <1>3. CASE i # 0 /\ i <= Len(ls) + 1
    <2>1. SubSeq(t, 1, i) = SubSeq(b, 1, i)
      <3> HIDE DEF b, t
      <3> QED BY <1>1, <1>3, PrefixOfConcat
    <2>2. SubSeq(b, 1, i) = IF i <= 1 THEN SubSeq(<<o>>, 1, i) ELSE <<o>> \o SubSeq(ls, 1, i - 1)
      BY <1>1, <1>3, PrefixOfConcat
    <2>3. i <= 1 => SubSeq(<<o>>, 1, i) = <<o>> /\ SubSeq(ls, 1, i - 1) = <<>>
      <3> SUFFICES ASSUME i <= 1 PROVE SubSeq(<<o>>, 1, i) = <<o>> /\ SubSeq(ls, 1, i - 1) = <<>>
        OBVIOUS
      <3>1. i = 1 /\ i - 1 = 0
        BY <1>3
      <3>2. SubSeq(<<o>>, 1, 1) = <<o>>
        BY OneLine
      <3>3. SubSeq(ls, 1, 0) = <<>>
        BY SubSeqEmpty
      <3> QED BY <3>1, <3>2, <3>3
    <2>4. <<o>> \o <<>> = <<o>>
      BY <1>1
    <2> QED BY <1>3, <2>1, <2>2, <2>3, <2>4
  <1>4. CASE i = Len(ls) + 2
    BY <1>1, <1>4, SubSeqFull
  <1> QED BY <1>2, <1>3, <1>4

\* Within a block the depth is one more than that of what it holds.
LEMMA DepthInBlock ==
    ASSUME NEW o, IsOpener(o), NEW ls \in Seq(Lines), Bal(ls), NEW d \in Nat
    PROVE  /\ Depth(<<o>> \o ls, d) = d + 1
           /\ \A i \in 0..Len(ls) : Depth(<<o>> \o SubSeq(ls, 1, i), d) >= d + 1
  <1>1. o \in Lines /\ <<o>> \in Seq(Lines) /\ Depth(<<o>>, d) = d + 1
    BY DepthOfLines DEF IsOpener, DepthAfter
  <1>2. \A c \in Seq(Lines) : Depth(<<o>> \o c, d) = Depth(c, d + 1)
    <2> DEFINE one == <<o>>
    <2>1. one \in Seq(Lines) /\ Depth(one, d) = d + 1
      BY <1>1
    <2> HIDE DEF one
    <2>2. \A c \in Seq(Lines) : Depth(one \o c, d) = Depth(c, d + 1)
      BY <2>1, DepthOfConcat
    <2> QED BY <2>2 DEF one
  <1>3. \A i \in 0..Len(ls) : SubSeq(ls, 1, i) \in Seq(Lines)
    OBVIOUS
  <1>4. d + 1 \in Nat
    OBVIOUS
  <1> QED BY <1>2, <1>3, <1>4 DEF Bal

\* A block that holds a balanced text is balanced.
LEMMA BalOfBlock ==
    ASSUME NEW o, IsOpener(o), NEW e, IsEnd(e), NEW ls \in Seq(Lines), Bal(ls)
    PROVE  Bal(Block(o, ls, e))
  <1> DEFINE t == Block(o, ls, e)
  <1>1. o \in Lines /\ e \in Lines /\ Len(t) = Len(ls) + 2
    BY BlockParts DEF IsOpener, IsEnd
  <1> SUFFICES ASSUME NEW d \in Nat
               PROVE  Depth(t, d) = d /\ \A i \in 0..Len(t) : Depth(SubSeq(t, 1, i), d) >= d
    BY DEF Bal
  <1>2. Depth(t, d) = d
    <2>1. Depth(t, d) = Depth(<<e>>, Depth(<<o>> \o ls, d))
      BY <1>1, BlockParts, DepthOfConcat DEF Block
    <2>2. Depth(<<o>> \o ls, d) = d + 1
      BY DepthInBlock
    <2>3. Depth(<<e>>, d + 1) = d
      BY DepthOfLines DEF IsEnd, DepthAfter
    <2> QED BY <2>1, <2>2, <2>3
  <1>3. ASSUME NEW i \in 0..Len(t) PROVE Depth(SubSeq(t, 1, i), d) >= d
    <2>1. CASE i = 0
      <3>1. 0 \in 0..(Len(ls) + 2)
        OBVIOUS
      <3>2. SubSeq(t, 1, 0) = <<>>
        BY <1>1, <3>1, BlockPrefix
      <3>3. Depth(SubSeq(t, 1, i), d) = d
        BY <2>1, <3>2, DepthOfLines, Zenon
      <3> QED BY <3>3
    <2>2. CASE i # 0 /\ i <= Len(ls) + 1
      <3>1. i - 1 \in 0..Len(ls) /\ i \in 0..(Len(ls) + 2)
        BY <1>1, <2>2
      <3>2. SubSeq(t, 1, i) = <<o>> \o SubSeq(ls, 1, i - 1)
        BY <1>1, <2>2, <3>1, BlockPrefix
      <3>3. Depth(<<o>> \o SubSeq(ls, 1, i - 1), d) >= d + 1 /\ <<o>> \o SubSeq(ls, 1, i - 1) \in Seq(Lines)
        <4>1. SubSeq(ls, 1, i - 1) \in Seq(Lines)
          BY <3>1
        <4> QED BY <1>1, <3>1, <4>1, DepthInBlock, BlockParts
      <3>4. Depth(<<o>> \o SubSeq(ls, 1, i - 1), d) \in Nat
        BY <3>3, DepthOfLines
      <3> DEFINE x == <<o>> \o SubSeq(ls, 1, i - 1)
      <3>5. Depth(x, d) >= d + 1 /\ Depth(x, d) \in Nat /\ SubSeq(t, 1, i) = x
        BY <3>2, <3>3, <3>4
      <3>6. Depth(SubSeq(t, 1, i), d) = Depth(x, d)
        BY <3>5, Zenon
      <3> HIDE DEF t, x
      <3> QED BY <3>5, <3>6
    <2>3. CASE i = Len(ls) + 2
      <3>1. t \in Seq(Lines)
        BY <1>1, BlockParts
      <3>2. SubSeq(t, 1, i) = t
        <4> HIDE DEF t
        <4> QED BY <1>1, <2>3, <3>1, SubSeqFull
      <3>3. Depth(SubSeq(t, 1, i), d) = d
        BY <1>2, <3>2, Zenon
      <3> QED BY <3>3
    <2> QED BY <1>1, <2>1, <2>2, <2>3
  <1> QED BY <1>2, <1>3

-----------------------------------------------------------------------------
(* What a pass makes of a text depends on the text alone, and is what the  *)
(* step of its recursion says.                                             *)

\* A step looks at what the pass makes of shorter texts only.
Local(G) ==
    \A f, g \in Passes : \A ls \in Seq(Lines) :
       (\A s \in Seq(Lines) : Len(s) < Len(ls) => f[s] = g[s]) => G[f][ls] = G[g][ls]


\* The step of a recursion, and its first n rounds.
StepOfPass(G) == G \in [Passes -> Passes] /\ Local(G) /\ \A f \in Passes : G[f][<<>>] = <<>>
Rounds(c, G, n) ==
    n \in Nat /\ c \in [0..n -> Passes] /\ c[0] = NoPass /\ \A i \in 1..n : c[i] = G[c[i - 1]]

LEMMA RoundsOfNothing ==
    ASSUME NEW G, StepOfPass(G), NEW n, NEW c, Rounds(c, G, n), NEW i \in 0..n
    PROVE  /\ c[i][<<>>] = <<>>
           /\ i # 0 => c[i] = G[c[i - 1]] /\ i - 1 \in 0..n /\ c[i - 1] \in Passes
  <1>1. i # 0 => c[i] = G[c[i - 1]] /\ i - 1 \in 0..n /\ c[i - 1] \in Passes
    BY DEF Rounds
  <1>2. CASE i = 0
    <2>1. c[i] = NoPass
      BY <1>2 DEF Rounds
    <2>2. NoPass[<<>>] = <<>>
      BY DEF NoPass
    <2> QED BY <1>2, <2>1, <2>2
  <1>3. CASE i # 0
    BY <1>1, <1>3 DEF StepOfPass
  <1> QED BY <1>1, <1>2, <1>3

\* A text shorter than n is read the same in n rounds and in more.
LEMMA RoundsAgree ==
    ASSUME NEW G, StepOfPass(G), NEW n, NEW c, Rounds(c, G, n), NEW m, NEW d, Rounds(d, G, m)
    PROVE  \A ls \in Seq(Lines) : \A i \in 0..n : \A j \in 0..m :
              Len(ls) <= i /\ Len(ls) <= j => c[i][ls] = d[j][ls]
  <1> DEFINE Agree(ls) == \A i \in 0..n : \A j \in 0..m :
                             Len(ls) <= i /\ Len(ls) <= j => c[i][ls] = d[j][ls]
             T == {k \in Nat : \A ls \in Seq(Lines) : Len(ls) <= k => Agree(ls)}
  <1>1. Agree(<<>>)
    BY RoundsOfNothing
  <1>2. 0 \in T
    <2>1. \A ls \in Seq(Lines) : Len(ls) <= 0 => ls = <<>>
      OBVIOUS
    <2> HIDE DEF Agree
    <2> QED BY <1>1, <2>1
  <1>3. ASSUME NEW k \in T PROVE k + 1 \in T
    <2>1. k \in Nat /\ k + 1 \in Nat /\ \A s \in Seq(Lines) : Len(s) <= k => Agree(s)
      BY DEF T
    <2>2. ASSUME NEW ls \in Seq(Lines), Len(ls) <= k + 1, ls # <<>> PROVE Agree(ls)
      <3> SUFFICES ASSUME NEW i \in 0..n, NEW j \in 0..m, Len(ls) <= i, Len(ls) <= j
                   PROVE  c[i][ls] = d[j][ls]
        OBVIOUS
      <3>1. Len(ls) \in Nat \ {0} /\ i # 0 /\ j # 0 /\ k \in Nat
        BY <2>1, <2>2
      <3>2. c[i] = G[c[i - 1]] /\ i - 1 \in 0..n /\ c[i - 1] \in Passes
        BY <3>1, RoundsOfNothing
      <3>3. d[j] = G[d[j - 1]] /\ j - 1 \in 0..m /\ d[j - 1] \in Passes
        BY <3>1, RoundsOfNothing
      <3>4. ASSUME NEW s \in Seq(Lines), Len(s) < Len(ls) PROVE c[i - 1][s] = d[j - 1][s]
        <4>1. i \in Int /\ j \in Int /\ Len(s) \in Nat
          BY <3>2, <3>3
        <4>2. Len(s) <= k /\ Len(s) <= i - 1 /\ Len(s) <= j - 1
          BY <2>2, <3>1, <3>4, <4>1
        <4>3. Agree(s)
          BY <2>1, <3>4, <4>2
        <4> QED BY <3>2, <3>3, <4>2, <4>3
      <3>5. G[c[i - 1]][ls] = G[d[j - 1]][ls]
        <4> DEFINE f == c[i - 1]
                   g == d[j - 1]
        <4>1. f \in Passes /\ g \in Passes /\ \A s \in Seq(Lines) : Len(s) < Len(ls) => f[s] = g[s]
          BY <3>2, <3>3, <3>4
        <4> HIDE DEF f, g
        <4>2. G[f][ls] = G[g][ls]
          BY <4>1 DEF StepOfPass, Local
        <4> QED BY <4>2 DEF f, g
      <3> QED BY <3>2, <3>3, <3>5
    <2> HIDE DEF Agree
    <2> QED BY <1>1, <2>1, <2>2
  <1>4. T = Nat
    <2>1. T \subseteq Nat
      OBVIOUS
    <2> HIDE DEF T
    <2> QED BY <1>2, <1>3, <2>1, AllNaturals
  <1>5. ASSUME NEW ls \in Seq(Lines) PROVE Agree(ls)
    <2>1. Len(ls) \in Nat /\ Len(ls) <= Len(ls)
      OBVIOUS
    <2>2. Len(ls) \in T
      <3> HIDE DEF T
      <3> QED BY <1>4, <2>1
    <2> HIDE DEF Agree
    <2> QED BY <2>1, <2>2
  <1> QED BY <1>5

\* A pass of as many rounds as the text has lines is one step, and the pass of what is left.
LEMMA PassIsItsStep ==
    ASSUME NEW G, StepOfPass(G), NEW p \in Passes,
           \A ls \in Seq(Lines) : \E c : Rounds(c, G, Len(ls)) /\ p[ls] = c[Len(ls)][ls]
    PROVE  \A ls \in Seq(Lines) : p[ls] = G[p][ls]
  <1> SUFFICES ASSUME NEW ls \in Seq(Lines) PROVE p[ls] = G[p][ls]
    OBVIOUS
  <1> DEFINE n == Len(ls)
  <1>1. PICK c : Rounds(c, G, n) /\ p[ls] = c[n][ls]
    OBVIOUS
  <1>2. n \in Nat /\ n \in 0..n
    OBVIOUS
  <1>3. CASE ls = <<>>
    <2>1. c[n][<<>>] = <<>>
      <3> HIDE DEF n
      <3> QED BY <1>1, <1>2, RoundsOfNothing
    <2>2. G[p][<<>>] = <<>>
      BY DEF StepOfPass
    <2> HIDE DEF n
    <2> QED BY <1>1, <1>3, <2>1, <2>2
  <1>4. CASE ls # <<>>
    <2>1. n # 0 /\ n - 1 \in 0..n
      BY <1>4
    <2>2. c[n] = G[c[n - 1]] /\ c[n - 1] \in Passes
      <3> HIDE DEF n
      <3> QED BY <1>1, <1>2, <2>1, RoundsOfNothing
    <2>3. ASSUME NEW s \in Seq(Lines), Len(s) < n PROVE c[n - 1][s] = p[s]
      <3> DEFINE m == Len(s)
      <3>1. PICK d : Rounds(d, G, m) /\ p[s] = d[m][s]
        OBVIOUS
      <3>2. m \in Nat /\ m <= n - 1 /\ m \in 0..m /\ m <= m
        BY <2>1, <2>3
      <3>3. \A t \in Seq(Lines) : \A i \in 0..n : \A j \in 0..m :
               Len(t) <= i /\ Len(t) <= j => c[i][t] = d[j][t]
        <4> HIDE DEF n, m
        <4> QED BY <1>1, <3>1, RoundsAgree
      <3>4. c[n - 1][s] = d[m][s]
        BY <2>1, <3>2, <3>3
      <3> QED BY <3>1, <3>4
    <2>4. G[c[n - 1]][ls] = G[p][ls]
      <3> DEFINE f == c[n - 1]
      <3>1. f \in Passes /\ \A s \in Seq(Lines) : Len(s) < Len(ls) => f[s] = p[s]
        BY <2>2, <2>3
      <3> HIDE DEF f
      <3>2. G[f][ls] = G[p][ls]
        BY <3>1 DEF StepOfPass, Local
      <3> QED BY <3>2 DEF f
    <2> QED BY <1>1, <2>2, <2>4
  <1> QED BY <1>3, <1>4

\* The step of unwrap_on_blocks.
LEMMA UnwrapSteps ==
    /\ UnwrapOn(<<>>) = <<>>
    /\ \A ls \in Seq(Lines) : ls # <<>> =>
          UnwrapOn(ls) = IF ls[1].is = "on" THEN UnwrapOn(Inner(ls)) \o UnwrapOn(Beyond(ls))
                         ELSE <<ls[1]>> \o UnwrapOn(Tail(ls))
  <1> DEFINE G == [f \in Passes |-> UnwrapStep(f)]
             p == [ls \in Seq(Lines) |-> UnwrapOn(ls)]
  <1>1. G \in [Passes -> Passes] /\ p \in Passes
    BY UnwrapStepIsPass, UnwrapIsText DEF Passes
  <1>2. \A f \in Passes : G[f][<<>>] = <<>>
    <2>1. \A f : UnwrapStep(f)[<<>>] = <<>>
      BY DEF UnwrapStep
    <2> QED BY <2>1
  <1>3. Local(G)
    <2> SUFFICES ASSUME NEW f \in Passes, NEW g \in Passes, NEW ls \in Seq(Lines),
                        \A s \in Seq(Lines) : Len(s) < Len(ls) => f[s] = g[s]
                 PROVE  UnwrapStep(f)[ls] = UnwrapStep(g)[ls]
      BY DEF Local
    <2>1. CASE ls = <<>>
      BY <2>1 DEF UnwrapStep
    <2>2. CASE ls # <<>>
      <3>1. f[Inner(ls)] = g[Inner(ls)] /\ f[Beyond(ls)] = g[Beyond(ls)] /\ f[Tail(ls)] = g[Tail(ls)]
        BY <2>2, InnerAndBeyond, FirstAndRest
      <3> QED BY <3>1 DEF UnwrapStep
    <2> QED BY <2>1, <2>2
  <1>4. ASSUME NEW ls \in Seq(Lines)
        PROVE  \E c : Rounds(c, G, Len(ls)) /\ p[ls] = c[Len(ls)][ls]
    <2>1. PICK c \in [0..Len(ls) -> Passes] :
              /\ c[0] = NoPass
              /\ \A n \in 1..Len(ls) : c[n] = UnwrapStep(c[n - 1])
              /\ UnwrapOn(ls) = c[Len(ls)][ls]
      BY UnwrapPasses
    <2>2. \A n \in 1..Len(ls) : c[n - 1] \in Passes
      <3>1. \A n \in 1..Len(ls) : n - 1 \in 0..Len(ls)
        OBVIOUS
      <3> QED BY <3>1
    <2>3. Rounds(c, G, Len(ls))
      BY <2>1, <2>2 DEF Rounds
    <2> QED BY <2>1, <2>3
  <1>5. \A ls \in Seq(Lines) : p[ls] = G[p][ls]
    <2> HIDE DEF G, p
    <2>1. StepOfPass(G)
      BY <1>1, <1>2, <1>3 DEF StepOfPass
    <2> QED BY <1>1, <1>4, <2>1, PassIsItsStep
  <1>6. \A ls \in Seq(Lines) : UnwrapOn(ls) = UnwrapStep(p)[ls]
    BY <1>1, <1>5
  <1>7. <<>> \in Seq(Lines) /\ UnwrapStep(p)[<<>>] = <<>>
    BY DEF UnwrapStep
  <1>8. ASSUME NEW ls \in Seq(Lines), ls # <<>>
        PROVE  UnwrapOn(ls) = IF ls[1].is = "on" THEN UnwrapOn(Inner(ls)) \o UnwrapOn(Beyond(ls))
                              ELSE <<ls[1]>> \o UnwrapOn(Tail(ls))
    <2>1. p[Inner(ls)] = UnwrapOn(Inner(ls)) /\ p[Beyond(ls)] = UnwrapOn(Beyond(ls))
          /\ p[Tail(ls)] = UnwrapOn(Tail(ls))
      BY <1>8, InnerAndBeyond, FirstAndRest
    <2> HIDE DEF p
    <2> QED BY <1>6, <1>8, <2>1 DEF UnwrapStep
  <1> QED BY <1>6, <1>7, <1>8

\* The step of resolve_on_blocks.
LEMMA OnSteps ==
    /\ ResolveOn(<<>>) = <<>>
    /\ \A ls \in Seq(Lines) : ls # <<>> =>
          ResolveOn(ls) =
             IF ls[1].is = "bottle"
             THEN <<ls[1]>> \o UnwrapOn(Inner(ls)) \o Cut(ls, MatchingEnd(ls), MatchingEnd(ls))
                            \o ResolveOn(Beyond(ls))
             ELSE IF ls[1].is = "on"
             THEN (IF ls[1].here THEN ResolveOn(Inner(ls)) ELSE <<>>) \o ResolveOn(Beyond(ls))
             ELSE <<ls[1]>> \o ResolveOn(Tail(ls))
  <1> DEFINE G == [f \in Passes |-> OnStep(f)]
             p == [ls \in Seq(Lines) |-> ResolveOn(ls)]
  <1>1. G \in [Passes -> Passes] /\ p \in Passes
    BY OnStepIsPass, OnIsText DEF Passes
  <1>2. \A f \in Passes : G[f][<<>>] = <<>>
    <2>1. \A f : OnStep(f)[<<>>] = <<>>
      BY DEF OnStep
    <2> QED BY <2>1
  <1>3. Local(G)
    <2> SUFFICES ASSUME NEW f \in Passes, NEW g \in Passes, NEW ls \in Seq(Lines),
                        \A s \in Seq(Lines) : Len(s) < Len(ls) => f[s] = g[s]
                 PROVE  OnStep(f)[ls] = OnStep(g)[ls]
      BY DEF Local
    <2>1. CASE ls = <<>>
      BY <2>1 DEF OnStep
    <2>2. CASE ls # <<>>
      <3>1. f[Inner(ls)] = g[Inner(ls)] /\ f[Beyond(ls)] = g[Beyond(ls)] /\ f[Tail(ls)] = g[Tail(ls)]
        BY <2>2, InnerAndBeyond, FirstAndRest
      <3> QED BY <3>1 DEF OnStep
    <2> QED BY <2>1, <2>2
  <1>4. ASSUME NEW ls \in Seq(Lines)
        PROVE  \E c : Rounds(c, G, Len(ls)) /\ p[ls] = c[Len(ls)][ls]
    <2>1. PICK c \in [0..Len(ls) -> Passes] :
              /\ c[0] = NoPass
              /\ \A n \in 1..Len(ls) : c[n] = OnStep(c[n - 1])
              /\ ResolveOn(ls) = c[Len(ls)][ls]
      BY OnPasses
    <2>2. \A n \in 1..Len(ls) : c[n - 1] \in Passes
      <3>1. \A n \in 1..Len(ls) : n - 1 \in 0..Len(ls)
        OBVIOUS
      <3> QED BY <3>1
    <2>3. Rounds(c, G, Len(ls))
      BY <2>1, <2>2 DEF Rounds
    <2> QED BY <2>1, <2>3
  <1>5. \A ls \in Seq(Lines) : p[ls] = G[p][ls]
    <2> HIDE DEF G, p
    <2>1. StepOfPass(G)
      BY <1>1, <1>2, <1>3 DEF StepOfPass
    <2> QED BY <1>1, <1>4, <2>1, PassIsItsStep
  <1>6. \A ls \in Seq(Lines) : ResolveOn(ls) = OnStep(p)[ls]
    BY <1>1, <1>5
  <1>7. <<>> \in Seq(Lines) /\ OnStep(p)[<<>>] = <<>>
    BY DEF OnStep
  <1>8. ASSUME NEW ls \in Seq(Lines), ls # <<>>
        PROVE  ResolveOn(ls) =
             IF ls[1].is = "bottle"
             THEN <<ls[1]>> \o UnwrapOn(Inner(ls)) \o Cut(ls, MatchingEnd(ls), MatchingEnd(ls))
                            \o ResolveOn(Beyond(ls))
             ELSE IF ls[1].is = "on"
             THEN (IF ls[1].here THEN ResolveOn(Inner(ls)) ELSE <<>>) \o ResolveOn(Beyond(ls))
             ELSE <<ls[1]>> \o ResolveOn(Tail(ls))
    <2>1. p[Inner(ls)] = ResolveOn(Inner(ls)) /\ p[Beyond(ls)] = ResolveOn(Beyond(ls))
          /\ p[Tail(ls)] = ResolveOn(Tail(ls))
      BY <1>8, InnerAndBeyond, FirstAndRest
    <2> HIDE DEF p
    <2> QED BY <1>6, <1>8, <2>1 DEF OnStep
  <1> QED BY <1>6, <1>7, <1>8

\* The step of resolve_arch_conditionals.
LEMMA ArchSteps ==
    /\ ResolveArch(<<>>) = <<>>
    /\ \A ls \in Seq(Lines) : ls # <<>> =>
          ResolveArch(ls) = IF ls[1].is = "if" THEN ResolveArch(BranchKept(ls)) \o ResolveArch(Beyond(ls))
                            ELSE <<ls[1]>> \o ResolveArch(Tail(ls))
  <1> DEFINE G == [f \in Passes |-> ArchStep(f)]
             p == [ls \in Seq(Lines) |-> ResolveArch(ls)]
  <1>1. G \in [Passes -> Passes] /\ p \in Passes
    BY ArchStepIsPass, ArchIsText DEF Passes
  <1>2. \A f \in Passes : G[f][<<>>] = <<>>
    <2>1. \A f : ArchStep(f)[<<>>] = <<>>
      BY DEF ArchStep
    <2> QED BY <2>1
  <1>3. Local(G)
    <2> SUFFICES ASSUME NEW f \in Passes, NEW g \in Passes, NEW ls \in Seq(Lines),
                        \A s \in Seq(Lines) : Len(s) < Len(ls) => f[s] = g[s]
                 PROVE  ArchStep(f)[ls] = ArchStep(g)[ls]
      BY DEF Local
    <2>1. CASE ls = <<>>
      BY <2>1 DEF ArchStep
    <2>2. CASE ls # <<>>
      <3>1. f[BranchKept(ls)] = g[BranchKept(ls)] /\ f[Beyond(ls)] = g[Beyond(ls)] /\ f[Tail(ls)] = g[Tail(ls)]
        BY <2>2, BranchIsText, InnerAndBeyond, FirstAndRest
      <3> QED BY <3>1 DEF ArchStep
    <2> QED BY <2>1, <2>2
  <1>4. ASSUME NEW ls \in Seq(Lines)
        PROVE  \E c : Rounds(c, G, Len(ls)) /\ p[ls] = c[Len(ls)][ls]
    <2>1. PICK c \in [0..Len(ls) -> Passes] :
              /\ c[0] = NoPass
              /\ \A n \in 1..Len(ls) : c[n] = ArchStep(c[n - 1])
              /\ ResolveArch(ls) = c[Len(ls)][ls]
      BY ArchPasses
    <2>2. \A n \in 1..Len(ls) : c[n - 1] \in Passes
      <3>1. \A n \in 1..Len(ls) : n - 1 \in 0..Len(ls)
        OBVIOUS
      <3> QED BY <3>1
    <2>3. Rounds(c, G, Len(ls))
      BY <2>1, <2>2 DEF Rounds
    <2> QED BY <2>1, <2>3
  <1>5. \A ls \in Seq(Lines) : p[ls] = G[p][ls]
    <2> HIDE DEF G, p
    <2>1. StepOfPass(G)
      BY <1>1, <1>2, <1>3 DEF StepOfPass
    <2> QED BY <1>1, <1>4, <2>1, PassIsItsStep
  <1>6. \A ls \in Seq(Lines) : ResolveArch(ls) = ArchStep(p)[ls]
    BY <1>1, <1>5
  <1>7. <<>> \in Seq(Lines) /\ ArchStep(p)[<<>>] = <<>>
    BY DEF ArchStep
  <1>8. ASSUME NEW ls \in Seq(Lines), ls # <<>>
        PROVE  ResolveArch(ls) = IF ls[1].is = "if" THEN ResolveArch(BranchKept(ls)) \o ResolveArch(Beyond(ls))
                                 ELSE <<ls[1]>> \o ResolveArch(Tail(ls))
    <2>1. p[BranchKept(ls)] = ResolveArch(BranchKept(ls)) /\ p[Beyond(ls)] = ResolveArch(Beyond(ls))
          /\ p[Tail(ls)] = ResolveArch(Tail(ls))
      BY <1>8, BranchIsText, InnerAndBeyond, FirstAndRest
    <2> HIDE DEF p
    <2> QED BY <1>6, <1>8, <2>1 DEF ArchStep
  <1> QED BY <1>6, <1>7, <1>8

-----------------------------------------------------------------------------
(* Texts put together, and cut.                                            *)

LEMMA JoinLaws ==
    /\ <<>> \in Seq(Lines) /\ Len(<<>>) = 0
    /\ \A l \in Lines : <<l>> \in Seq(Lines)
    /\ \A a \in Seq(Lines) : a \o <<>> = a /\ <<>> \o a = a
    /\ \A a, b \in Seq(Lines) : a \o b \in Seq(Lines)
    /\ \A a, b, c \in Seq(Lines) : (a \o b) \o c = a \o (b \o c)
  <1>1. \A l \in Lines : <<l>> \in Seq(Lines)
    OBVIOUS
  <1>2. \A a \in Seq(Lines) : a \o <<>> = a /\ <<>> \o a = a
    BY ConcatEmptySeq
  <1>3. \A a, b, c \in Seq(Lines) : (a \o b) \o c = a \o (b \o c)
    BY ConcatAssociative
  <1>4. \A a, b \in Seq(Lines) : a \o b \in Seq(Lines)
    OBVIOUS
  <1>5. <<>> \in Seq(Lines) /\ Len(<<>>) = 0
    OBVIOUS
  <1> QED BY <1>1, <1>2, <1>3, <1>4, <1>5

LEMMA JoinAssoc == \A a, b, c \in Seq(Lines) : (a \o b) \o c = a \o (b \o c)
  BY JoinLaws

Associates(p, q, s) == (p \o q) \o s = p \o (q \o s)

LEMMA TextsAssociate == \A p, q, s \in Seq(Lines) : Associates(p, q, s)
  BY JoinAssoc DEF Associates

\* A part of texts put together.
LEMMA MiddleOf ==
    \A a, b, c \in Seq(Lines) : SubSeq((a \o b) \o c, Len(a) + 1, Len(a) + Len(b)) = b
  <1> SUFFICES ASSUME NEW a \in Seq(Lines), NEW b \in Seq(Lines), NEW c \in Seq(Lines)
               PROVE  SubSeq((a \o b) \o c, Len(a) + 1, Len(a) + Len(b)) = b
    OBVIOUS
  <1> DEFINE u == a \o b
             t == u \o c
             m == SubSeq(t, Len(a) + 1, Len(a) + Len(b))
  <1>1. u \in Seq(Lines) /\ Len(u) = Len(a) + Len(b) /\ Len(a) \in Nat /\ Len(b) \in Nat
        /\ \A i \in 1..Len(b) : u[Len(a) + i] = b[i]
    BY JoinParts
  <1> HIDE DEF u
  <1>2. t \in Seq(Lines) /\ Len(t) = Len(a) + Len(b) + Len(c) /\ Len(c) \in Nat
        /\ \A i \in 1..(Len(a) + Len(b)) : t[i] = u[i]
    <2>1. t \in Seq(Lines) /\ Len(t) = Len(u) + Len(c) /\ Len(c) \in Nat
          /\ \A i \in 1..Len(u) : t[i] = u[i]
      BY <1>1, JoinParts
    <2> HIDE DEF t
    <2> QED BY <1>1, <2>1
  <1> HIDE DEF t
  <1>3. Len(a) + 1 \in Nat \ {0} /\ Len(a) + Len(b) \in 0..Len(t)
    BY <1>1, <1>2
  <1>4. /\ m \in Seq(Lines)
        /\ Len(m) = IF Len(a) + 1 <= Len(a) + Len(b) THEN (Len(a) + Len(b)) - (Len(a) + 1) + 1 ELSE 0
        /\ \A i \in 1..((Len(a) + Len(b)) - (Len(a) + 1) + 1) : m[i] = t[(Len(a) + 1) + i - 1]
    BY <1>2, <1>3, CutParts
  <1> HIDE DEF m
  <1>5. Len(m) = Len(b)
    BY <1>1, <1>4
  <1>6. ASSUME NEW i \in 1..Len(b) PROVE m[i] = b[i]
    <2>1. i \in 1..((Len(a) + Len(b)) - (Len(a) + 1) + 1) /\ (Len(a) + 1) + i - 1 = Len(a) + i
          /\ Len(a) + i \in 1..(Len(a) + Len(b))
      BY <1>1
    <2>2. m[i] = t[Len(a) + i]
      BY <1>4, <2>1
    <2> QED BY <1>1, <1>2, <2>1, <2>2
  <1>7. m = b
    BY <1>4, <1>5, <1>6, SeqEqual
  <1> QED BY <1>7 DEF m, t, u

\* The lines before a line of a text, and those from it on.
LEMMA StartAndRestOf ==
    \A a, b \in Seq(Lines) :
       SubSeq(a \o b, 1, Len(a)) = a /\ SubSeq(a \o b, Len(a) + 1, Len(a \o b)) = b
  <1> SUFFICES ASSUME NEW a \in Seq(Lines), NEW b \in Seq(Lines)
               PROVE  SubSeq(a \o b, 1, Len(a)) = a /\ SubSeq(a \o b, Len(a) + 1, Len(a \o b)) = b
    OBVIOUS
  <1> DEFINE none == <<>>
  <1>1. none \in Seq(Lines) /\ Len(none) = 0 /\ none \o a = a /\ (a \o b) \o none = a \o b
        /\ a \o b \in Seq(Lines) /\ Len(a) \in Nat
    BY JoinLaws
  <1>2. Len(a \o b) = Len(a) + Len(b)
    BY JoinParts
  <1> HIDE DEF none
  <1>3. SubSeq((none \o a) \o b, Len(none) + 1, Len(none) + Len(a)) = a
    BY <1>1, MiddleOf
  <1>4. Len(none) + 1 = 1 /\ Len(none) + Len(a) = Len(a)
    BY <1>1
  <1>5. SubSeq((a \o b) \o none, Len(a) + 1, Len(a) + Len(b)) = b
    BY <1>1, MiddleOf
  <1>6. SubSeq(a \o b, 1, Len(a)) = a
    BY <1>1, <1>3, <1>4, Zenon
  <1>7. SubSeq(a \o b, Len(a) + 1, Len(a \o b)) = b
    BY <1>1, <1>2, <1>5, Zenon
  <1> QED BY <1>6, <1>7

LEMMA CutIs ==
    \A ls \in Seq(Lines) : \A a : \A b \in 0..Len(ls) : Cut(ls, a, b) = SubSeq(ls, a, b)
  <1> SUFFICES ASSUME NEW ls \in Seq(Lines), NEW a, NEW b \in 0..Len(ls)
               PROVE  Cut(ls, a, b) = SubSeq(ls, a, b)
    OBVIOUS
  <1>1. (IF b < Len(ls) THEN b ELSE Len(ls)) = b
    OBVIOUS
  <1> QED BY <1>1, Zenon DEF Cut

LEMMA FirstIs ==
    ASSUME NEW S, S \subseteq Nat, NEW x \in S, \A y \in S : x <= y, NEW none
    PROVE  FirstOf(S, none) = x /\ Min(S) = x
  <1>1. x \in S /\ \A y \in S : x <= y
    OBVIOUS
  <1>2. \A z : z \in S /\ (\A y \in S : z <= y) => z = x
    OBVIOUS
  <1>3. Min(S) = CHOOSE z \in S : \A y \in S : z <= y
    BY DEF Min
  <1>4. Min(S) = x
    BY <1>1, <1>2, <1>3
  <1> QED BY <1>4 DEF FirstOf

\* The end of the first block of a text is found where the block ends.
LEMMA EndOfBlock ==
    \A o, e \in Lines : \A A, R \in Seq(Lines) : e.is = "end" /\ Bal(A) =>
       LET t == Block(o, A, e) \o R IN
       /\ t \in Seq(Lines) /\ t # <<>> /\ t[1] = o
       /\ Len(t) = Len(A) + 2 + Len(R)
       /\ MatchingEnd(t) = Len(A) + 2
       /\ Inner(t) = A /\ Beyond(t) = R
       /\ Cut(t, MatchingEnd(t), MatchingEnd(t)) = <<e>>
  <1> SUFFICES ASSUME NEW o \in Lines, NEW e \in Lines, NEW A \in Seq(Lines), NEW R \in Seq(Lines),
                      e.is = "end", Bal(A)
               PROVE  LET t == Block(o, A, e) \o R IN
                      /\ t \in Seq(Lines) /\ t # <<>> /\ t[1] = o
                      /\ Len(t) = Len(A) + 2 + Len(R)
                      /\ MatchingEnd(t) = Len(A) + 2
                      /\ Inner(t) = A /\ Beyond(t) = R
                      /\ Cut(t, MatchingEnd(t), MatchingEnd(t)) = <<e>>
    OBVIOUS
  <1> DEFINE b == Block(o, A, e)
             t == b \o R
             n == Len(A)
             x == <<o>>
             z == <<e>>
  <1>1. /\ b \in Seq(Lines) /\ Len(b) = n + 2 /\ b[1] = o /\ b[n + 2] = e
        /\ \A i \in 1..n : b[i + 1] = A[i]
        /\ x \in Seq(Lines) /\ z \in Seq(Lines) /\ Len(x) = 1 /\ Len(z) = 1
        /\ n \in Nat /\ Len(R) \in Nat
    <2>1. x \in Seq(Lines) /\ z \in Seq(Lines) /\ Len(x) = 1 /\ Len(z) = 1
      BY OneLine
    <2>2. n \in Nat /\ Len(R) \in Nat
      OBVIOUS
    <2>3. /\ b \in Seq(Lines) /\ Len(b) = n + 2 /\ b[1] = o /\ b[n + 2] = e
          /\ \A i \in 1..n : b[i + 1] = A[i]
      <3>1. /\ Block(o, A, e) \in Seq(Lines) /\ Len(Block(o, A, e)) = Len(A) + 2
            /\ Block(o, A, e)[1] = o /\ Block(o, A, e)[Len(A) + 2] = e
            /\ \A i \in 1..Len(A) : Block(o, A, e)[i + 1] = A[i]
        BY BlockParts
      <3> QED BY <3>1
    <2> HIDE DEF b, n, x, z
    <2> QED BY <2>1, <2>2, <2>3
  <1>a. b = (x \o A) \o z /\ x \o A \in Seq(Lines) /\ Len(x \o A) = n + 1
    BY BlockParts DEF Block
  <1>2. A \o z \in Seq(Lines) /\ z \o R \in Seq(Lines)
    BY <1>1, JoinLaws
  <1> HIDE DEF b, n, x, z
  <1>3. /\ t \in Seq(Lines) /\ Len(t) = n + 2 + Len(R) /\ t[1] = o /\ t[n + 2] = e
        /\ \A i \in 1..n : t[i + 1] = A[i]
    <2>1. t \in Seq(Lines) /\ Len(t) = Len(b) + Len(R) /\ \A i \in 1..Len(b) : t[i] = b[i]
      BY <1>1, JoinParts
    <2>2. 1 \in 1..Len(b) /\ n + 2 \in 1..Len(b) /\ \A i \in 1..n : i + 1 \in 1..Len(b)
      BY <1>1
    <2> HIDE DEF t
    <2> QED BY <1>1, <2>1, <2>2
  <1>4. t = (x \o A) \o (z \o R) /\ t = (x \o (A \o z)) \o R /\ t = ((x \o A) \o z) \o R
    <2>1. t = ((x \o A) \o z) \o R
      BY <1>a
    <2>2. ((x \o A) \o z) \o R = (x \o A) \o (z \o R)
      <3>1. Associates(x \o A, z, R)
        BY <1>1, <1>a, TextsAssociate
      <3> QED BY <3>1 DEF Associates
    <2>3. (x \o A) \o z = x \o (A \o z)
      <3>1. Associates(x, A, z)
        BY <1>1, TextsAssociate
      <3> QED BY <3>1 DEF Associates
    <2> QED BY <2>1, <2>2, <2>3, Zenon
  <1> HIDE DEF t
  <1>5. SubSeq(t, 2, n + 1) = A
    <2>1. SubSeq((x \o A) \o (z \o R), Len(x) + 1, Len(x) + Len(A)) = A
      BY <1>1, <1>2, MiddleOf
    <2>2. Len(x) + 1 = 2 /\ Len(x) + Len(A) = n + 1
      BY <1>1 DEF n
    <2> QED BY <1>4, <2>1, <2>2, Zenon
  <1>6. SubSeq(t, 2, n + 2) = A \o z
    <2>1. SubSeq((x \o (A \o z)) \o R, Len(x) + 1, Len(x) + Len(A \o z)) = A \o z
      BY <1>1, <1>2, MiddleOf
    <2>2. Len(A \o z) = n + 1
      <3>1. Len(A \o z) = Len(A) + Len(z)
        BY <1>1, JoinParts
      <3> QED BY <1>1, <3>1 DEF n
    <2>3. Len(x) + 1 = 2 /\ Len(x) + Len(A \o z) = n + 2
      BY <1>1, <2>2
    <2> QED BY <1>4, <2>1, <2>3, Zenon
  <1>7. SubSeq(t, n + 2, n + 2) = z
    <2>1. SubSeq(((x \o A) \o z) \o R, Len(x \o A) + 1, Len(x \o A) + Len(z)) = z
      BY <1>1, <1>a, MiddleOf
    <2>2. Len(x \o A) + 1 = n + 2 /\ Len(x \o A) + Len(z) = n + 2
      BY <1>1, <1>a
    <2> QED BY <1>4, <2>1, <2>2, Zenon
  <1>8. SubSeq(t, n + 3, Len(t)) = R
    <2>1. SubSeq(b \o R, Len(b) + 1, Len(b \o R)) = R
      BY <1>1, StartAndRestOf
    <2>2. Len(b) + 1 = n + 3
      BY <1>1
    <2> QED BY <2>1, <2>2, Zenon DEF t
  <1>9. MatchingEnd(t) = n + 2
    <2> DEFINE S == {i \in 2..Len(t) : t[i].is = "end" /\ Depth(Cut(t, 2, i), 1) = 0}
    <2>1. n + 2 \in S
      <3>1. n + 2 \in 2..Len(t) /\ n + 2 \in 0..Len(t)
        BY <1>1, <1>3
      <3>2. Cut(t, 2, n + 2) = A \o z
        BY <1>3, <1>6, <3>1, CutIs
      <3>3. Depth(A \o z, 1) = Depth(z, Depth(A, 1))
        BY <1>1, DepthOfConcat
      <3>4. Depth(A, 1) = 1
        BY DEF Bal
      <3>5. Depth(z, 1) = 0
        <4>1. Depth(<<e>>, 1) = DepthAfter(1, e)
          BY DepthOfLines
        <4>2. DepthAfter(1, e) = 0
          BY DEF DepthAfter
        <4> QED BY <4>1, <4>2, Zenon DEF z
      <3> QED BY <1>3, <3>1, <3>2, <3>3, <3>4, <3>5
    <2>2. ASSUME NEW i \in S PROVE n + 2 <= i
      <3> SUFFICES ASSUME i < n + 2 PROVE FALSE
        BY <1>1
      <3>1. i \in 2..Len(t) /\ i \in 0..Len(t) /\ i - 1 \in 0..Len(A) /\ i \in Nat /\ Len(A) \in Nat
        BY <1>1 DEF n
      <3>2. SubSeq(t, 2, i) = SubSeq(A, 1, i - 1)
        <4> DEFINE p == SubSeq(t, 2, i)
                   q == SubSeq(A, 1, i - 1)
        <4>1. p \in Seq(Lines) /\ Len(p) = i - 1 /\ \A j \in 1..(i - 2 + 1) : p[j] = t[2 + j - 1]
          BY <1>3, <3>1, CutParts
        <4>2. q \in Seq(Lines) /\ Len(q) = i - 1 /\ \A j \in 1..(i - 1 - 1 + 1) : q[j] = A[1 + j - 1]
          BY <3>1, CutParts
        <4> HIDE DEF p, q
        <4>3. ASSUME NEW j \in 1..(i - 1) PROVE p[j] = q[j]
          <5>1. 2 + j - 1 = j + 1 /\ 1 + j - 1 = j /\ j \in 1..(i - 2 + 1) /\ j \in 1..(i - 1 - 1 + 1)
                /\ j \in 1..n
            BY <3>1 DEF n
          <5>2. p[j] = t[j + 1] /\ q[j] = A[j]
            BY <4>1, <4>2, <5>1
          <5> QED BY <1>3, <5>1, <5>2
        <4>4. p = q
          BY <4>1, <4>2, <4>3, SeqEqual
        <4> QED BY <4>4 DEF p, q
      <3>3. Cut(t, 2, i) = SubSeq(A, 1, i - 1)
        BY <1>3, <3>1, <3>2, CutIs
      <3>4. Depth(SubSeq(A, 1, i - 1), 1) >= 1
        BY <3>1 DEF Bal
      <3> DEFINE y == Depth(SubSeq(A, 1, i - 1), 1)
      <3>5. y = 0
        BY <3>3
      <3>6. y >= 1
        BY <3>4
      <3> HIDE DEF y
      <3> QED BY <3>5, <3>6
    <2>3. S \subseteq Nat
      OBVIOUS
    <2> HIDE DEF S
    <2>4. FirstOf(S, Len(t) + 1) = n + 2
      BY <2>1, <2>2, <2>3, FirstIs
    <2> QED BY <2>4 DEF MatchingEnd, S
  <1>10. Inner(t) = A
    <2>1. (n + 2) - 1 = n + 1 /\ n + 1 \in 0..Len(t)
      BY <1>1, <1>3
    <2>2. Cut(t, 2, n + 1) = A
      BY <1>3, <1>5, <2>1, CutIs
    <2> QED BY <1>9, <2>1, <2>2, Zenon DEF Inner
  <1>11. Beyond(t) = R
    <2>1. (n + 2) + 1 = n + 3 /\ Len(t) \in 0..Len(t)
      BY <1>1, <1>3
    <2>2. Cut(t, n + 3, Len(t)) = R
      BY <1>3, <1>8, <2>1, CutIs
    <2> QED BY <1>9, <2>1, <2>2, Zenon DEF Beyond
  <1>12. Cut(t, n + 2, n + 2) = z
    <2>1. n + 2 \in 0..Len(t)
      BY <1>1, <1>3
    <2> QED BY <1>3, <1>7, <2>1, CutIs
  <1>13. t # <<>>
    <2>1. Len(t) # 0
      BY <1>1, <1>3
    <2> QED BY <2>1
  <1> QED BY <1>3, <1>9, <1>10, <1>11, <1>12, <1>13 DEF t, b, n, z

-----------------------------------------------------------------------------
(* What the passes make of a line, of texts put together, of blocks.       *)

Modes == {"unwrap", "resolve", "arch"}
Pass(m, ls) == IF m = "unwrap" THEN UnwrapOn(ls)
               ELSE IF m = "resolve" THEN ResolveOn(ls) ELSE ResolveArch(ls)

\* The text can be read apart from what follows it.
Splits(m, ls) == \A r \in Seq(Lines) : Pass(m, ls \o r) = Pass(m, ls) \o Pass(m, r)

\* A line the pass leaves as it is.
Left(m, l) == IF m = "unwrap" THEN l.is # "on"
              ELSE IF m = "resolve" THEN l.is # "on" /\ l.is # "bottle" ELSE l.is # "if"

\* The first line of texts put together.
LEMMA FirstLine ==
    \A l \in Lines : \A r \in Seq(Lines) :
       <<l>> \o r # <<>> /\ (<<l>> \o r)[1] = l /\ Tail(<<l>> \o r) = r /\ <<l>> \o r \in Seq(Lines)
  <1> SUFFICES ASSUME NEW l \in Lines, NEW r \in Seq(Lines)
               PROVE  <<l>> \o r # <<>> /\ (<<l>> \o r)[1] = l /\ Tail(<<l>> \o r) = r
                      /\ <<l>> \o r \in Seq(Lines)
    OBVIOUS
  <1> DEFINE x == <<l>>
             t == x \o r
  <1>1. x \in Seq(Lines) /\ Len(x) = 1 /\ x[1] = l
    OBVIOUS
  <1> HIDE DEF x
  <1>2. t \in Seq(Lines) /\ Len(t) = 1 + Len(r) /\ t[1] = l /\ \A i \in 1..Len(r) : t[1 + i] = r[i]
    <2>1. t \in Seq(Lines) /\ Len(t) = Len(x) + Len(r) /\ (\A i \in 1..Len(x) : t[i] = x[i])
          /\ \A i \in 1..Len(r) : t[Len(x) + i] = r[i]
      BY <1>1, JoinParts
    <2>2. 1 \in 1..Len(x)
      BY <1>1
    <2> HIDE DEF t
    <2> QED BY <1>1, <2>1, <2>2
  <1> HIDE DEF t
  <1>3. t # <<>> /\ Len(r) \in Nat
    BY <1>2
  <1>4. Tail(t) \in Seq(Lines) /\ Len(Tail(t)) = Len(t) - 1
        /\ \A i \in 1..Len(Tail(t)) : Tail(t)[i] = t[i + 1]
    BY <1>2, <1>3, HeadTailProperties
  <1>5. Tail(t) = r
    <2>1. Len(Tail(t)) = Len(r)
      BY <1>2, <1>3, <1>4
    <2>2. \A i \in 1..Len(Tail(t)) : Tail(t)[i] = r[i]
      BY <1>2, <1>3, <1>4, <2>1
    <2> QED BY <1>4, <2>1, <2>2, SeqEqual
  <1> QED BY <1>2, <1>3, <1>5 DEF t, x

LEMMA PassIsText ==
    \A m \in Modes : \A ls \in Seq(Lines) : Pass(m, ls) \in Seq(Lines)
  BY UnwrapIsText, OnIsText, ArchIsText DEF Pass, Modes

LEMMA PassOfNothing ==
    \A m \in Modes : Pass(m, <<>>) = <<>> /\ Splits(m, <<>>)
  <1> SUFFICES ASSUME NEW m \in Modes PROVE Pass(m, <<>>) = <<>> /\ Splits(m, <<>>)
    OBVIOUS
  <1>1. Pass(m, <<>>) = <<>>
    BY UnwrapSteps, OnSteps, ArchSteps DEF Pass, Modes
  <1>2. ASSUME NEW r \in Seq(Lines) PROVE Pass(m, <<>> \o r) = Pass(m, <<>>) \o Pass(m, r)
    <2>1. <<>> \o r = r /\ <<>> \o Pass(m, r) = Pass(m, r)
      BY JoinLaws, PassIsText
    <2> QED BY <1>1, <2>1
  <1> QED BY <1>1, <1>2 DEF Splits

\* A line a pass leaves is read apart from what follows it.
LEMMA PassOfLine ==
    \A m \in Modes : \A l \in Lines : Left(m, l) => Pass(m, <<l>>) = <<l>> /\ Splits(m, <<l>>)
  <1> SUFFICES ASSUME NEW m \in Modes, NEW l \in Lines, Left(m, l)
               PROVE  Pass(m, <<l>>) = <<l>> /\ Splits(m, <<l>>)
    OBVIOUS
  <1>1. ASSUME NEW r \in Seq(Lines) PROVE Pass(m, <<l>> \o r) = <<l>> \o Pass(m, r)
    <2> DEFINE t == <<l>> \o r
    <2>1. t \in Seq(Lines) /\ t # <<>> /\ t[1] = l /\ Tail(t) = r
      BY FirstLine
    <2> HIDE DEF t
    <2>2. m = "unwrap" => UnwrapOn(t) = <<l>> \o UnwrapOn(r)
      BY <2>1, UnwrapSteps DEF Left
    <2>3. m = "resolve" => ResolveOn(t) = <<l>> \o ResolveOn(r)
      BY <2>1, OnSteps DEF Left
    <2>4. m = "arch" => ResolveArch(t) = <<l>> \o ResolveArch(r)
      BY <2>1, ArchSteps DEF Left
    <2>5. Pass(m, t) = <<l>> \o Pass(m, r)
      BY <2>2, <2>3, <2>4 DEF Pass, Modes
    <2> QED BY <2>5 DEF t
  <1>2. Pass(m, <<l>>) = <<l>>
    <2>1. <<l>> \o <<>> = <<l>> /\ <<>> \in Seq(Lines)
      BY JoinLaws
    <2>2. Pass(m, <<l>> \o <<>>) = <<l>> \o Pass(m, <<>>)
      BY <1>1, <2>1
    <2> QED BY <2>1, <2>2, PassOfNothing, Zenon
  <1> QED BY <1>1, <1>2 DEF Splits

\* Texts that can be read apart can be read together.
LEMMA PassOfConcat ==
    \A m \in Modes : \A a, b \in Seq(Lines) : Splits(m, a) /\ Splits(m, b) =>
       Pass(m, a \o b) = Pass(m, a) \o Pass(m, b) /\ Splits(m, a \o b)
  <1> SUFFICES ASSUME NEW m \in Modes, NEW a \in Seq(Lines), NEW b \in Seq(Lines),
                      Splits(m, a), Splits(m, b)
               PROVE  Pass(m, a \o b) = Pass(m, a) \o Pass(m, b) /\ Splits(m, a \o b)
    OBVIOUS
  <1>1. Pass(m, a \o b) = Pass(m, a) \o Pass(m, b)
    BY DEF Splits
  <1>2. ASSUME NEW r \in Seq(Lines) PROVE Pass(m, (a \o b) \o r) = Pass(m, a \o b) \o Pass(m, r)
    <2>1. (a \o b) \o r = a \o (b \o r)
      BY JoinAssoc
    <2>2. b \o r \in Seq(Lines)
      BY JoinLaws
    <2>3. Pass(m, a \o (b \o r)) = Pass(m, a) \o Pass(m, b \o r)
      BY <2>2 DEF Splits
    <2>4. Pass(m, b \o r) = Pass(m, b) \o Pass(m, r)
      BY DEF Splits
    <2>5. Pass(m, a) \o (Pass(m, b) \o Pass(m, r)) = (Pass(m, a) \o Pass(m, b)) \o Pass(m, r)
      <3>1. Pass(m, a) \in Seq(Lines) /\ Pass(m, b) \in Seq(Lines) /\ Pass(m, r) \in Seq(Lines)
        BY PassIsText
      <3> DEFINE p == Pass(m, a)
                 q == Pass(m, b)
                 s == Pass(m, r)
      <3>2. p \in Seq(Lines) /\ q \in Seq(Lines) /\ s \in Seq(Lines)
        BY <3>1
      <3> HIDE DEF p, q, s
      <3>3. p \o (q \o s) = (p \o q) \o s
        <4>1. Associates(p, q, s)
          BY <3>2, TextsAssociate
        <4> QED BY <4>1 DEF Associates
      <3> QED BY <3>3 DEF p, q, s
    <2> QED BY <1>1, <2>1, <2>3, <2>4, <2>5, Zenon
  <1> QED BY <1>1, <1>2 DEF Splits

\* A block no pass resolves is kept, with what the pass makes of what it holds.
LEMMA PassOfPlainBlock ==
    \A m \in Modes : \A o, e \in Lines : \A A \in Seq(Lines) :
       Left(m, o) /\ Left(m, e) /\ Splits(m, A) =>
          Pass(m, Block(o, A, e)) = Block(o, Pass(m, A), e) /\ Splits(m, Block(o, A, e))
  <1> SUFFICES ASSUME NEW m \in Modes, NEW o \in Lines, NEW e \in Lines, NEW A \in Seq(Lines),
                      Left(m, o), Left(m, e), Splits(m, A)
               PROVE  Pass(m, Block(o, A, e)) = Block(o, Pass(m, A), e) /\ Splits(m, Block(o, A, e))
    OBVIOUS
  <1> DEFINE x == <<o>>
             z == <<e>>
  <1>1. x \in Seq(Lines) /\ z \in Seq(Lines)
    OBVIOUS
  <1>2. Pass(m, x) = x /\ Splits(m, x) /\ Pass(m, z) = z /\ Splits(m, z)
    BY PassOfLine
  <1> HIDE DEF x, z
  <1>3. x \o A \in Seq(Lines) /\ Pass(m, x \o A) = Pass(m, x) \o Pass(m, A) /\ Splits(m, x \o A)
    <2>1. x \o A \in Seq(Lines)
      BY <1>1, JoinLaws, Zenon
    <2> QED BY <1>1, <1>2, <2>1, PassOfConcat
  <1>4. Pass(m, (x \o A) \o z) = Pass(m, x \o A) \o Pass(m, z) /\ Splits(m, (x \o A) \o z)
    BY <1>1, <1>2, <1>3, PassOfConcat
  <1>5. Pass(m, (x \o A) \o z) = (x \o Pass(m, A)) \o z
    BY <1>2, <1>3, <1>4, Zenon
  <1> QED BY <1>4, <1>5 DEF Block, x, z

\* A platform block is unwrapped, or goes.
LEMMA PassOfOnBlock ==
    \A m \in {"unwrap", "resolve"} : \A o, e \in Lines : \A A \in Seq(Lines) :
       o.is = "on" /\ e.is = "end" /\ Bal(A) =>
          /\ Pass(m, Block(o, A, e)) = (IF m = "unwrap" \/ o.here THEN Pass(m, A) ELSE <<>>)
          /\ Splits(m, Block(o, A, e))
  <1> SUFFICES ASSUME NEW m \in {"unwrap", "resolve"}, NEW o \in Lines, NEW e \in Lines,
                      NEW A \in Seq(Lines), o.is = "on", e.is = "end", Bal(A)
               PROVE  /\ Pass(m, Block(o, A, e)) = (IF m = "unwrap" \/ o.here THEN Pass(m, A) ELSE <<>>)
                      /\ Splits(m, Block(o, A, e))
    OBVIOUS
  <1> DEFINE b == Block(o, A, e)
             w == IF m = "unwrap" \/ o.here THEN Pass(m, A) ELSE <<>>
  <1>0. m \in Modes
    BY DEF Modes
  <1>1. ASSUME NEW R \in Seq(Lines) PROVE Pass(m, b \o R) = w \o Pass(m, R)
    <2> DEFINE t == b \o R
    <2>1. t \in Seq(Lines) /\ t # <<>> /\ t[1] = o /\ Inner(t) = A /\ Beyond(t) = R
      BY EndOfBlock
    <2> HIDE DEF t
    <2>2. UnwrapOn(t) = UnwrapOn(A) \o UnwrapOn(R)
      BY <2>1, UnwrapSteps
    <2>3. ResolveOn(t) = (IF o.here THEN ResolveOn(A) ELSE <<>>) \o ResolveOn(R)
      BY <2>1, OnSteps
    <2>4. Pass(m, t) = w \o Pass(m, R)
      BY <2>2, <2>3 DEF Pass
    <2> QED BY <2>4 DEF t
  <1>2. b \in Seq(Lines) /\ w \in Seq(Lines)
    <2>1. b \in Seq(Lines)
      BY BlockParts
    <2> QED BY <1>0, <2>1, PassIsText, JoinLaws
  <1> HIDE DEF b, w
  <1>3. Pass(m, b) = w
    <2>1. b \o <<>> = b /\ w \o <<>> = w /\ <<>> \in Seq(Lines)
      BY <1>2, JoinLaws
    <2>2. Pass(m, b \o <<>>) = w \o Pass(m, <<>>)
      BY <1>1, <2>1
    <2> QED BY <1>0, <2>1, <2>2, PassOfNothing, Zenon
  <1> QED BY <1>1, <1>3 DEF Splits, b, w

\* The platform blocks of a bottle block are unwrapped.
LEMMA PassOfBottleBlock ==
    \A o, e \in Lines : \A A \in Seq(Lines) :
       o.is = "bottle" /\ e.is = "end" /\ Bal(A) =>
          /\ Pass("resolve", Block(o, A, e)) = Block(o, Pass("unwrap", A), e)
          /\ Splits("resolve", Block(o, A, e))
  <1> SUFFICES ASSUME NEW o \in Lines, NEW e \in Lines, NEW A \in Seq(Lines),
                      o.is = "bottle", e.is = "end", Bal(A)
               PROVE  /\ Pass("resolve", Block(o, A, e)) = Block(o, Pass("unwrap", A), e)
                      /\ Splits("resolve", Block(o, A, e))
    OBVIOUS
  <1> DEFINE b == Block(o, A, e)
             w == Block(o, Pass("unwrap", A), e)
             x == <<o>>
             z == <<e>>
             u == Pass("unwrap", A)
  <1>0. "resolve" \in Modes /\ "unwrap" \in Modes
    BY DEF Modes
  <1>1. b \in Seq(Lines) /\ w \in Seq(Lines) /\ u \in Seq(Lines) /\ w = (x \o u) \o z
    <2>1. u \in Seq(Lines)
      BY <1>0, PassIsText
    <2> HIDE DEF u
    <2>2. Block(o, u, e) \in Seq(Lines) /\ Block(o, A, e) \in Seq(Lines)
      BY <2>1, BlockParts
    <2> QED BY <2>1, <2>2 DEF u, Block
  <1>2. ASSUME NEW R \in Seq(Lines) PROVE Pass("resolve", b \o R) = w \o Pass("resolve", R)
    <2> DEFINE t == b \o R
    <2>1. t \in Seq(Lines) /\ t # <<>> /\ t[1] = o /\ Inner(t) = A /\ Beyond(t) = R
          /\ Cut(t, MatchingEnd(t), MatchingEnd(t)) = z
      BY EndOfBlock
    <2> HIDE DEF t, x, z
    <2>2. ResolveOn(t) = <<o>> \o UnwrapOn(A) \o z \o ResolveOn(R)
      BY <2>1, OnSteps
    <2> QED BY <1>1, <2>2 DEF Pass, t, x, z
  <1> HIDE DEF b, w
  <1>3. Pass("resolve", b) = w
    <2>1. b \o <<>> = b /\ w \o <<>> = w /\ <<>> \in Seq(Lines)
      BY <1>1, JoinLaws
    <2>2. Pass("resolve", b \o <<>>) = w \o Pass("resolve", <<>>)
      BY <1>2, <2>1
    <2> QED BY <1>0, <2>1, <2>2, PassOfNothing, Zenon
  <1> QED BY <1>2, <1>3 DEF Splits, b, w

-----------------------------------------------------------------------------
(* The branches of a conditional.                                          *)

LEMMA LeastIs ==
    ASSUME NEW S, S \subseteq Nat, S # {}
    PROVE  Min(S) \in S /\ \A y \in S : Min(S) <= y
  <1>1. \E x \in S : \A y \in S : x <= y
    BY LeastNatural
  <1> QED BY <1>1, Zenon DEF Min

\* The least of numbers that are all moved.
LEMMA ShiftedMin ==
    ASSUME NEW S, S \subseteq Nat, NEW none
    PROVE  /\ S # {} => Min({i + 1 : i \in S}) = Min(S) + 1
           /\ FirstOf({i + 1 : i \in S}, none + 1) = FirstOf(S, none) + 1
           /\ {i + 1 : i \in S} = {} <=> S = {}
  <1> DEFINE U == {i + 1 : i \in S}
  <1>1. U \subseteq Nat /\ (U = {} <=> S = {})
    OBVIOUS
  <1>2. ASSUME S # {} PROVE Min(U) = Min(S) + 1
    <2>1. Min(S) \in S /\ \A y \in S : Min(S) <= y
      BY <1>2, LeastIs
    <2>2. Min(S) + 1 \in U /\ \A y \in U : Min(S) + 1 <= y
      <3> DEFINE m == Min(S)
      <3>1. m \in S /\ m \in Nat /\ \A y \in S : m <= y
        BY <2>1
      <3> HIDE DEF m
      <3>2. m + 1 \in U
        BY <3>1
      <3>3. ASSUME NEW y \in U PROVE m + 1 <= y
        <4>1. PICK i \in S : y = i + 1
          OBVIOUS
        <4>2. i \in Nat /\ m <= i
          BY <3>1
        <4> QED BY <3>1, <4>1, <4>2
      <3> QED BY <3>2, <3>3 DEF m
    <2> HIDE DEF U
    <2> QED BY <1>1, <2>2, FirstIs
  <1> HIDE DEF U
  <1>3. FirstOf(U, none + 1) = FirstOf(S, none) + 1
    BY <1>1, <1>2 DEF FirstOf
  <1> QED BY <1>1, <1>2, <1>3 DEF U

\* A part of two texts is a part of the first, and a part of the second.
LEMMA SubOfConcat ==
    \A a, p \in Seq(Lines) : \A f \in 0..Len(a) :
       /\ SubSeq(a \o p, f + 1, Len(a \o p)) = SubSeq(a, f + 1, Len(a)) \o p
       /\ \A b \in 0..Len(a) : SubSeq(a \o p, f + 1, b) = SubSeq(a, f + 1, b)
  <1> SUFFICES ASSUME NEW a \in Seq(Lines), NEW p \in Seq(Lines), NEW f \in 0..Len(a)
               PROVE  /\ SubSeq(a \o p, f + 1, Len(a \o p)) = SubSeq(a, f + 1, Len(a)) \o p
                      /\ \A b \in 0..Len(a) : SubSeq(a \o p, f + 1, b) = SubSeq(a, f + 1, b)
    OBVIOUS
  <1> DEFINE x == SubSeq(a, 1, f)
             y == SubSeq(a, f + 1, Len(a))
  <1>1. x \in Seq(Lines) /\ y \in Seq(Lines) /\ Len(x) = f /\ f \in Nat /\ Len(a) \in Nat
    <2>1. f + 1 \in Nat \ {0} /\ Len(a) \in 0..Len(a) /\ 1 \in Nat \ {0}
      OBVIOUS
    <2>2. x \in Seq(Lines) /\ Len(x) = IF 1 <= f THEN f - 1 + 1 ELSE 0
      BY <2>1, CutParts
    <2>3. y \in Seq(Lines)
      BY <2>1, CutParts
    <2>4. f \in Nat /\ Len(a) \in Nat
      OBVIOUS
    <2>5. Len(x) = f
      BY <2>2, <2>4
    <2> QED BY <2>2, <2>3, <2>4, <2>5
  <1>2. x \o y = a
    <2>1. 1 \in 1..(Len(a) + 1) /\ f \in (1 - 1)..Len(a) /\ Len(a) \in f..Len(a)
      OBVIOUS
    <2>2. SubSeq(a, 1, f) \o SubSeq(a, f + 1, Len(a)) = SubSeq(a, 1, Len(a))
      BY <2>1, ConcatAdjacentSubSeq
    <2> QED BY <2>2, SubSeqFull
  <1> HIDE DEF x, y
  <1>3. SubSeq(a \o p, f + 1, Len(a \o p)) = y \o p
    <2>1. (x \o y) \o p = x \o (y \o p) /\ y \o p \in Seq(Lines)
      <3>1. Associates(x, y, p)
        BY <1>1, TextsAssociate
      <3>2. y \o p \in Seq(Lines)
        BY <1>1, JoinLaws
      <3> QED BY <3>1, <3>2 DEF Associates
    <2>2. SubSeq(x \o (y \o p), Len(x) + 1, Len(x \o (y \o p))) = y \o p
      BY <1>1, <2>1, StartAndRestOf
    <2> QED BY <1>1, <1>2, <2>1, <2>2, Zenon
  <1>4. ASSUME NEW b \in 0..Len(a) PROVE SubSeq(a \o p, f + 1, b) = SubSeq(a, f + 1, b)
    <2> DEFINE t == a \o p
               v == SubSeq(t, f + 1, b)
               w == SubSeq(a, f + 1, b)
    <2>1. t \in Seq(Lines) /\ Len(t) = Len(a) + Len(p) /\ Len(p) \in Nat /\ \A i \in 1..Len(a) : t[i] = a[i]
      BY JoinParts
    <2>2. f + 1 \in Nat \ {0} /\ b \in 0..Len(t) /\ b \in Nat
      BY <2>1
    <2> HIDE DEF t
    <2>3. v \in Seq(Lines) /\ Len(v) = (IF f + 1 <= b THEN b - (f + 1) + 1 ELSE 0)
          /\ \A i \in 1..(b - (f + 1) + 1) : v[i] = t[(f + 1) + i - 1]
      BY <2>1, <2>2, CutParts
    <2>4. w \in Seq(Lines) /\ Len(w) = (IF f + 1 <= b THEN b - (f + 1) + 1 ELSE 0)
          /\ \A i \in 1..(b - (f + 1) + 1) : w[i] = a[(f + 1) + i - 1]
      BY <2>2, CutParts
    <2> HIDE DEF v, w
    <2>5. ASSUME NEW i \in 1..Len(v) PROVE v[i] = w[i]
      <3>1. i \in 1..(b - (f + 1) + 1) /\ (f + 1) + i - 1 \in 1..Len(a)
        BY <2>2, <2>3
      <3> QED BY <2>1, <2>3, <2>4, <3>1
    <2>6. v = w
      BY <2>3, <2>4, <2>5, SeqEqual
    <2> QED BY <2>6 DEF v, w, t
  <1> QED BY <1>3, <1>4 DEF y

\* The lines of a block, counted from its first line.
LEMMA CutInBlock ==
    \A o, e \in Lines : \A A, R \in Seq(Lines) :
       LET t == Block(o, A, e) \o R IN
       /\ \A i \in 1..Len(A) : t[i + 1] = A[i]
       /\ \A a \in 1..(Len(A) + 1) : \A b \in 0..Len(A) : Cut(t, a + 1, b + 1) = SubSeq(A, a, b)
  <1> SUFFICES ASSUME NEW o \in Lines, NEW e \in Lines, NEW A \in Seq(Lines), NEW R \in Seq(Lines)
               PROVE  LET t == Block(o, A, e) \o R IN
                      /\ \A i \in 1..Len(A) : t[i + 1] = A[i]
                      /\ \A a \in 1..(Len(A) + 1) : \A b \in 0..Len(A) :
                            Cut(t, a + 1, b + 1) = SubSeq(A, a, b)
    OBVIOUS
  <1> DEFINE k == Block(o, A, e)
             t == k \o R
             n == Len(A)
  <1>1. k \in Seq(Lines) /\ Len(k) = n + 2 /\ \A i \in 1..n : k[i + 1] = A[i]
    BY BlockParts
  <1>2. n \in Nat /\ Len(R) \in Nat
    OBVIOUS
  <1> HIDE DEF k, n
  <1>3. t \in Seq(Lines) /\ Len(t) = Len(k) + Len(R) /\ \A i \in 1..Len(k) : t[i] = k[i]
    BY <1>1, JoinParts
  <1> HIDE DEF t
  <1>4. \A i \in 1..n : t[i + 1] = A[i]
    <2>1. \A i \in 1..n : i + 1 \in 1..Len(k)
      BY <1>1, <1>2
    <2> QED BY <1>1, <1>3, <2>1
  <1>5. ASSUME NEW a \in 1..(n + 1), NEW b \in 0..n PROVE Cut(t, a + 1, b + 1) = SubSeq(A, a, b)
    <2> DEFINE v == SubSeq(t, a + 1, b + 1)
               w == SubSeq(A, a, b)
    <2>1. a + 1 \in Nat \ {0} /\ a \in Nat \ {0} /\ b + 1 \in 0..Len(t) /\ b \in Nat /\ b \in 0..Len(A)
      <3>1. a \in Nat \ {0} /\ b \in Nat /\ b <= n /\ Len(t) = n + 2 + Len(R)
        BY <1>1, <1>2, <1>3
      <3>2. b \in 0..Len(A)
        BY DEF n
      <3> QED BY <1>2, <3>1, <3>2
    <2>2. v \in Seq(Lines)
          /\ Len(v) = (IF a + 1 <= b + 1 THEN (b + 1) - (a + 1) + 1 ELSE 0)
          /\ \A i \in 1..((b + 1) - (a + 1) + 1) : v[i] = t[(a + 1) + i - 1]
      BY <1>3, <2>1, CutParts
    <2>3. w \in Seq(Lines) /\ Len(w) = (IF a <= b THEN b - a + 1 ELSE 0)
          /\ \A i \in 1..(b - a + 1) : w[i] = A[a + i - 1]
      BY <2>1, CutParts
    <2> HIDE DEF v, w
    <2>4. Len(v) = Len(w)
      BY <2>1, <2>2, <2>3
    <2>5. ASSUME NEW i \in 1..Len(v) PROVE v[i] = w[i]
      <3>1. i \in 1..((b + 1) - (a + 1) + 1) /\ i \in 1..(b - a + 1) /\ a + i - 1 \in 1..n
            /\ (a + 1) + i - 1 = (a + i - 1) + 1
        BY <1>2, <2>1, <2>2
      <3>2. v[i] = t[(a + i - 1) + 1] /\ w[i] = A[a + i - 1]
        BY <2>2, <2>3, <3>1
      <3> QED BY <1>4, <3>1, <3>2
    <2>6. v = w
      BY <2>2, <2>3, <2>4, <2>5, SeqEqual
    <2> QED BY <1>3, <2>1, <2>6, CutIs DEF v, w
  <1> QED BY <1>4, <1>5 DEF t, k, n

Branch(l) == l.is \in {"elsif", "else"}

\* Where the branches of the innermost conditional start, those whose condition holds
\* (0: its first line), and the lines of the first of these.
Own(ls) == {i \in AtTop(ls) : Branch(ls[i])}
Taken(o, ls) == {i \in Own(ls) : ls[i].is = "else" \/ ls[i].here} \cup (IF o.here THEN {0} ELSE {})
NextOwn(ls, from) == FirstOf({i \in Own(ls) : i > from}, Len(ls) + 1)
Chosen(o, ls) ==
    IF Taken(o, ls) = {} THEN <<>>
    ELSE SubSeq(ls, Min(Taken(o, ls)) + 1, NextOwn(ls, Min(Taken(o, ls))) - 1)

LEMMA AtTopIs ==
    \A ls \in Seq(Lines) :
       AtTop(ls) = {i \in 1..Len(ls) : Depth(SubSeq(ls, 1, i - 1), 0) = 0}
  <1> SUFFICES ASSUME NEW ls \in Seq(Lines)
               PROVE  AtTop(ls) = {i \in 1..Len(ls) : Depth(SubSeq(ls, 1, i - 1), 0) = 0}
    OBVIOUS
  <1>1. DOMAIN ls = 1..Len(ls)
    OBVIOUS
  <1>2. ASSUME NEW i \in 1..Len(ls) PROVE Cut(ls, 1, i - 1) = SubSeq(ls, 1, i - 1)
    <2>1. i - 1 \in 0..Len(ls)
      OBVIOUS
    <2> QED BY <2>1, CutIs
  <1> QED BY <1>1, <1>2 DEF AtTop

\* The lines at the top of a balanced text and another are those of both.
LEMMA AtTopOfConcat ==
    \A a, b \in Seq(Lines) : Bal(a) =>
       AtTop(a \o b) = AtTop(a) \cup {Len(a) + i : i \in AtTop(b)}
  <1> SUFFICES ASSUME NEW a \in Seq(Lines), NEW b \in Seq(Lines), Bal(a)
               PROVE  AtTop(a \o b) = AtTop(a) \cup {Len(a) + i : i \in AtTop(b)}
    OBVIOUS
  <1> DEFINE t == a \o b
             n == Len(a)
  <1>1. t \in Seq(Lines) /\ Len(t) = n + Len(b) /\ n \in Nat /\ Len(b) \in Nat
        /\ (\A i \in 1..n : t[i] = a[i]) /\ \A i \in 1..Len(b) : t[n + i] = b[i]
    BY JoinParts
  <1>2. ASSUME NEW i \in 1..n PROVE SubSeq(t, 1, i - 1) = SubSeq(a, 1, i - 1)
    <2>1. i - 1 \in 0..(Len(a) + Len(b)) /\ i - 1 <= Len(a)
      OBVIOUS
    <2> QED BY <2>1, PrefixOfConcat
  <1>3. ASSUME NEW i \in 1..Len(b)
        PROVE  Depth(SubSeq(t, 1, (n + i) - 1), 0) = Depth(SubSeq(b, 1, i - 1), 0)
    <2> DEFINE p == SubSeq(b, 1, i - 1)
    <2>1. p \in Seq(Lines)
      OBVIOUS
    <2>2. SubSeq(t, 1, (n + i) - 1) = a \o p
      <3>1. CASE i = 1
        <4>1. (n + i) - 1 = Len(a) /\ i - 1 = 0 /\ n \in 0..(Len(a) + Len(b))
          BY <3>1
        <4>2. SubSeq(t, 1, Len(a)) = a /\ SubSeq(b, 1, 0) = <<>>
          BY StartAndRestOf
        <4>3. a \o <<>> = a
          BY ConcatEmptySeq
        <4> QED BY <4>1, <4>2, <4>3, Zenon
      <3>2. CASE i # 1
        <4>1. (n + i) - 1 \in 0..(Len(a) + Len(b)) /\ ~((n + i) - 1 <= Len(a)) /\ ((n + i) - 1) - Len(a) = i - 1
          BY <3>2
        <4> QED BY <4>1, PrefixOfConcat
      <3> QED BY <3>1, <3>2
    <2> HIDE DEF p
    <2>3. Depth(a \o p, 0) = Depth(p, Depth(a, 0))
      BY <2>1, DepthOfConcat
    <2>4. Depth(a, 0) = 0
      BY DEF Bal
    <2> QED BY <2>2, <2>3, <2>4, Zenon DEF p
  <1> HIDE DEF t, n
  <1>4. \A i \in 1..n : i \in AtTop(t) <=> i \in AtTop(a)
    <2>1. AtTop(a) = {i \in 1..n : Depth(SubSeq(a, 1, i - 1), 0) = 0}
          /\ AtTop(t) = {i \in 1..Len(t) : Depth(SubSeq(t, 1, i - 1), 0) = 0}
      BY <1>1, AtTopIs DEF n
    <2>2. \A i \in 1..n : i \in 1..Len(t)
      BY <1>1
    <2> QED BY <1>2, <2>1, <2>2
  <1>5. \A i \in 1..Len(b) : n + i \in AtTop(t) <=> i \in AtTop(b)
    <2>1. AtTop(b) = {i \in 1..Len(b) : Depth(SubSeq(b, 1, i - 1), 0) = 0}
          /\ AtTop(t) = {i \in 1..Len(t) : Depth(SubSeq(t, 1, i - 1), 0) = 0}
      BY <1>1, AtTopIs
    <2>2. \A i \in 1..Len(b) : n + i \in 1..Len(t)
      BY <1>1
    <2> QED BY <1>3, <2>1, <2>2
  <1>6. AtTop(t) \subseteq 1..Len(t) /\ AtTop(a) \subseteq 1..n /\ AtTop(b) \subseteq 1..Len(b)
    <2>1. AtTop(t) \subseteq 1..Len(t) /\ AtTop(a) \subseteq 1..Len(a) /\ AtTop(b) \subseteq 1..Len(b)
      BY <1>1, AtTopIs
    <2> QED BY <2>1 DEF n
  <1>7. ASSUME NEW j \in 1..Len(t) PROVE j \in 1..n \/ \E i \in 1..Len(b) : j = n + i
    <2>1. CASE j <= n
      BY <1>1, <2>1
    <2>2. CASE j > n
      <3>1. j - n \in 1..Len(b) /\ j = n + (j - n)
        BY <1>1, <2>2
      <3> QED BY <3>1
    <2> QED BY <1>1, <2>1, <2>2
  <1>8. ASSUME NEW j \in AtTop(t) PROVE j \in AtTop(a) \cup {n + i : i \in AtTop(b)}
    BY <1>4, <1>5, <1>6, <1>7
  <1>9. ASSUME NEW j \in AtTop(a) \cup {n + i : i \in AtTop(b)} PROVE j \in AtTop(t)
    BY <1>4, <1>5, <1>6
  <1> QED BY <1>8, <1>9 DEF t, n

LEMMA AtTopOfLine ==
    \A l \in Lines : AtTop(<<l>>) = {1}
  <1> SUFFICES ASSUME NEW l \in Lines PROVE AtTop(<<l>>) = {1}
    OBVIOUS
  <1> DEFINE x == <<l>>
             none == <<>>
  <1>1. x \in Seq(Lines) /\ Len(x) = 1 /\ SubSeq(x, 1, 0) = none /\ Depth(none, 0) = 0
    BY OneLine, DepthOfLines
  <1> HIDE DEF x, none
  <1>5. Depth(SubSeq(x, 1, 1 - 1), 0) = 0
    <2>1. 1 - 1 = 0
      OBVIOUS
    <2> QED BY <1>1, <2>1, Zenon
  <1>2. AtTop(x) = {i \in 1..1 : Depth(SubSeq(x, 1, i - 1), 0) = 0}
    BY <1>1, AtTopIs
  <1>3. \A i \in 1..1 : i = 1
    OBVIOUS
  <1>4. AtTop(x) = {1}
    <2> DEFINE D(i) == Depth(SubSeq(x, 1, i - 1), 0)
    <2>1. D(1) = 0 /\ AtTop(x) = {i \in 1..1 : D(i) = 0}
      BY <1>2, <1>5
    <2> HIDE DEF D
    <2> QED BY <1>3, <2>1
  <1> QED BY <1>4 DEF x

\* Of a block, only the first line is at the top, and its end if the block holds nothing.
LEMMA AtTopOfBlock ==
    \A o, e : \A A \in Seq(Lines) : IsOpener(o) /\ IsEnd(e) /\ Bal(A) =>
       AtTop(Block(o, A, e)) \subseteq {1}
  <1> SUFFICES ASSUME NEW o, NEW e, NEW A \in Seq(Lines), IsOpener(o), IsEnd(e), Bal(A),
                      NEW i \in AtTop(Block(o, A, e)), i # 1
               PROVE  FALSE
    OBVIOUS
  <1> DEFINE t == Block(o, A, e)
             n == Len(A)
  <1>1. o \in Lines /\ e \in Lines
    BY DEF IsOpener, IsEnd
  <1>2. t \in Seq(Lines) /\ Len(t) = n + 2 /\ n \in Nat
    BY <1>1, BlockParts
  <1>3. i \in 1..(n + 2) /\ Depth(SubSeq(t, 1, i - 1), 0) = 0
    <2> HIDE DEF t, n
    <2>1. AtTop(t) = {j \in 1..Len(t) : Depth(SubSeq(t, 1, j - 1), 0) = 0}
      BY <1>2, AtTopIs
    <2>2. i \in AtTop(t)
      BY DEF t
    <2> QED BY <1>2, <2>1, <2>2
  <1>5. i - 1 \in 0..(Len(A) + 2) /\ i - 1 # 0 /\ i - 1 <= Len(A) + 1 /\ (i - 1) - 1 \in 0..Len(A)
    BY <1>2, <1>3
  <1>6. SubSeq(t, 1, i - 1) = <<o>> \o SubSeq(A, 1, (i - 1) - 1)
    BY <1>1, <1>5, BlockPrefix
  <1> DEFINE y == Depth(<<o>> \o SubSeq(A, 1, (i - 1) - 1), 0)
  <1>7. y >= 0 + 1
    BY <1>5, DepthInBlock
  <1>8. y = 0
    BY <1>3, <1>6, Zenon
  <1> HIDE DEF y
  <1> QED BY <1>7, <1>8

LEMMA OwnIsThere ==
    \A ls \in Seq(Lines) : Own(ls) \subseteq 1..Len(ls) /\ Own(ls) \subseteq Nat
  BY AtTopIs DEF Own

LEMMA TakenIsThere ==
    \A ls \in Seq(Lines) : \A o : Taken(o, ls) \subseteq 0..Len(ls) /\ Taken(o, ls) \subseteq Nat
  BY OwnIsThere DEF Taken

LEMMA NextOwnIsThere ==
    \A ls \in Seq(Lines) : \A from \in 0..Len(ls) :
       NextOwn(ls, from) \in (from + 1)..(Len(ls) + 1)
  <1> SUFFICES ASSUME NEW ls \in Seq(Lines), NEW from \in 0..Len(ls)
               PROVE  NextOwn(ls, from) \in (from + 1)..(Len(ls) + 1)
    OBVIOUS
  <1> DEFINE S == {i \in Own(ls) : i > from}
  <1>1. S \subseteq Nat /\ S \subseteq (from + 1)..Len(ls)
    BY OwnIsThere
  <1> HIDE DEF S
  <1>2. FirstOf(S, Len(ls) + 1) \in S \cup {Len(ls) + 1}
    BY <1>1, FirstIsOneOf
  <1>3. FirstOf(S, Len(ls) + 1) \in (from + 1)..(Len(ls) + 1)
    <2> DEFINE x == FirstOf(S, Len(ls) + 1)
    <2>1. x \in S \cup {Len(ls) + 1}
      BY <1>2
    <2>2. Len(ls) \in Nat /\ from \in Nat /\ from <= Len(ls)
      OBVIOUS
    <2> HIDE DEF x
    <2>3. x \in (from + 1)..(Len(ls) + 1)
      BY <1>1, <2>1, <2>2
    <2> QED BY <2>3 DEF x
  <1> QED BY <1>3 DEF NextOwn, S

LEMMA KeptIsText ==
    \A ls \in Seq(Lines) : \A o : Chosen(o, ls) \in Seq(Lines)
  <1> SUFFICES ASSUME NEW ls \in Seq(Lines), NEW o PROVE Chosen(o, ls) \in Seq(Lines)
    OBVIOUS
  <1>1. CASE Taken(o, ls) = {}
    BY <1>1 DEF Chosen
  <1>2. CASE Taken(o, ls) # {}
    <2> DEFINE f == Min(Taken(o, ls))
               g == NextOwn(ls, f)
    <2>1. f \in 0..Len(ls)
      BY <1>2, TakenIsThere, LeastIs
    <2>2. g \in (f + 1)..(Len(ls) + 1)
      BY <2>1, NextOwnIsThere
    <2>3. f + 1 \in Nat \ {0} /\ g - 1 \in 0..Len(ls)
      BY <2>1, <2>2
    <2> HIDE DEF f, g
    <2>4. SubSeq(ls, f + 1, g - 1) \in Seq(Lines)
      BY <2>3, CutParts
    <2> QED BY <1>2, <2>4 DEF Chosen, f, g
  <1> QED BY <1>1, <1>2

LEMMA OwnOfNothing == Own(<<>>) = {}
  BY DEF Own, AtTop

\* The branches in two texts, the first of them balanced.
LEMMA OwnOfConcat ==
    \A a, b \in Seq(Lines) : Bal(a) => Own(a \o b) = Own(a) \cup {Len(a) + i : i \in Own(b)}
  <1> SUFFICES ASSUME NEW a \in Seq(Lines), NEW b \in Seq(Lines), Bal(a)
               PROVE  Own(a \o b) = Own(a) \cup {Len(a) + i : i \in Own(b)}
    OBVIOUS
  <1> DEFINE t == a \o b
  <1>1. AtTop(t) = AtTop(a) \cup {Len(a) + i : i \in AtTop(b)}
    BY AtTopOfConcat
  <1>2. /\ \A i \in 1..Len(a) : t[i] = a[i]
        /\ \A i \in 1..Len(b) : t[Len(a) + i] = b[i]
    BY JoinParts
  <1>3. AtTop(a) \subseteq 1..Len(a) /\ AtTop(b) \subseteq 1..Len(b)
    BY AtTopIs
  <1> HIDE DEF t
  <1>4. Own(t) = Own(a) \cup {Len(a) + i : i \in Own(b)}
    BY <1>1, <1>2, <1>3 DEF Own
  <1> QED BY <1>4 DEF t

LEMMA OwnOfLine ==
    \A l \in Lines : Own(<<l>>) = IF Branch(l) THEN {1} ELSE {}
  BY AtTopOfLine, OneLine DEF Own

\* The branches in a block are not those of the conditional around it.
LEMMA OwnOfBlock ==
    \A o, e : \A A \in Seq(Lines) : IsOpener(o) /\ IsEnd(e) /\ Bal(A) => Own(Block(o, A, e)) = {}
  <1> SUFFICES ASSUME NEW o, NEW e, NEW A \in Seq(Lines), IsOpener(o), IsEnd(e), Bal(A)
               PROVE  Own(Block(o, A, e)) = {}
    OBVIOUS
  <1>1. AtTop(Block(o, A, e)) \subseteq {1}
    BY AtTopOfBlock
  <1>2. Block(o, A, e)[1] = o
    BY BlockParts DEF IsOpener, IsEnd
  <1>3. ~Branch(o)
    BY DEF IsOpener, Branch, Opens, Openers
  <1> QED BY <1>1, <1>2, <1>3 DEF Own

LEMMA OneNatural == \A x \in Nat : \A none : FirstOf({x}, none) = x /\ Min({x}) = x
  <1> SUFFICES ASSUME NEW x \in Nat, NEW none PROVE FirstOf({x}, none) = x /\ Min({x}) = x
    OBVIOUS
  <1> DEFINE S == {x}
  <1>1. S \subseteq Nat /\ x \in S /\ \A y \in S : x <= y
    OBVIOUS
  <1> HIDE DEF S
  <1>2. FirstOf(S, none) = x /\ Min(S) = x
    BY <1>1, FirstIs
  <1> QED BY <1>2 DEF S

\* What the block of a conditional knows of its branches.
BranchFits(o, ls, b) ==
    /\ b.taken = (Taken(o, ls) # {})
    /\ b.live = (Taken(o, ls) # {} /\ \A i \in Own(ls) : i <= Min(Taken(o, ls)))

\* Of a conditional without lines, nothing is kept.
LEMMA KeptOfNothing ==
    \A o, b : o.here \in BOOLEAN /\ b.taken = o.here /\ b.live = o.here =>
       Chosen(o, <<>>) = <<>> /\ BranchFits(o, <<>>, b)
  <1> SUFFICES ASSUME NEW o, NEW b, o.here \in BOOLEAN, b.taken = o.here, b.live = o.here
               PROVE  Chosen(o, <<>>) = <<>> /\ BranchFits(o, <<>>, b)
    OBVIOUS
  <1> DEFINE none == <<>>
  <1>1. none \in Seq(Lines) /\ Len(none) = 0 /\ Own(none) = {}
    BY OwnOfNothing
  <1> HIDE DEF none
  <1>2. Taken(o, none) = IF o.here THEN {0} ELSE {}
    BY <1>1 DEF Taken
  <1>3. BranchFits(o, none, b)
    BY <1>1, <1>2 DEF BranchFits
  <1>4. Chosen(o, none) = <<>>
    <2>1. CASE Taken(o, none) = {}
      BY <2>1 DEF Chosen
    <2>2. CASE Taken(o, none) # {}
      <3> DEFINE f == Min(Taken(o, none))
                 g == NextOwn(none, f)
      <3>1. f \in 0..0
        BY <1>1, <2>2, TakenIsThere, LeastIs
      <3>2. g \in (f + 1)..(Len(none) + 1)
        BY <1>1, <3>1, NextOwnIsThere
      <3>3. g - 1 = 0 /\ f + 1 = 1
        BY <1>1, <3>1, <3>2
      <3> HIDE DEF f, g
      <3>4. SubSeq(none, 1, 0) = <<>>
        BY SubSeqEmpty
      <3>5. SubSeq(none, f + 1, g - 1) = <<>>
        BY <3>3, <3>4, Zenon
      <3> QED BY <2>2, <3>5 DEF Chosen, f, g
    <2> QED BY <2>1, <2>2
  <1> QED BY <1>3, <1>4 DEF none

\* Lines that start no branch of it go to the branch that is open.
LEMMA KeptOfPiece ==
    \A o : \A a, p \in Seq(Lines) : \A b : Bal(a) /\ Own(p) = {} /\ BranchFits(o, a, b) =>
       /\ Chosen(o, a \o p) = IF b.live THEN Chosen(o, a) \o p ELSE Chosen(o, a)
       /\ BranchFits(o, a \o p, b)
  <1> SUFFICES ASSUME NEW o, NEW a \in Seq(Lines), NEW p \in Seq(Lines), NEW b,
                      Bal(a), Own(p) = {}, BranchFits(o, a, b)
               PROVE  /\ Chosen(o, a \o p) = IF b.live THEN Chosen(o, a) \o p ELSE Chosen(o, a)
                      /\ BranchFits(o, a \o p, b)
    OBVIOUS
  <1> DEFINE t == a \o p
             T == Taken(o, a)
             f == Min(T)
  <1>1. t \in Seq(Lines) /\ Len(t) = Len(a) + Len(p) /\ (\A i \in 1..Len(a) : t[i] = a[i])
        /\ Len(a) \in Nat /\ Len(p) \in Nat
    BY JoinParts
  <1>2. Own(t) = Own(a)
    <2>1. Own(t) = Own(a) \cup {Len(a) + i : i \in Own(p)}
      BY OwnOfConcat
    <2> HIDE DEF t
    <2> QED BY <2>1
  <1> HIDE DEF t
  <1>3. Own(a) \subseteq 1..Len(a)
    BY OwnIsThere
  <1>4. Taken(o, t) = T
    <2>1. \A i \in Own(a) : t[i] = a[i]
      BY <1>1, <1>3
    <2> QED BY <1>2, <2>1 DEF Taken
  <1>5. BranchFits(o, t, b)
    BY <1>2, <1>4 DEF BranchFits
  <1>6. CASE T = {}
    <2>1. ~b.live
      BY <1>6 DEF BranchFits
    <2>2. Chosen(o, t) = <<>> /\ Chosen(o, a) = <<>>
      BY <1>4, <1>6 DEF Chosen
    <2> QED BY <1>5, <2>1, <2>2 DEF t
  <1>7. CASE T # {}
    <2>1. f \in 0..Len(a) /\ f \in T
      BY <1>7, TakenIsThere, LeastIs
    <2>2. b.live = \A i \in Own(a) : i <= f
      BY <1>7 DEF BranchFits
    <2> HIDE DEF T, f
    <2>3. Chosen(o, t) = SubSeq(t, f + 1, NextOwn(t, f) - 1) /\ Chosen(o, a) = SubSeq(a, f + 1, NextOwn(a, f) - 1)
      BY <1>4, <1>7 DEF Chosen, T, f
    <2> DEFINE S == {i \in Own(a) : i > f}
    <2>4. NextOwn(t, f) = FirstOf(S, Len(t) + 1) /\ NextOwn(a, f) = FirstOf(S, Len(a) + 1)
      BY <1>2 DEF NextOwn
    <2>5. CASE b.live
      <3>0. \A i \in Own(a) : i <= f
        BY <2>2, <2>5, Zenon
      <3>1. S = {}
        BY <1>3, <2>1, <3>0
      <3> HIDE DEF S
      <3>2. NextOwn(t, f) = Len(t) + 1 /\ NextOwn(a, f) = Len(a) + 1
        BY <2>4, <3>1 DEF FirstOf
      <3>3. (Len(t) + 1) - 1 = Len(t) /\ (Len(a) + 1) - 1 = Len(a)
        BY <1>1
      <3>4. Chosen(o, t) = SubSeq(t, f + 1, Len(t)) /\ Chosen(o, a) = SubSeq(a, f + 1, Len(a))
        BY <2>3, <3>2, <3>3, Zenon
      <3>5. SubSeq(a \o p, f + 1, Len(a \o p)) = SubSeq(a, f + 1, Len(a)) \o p
        BY <2>1, SubOfConcat
      <3>6. Chosen(o, t) = Chosen(o, a) \o p
        BY <3>4, <3>5, Zenon DEF t
      <3> QED BY <1>5, <2>5, <3>6 DEF t
    <2>6. CASE ~b.live
      <3>1. S # {} /\ S \subseteq Nat /\ S \subseteq 1..Len(a)
        BY <1>3, <2>1, <2>2, <2>6
      <3> HIDE DEF S
      <3>2. NextOwn(t, f) = NextOwn(a, f)
        BY <2>4, <3>1 DEF FirstOf
      <3>3. NextOwn(a, f) \in (f + 1)..(Len(a) + 1)
        BY <2>1, NextOwnIsThere
      <3>4. NextOwn(a, f) - 1 \in 0..Len(a)
        BY <1>1, <2>1, <3>3
      <3>5. SubSeq(a \o p, f + 1, NextOwn(a, f) - 1) = SubSeq(a, f + 1, NextOwn(a, f) - 1)
        BY <2>1, <3>4, SubOfConcat
      <3>6. Chosen(o, t) = Chosen(o, a)
        BY <2>3, <3>2, <3>5, Zenon DEF t
      <3> QED BY <1>5, <2>6, <3>6 DEF t
    <2> QED BY <2>5, <2>6
  <1> QED BY <1>6, <1>7

\* A branch is taken when its condition holds and none was taken before it.
LEMMA KeptOfBranch ==
    \A o : \A a \in Seq(Lines) : \A l \in Lines : \A b, c :
       /\ Bal(a) /\ Branch(l) /\ BranchFits(o, a, b) /\ (l.is = "else" => l.here)
       /\ b.taken \in BOOLEAN
       /\ c.live = (l.here /\ ~b.taken) /\ c.taken = (l.here \/ b.taken)
       => Chosen(o, a \o <<l>>) = Chosen(o, a) /\ BranchFits(o, a \o <<l>>, c)
  <1> SUFFICES ASSUME NEW o, NEW a \in Seq(Lines), NEW l \in Lines, NEW b, NEW c,
                      Bal(a), Branch(l), BranchFits(o, a, b), l.is = "else" => l.here,
                      b.taken \in BOOLEAN,
                      c.live = (l.here /\ ~b.taken), c.taken = (l.here \/ b.taken)
               PROVE  Chosen(o, a \o <<l>>) = Chosen(o, a) /\ BranchFits(o, a \o <<l>>, c)
    OBVIOUS
  <1> DEFINE p == <<l>>
             t == a \o p
             T == Taken(o, a)
             n == Len(a)
  <1>1. p \in Seq(Lines) /\ Len(p) = 1 /\ p[1] = l /\ Own(p) = {1}
    BY OneLine, OwnOfLine
  <1> HIDE DEF p
  <1>2. t \in Seq(Lines) /\ Len(t) = n + 1 /\ (\A i \in 1..n : t[i] = a[i]) /\ t[n + 1] = l /\ n \in Nat
    <2>1. t \in Seq(Lines) /\ Len(t) = Len(a) + Len(p) /\ (\A i \in 1..Len(a) : t[i] = a[i])
          /\ (\A i \in 1..Len(p) : t[Len(a) + i] = p[i]) /\ Len(a) \in Nat
      BY <1>1, JoinParts
    <2>2. 1 \in 1..Len(p)
      BY <1>1
    <2> HIDE DEF t
    <2> QED BY <1>1, <2>1, <2>2
  <1>3. Own(t) = Own(a) \cup {n + 1}
    <2>1. Own(t) = Own(a) \cup {Len(a) + i : i \in Own(p)}
      BY <1>1, OwnOfConcat
    <2> HIDE DEF t
    <2> QED BY <1>1, <2>1
  <1> HIDE DEF t, n
  <1>4. Own(a) \subseteq 1..n
    BY OwnIsThere DEF n
  <1>5. Taken(o, t) = T \cup (IF l.here THEN {n + 1} ELSE {})
    <2>1. \A i \in Own(a) : t[i] = a[i]
      BY <1>2, <1>4
    <2> QED BY <1>2, <1>3, <2>1 DEF Taken
  <1>6. T \subseteq 0..n
    BY TakenIsThere DEF n
  <1>7. b.taken = (T # {})
    BY DEF BranchFits
  <1>8. CASE T # {}
    <2> DEFINE f == Min(T)
    <2>1. f \in T /\ f \in 0..n /\ \A y \in T : f <= y
      BY <1>6, <1>8, TakenIsThere, LeastIs
    <2> HIDE DEF T, f
    <2>2. Min(Taken(o, t)) = f /\ Taken(o, t) # {}
      <3>1. f \in Taken(o, t) /\ \A y \in Taken(o, t) : f <= y
        <4>1. f \in Taken(o, t)
          BY <1>5, <2>1
        <4>2. ASSUME NEW y \in Taken(o, t) PROVE f <= y
          <5>1. y \in T \/ y = n + 1
            BY <1>5, <4>2
          <5>2. n \in Nat
            BY <1>2
          <5>3. CASE y = n + 1
            <6>1. f \in 0..n
              BY <2>1
            <6> QED BY <5>2, <5>3, <6>1
          <5> QED BY <2>1, <5>1, <5>3
        <4> QED BY <4>1, <4>2
      <3>2. Taken(o, t) \subseteq Nat
        BY <1>2, TakenIsThere
      <3> QED BY <3>1, <3>2, FirstIs
    <2>3. Chosen(o, t) = SubSeq(t, f + 1, NextOwn(t, f) - 1) /\ Chosen(o, a) = SubSeq(a, f + 1, NextOwn(a, f) - 1)
      BY <1>8, <2>2 DEF Chosen, T, f
    <2>4. NextOwn(t, f) = NextOwn(a, f)
      <3> DEFINE S == {i \in Own(a) : i > f}
      <3>1. {i \in Own(t) : i > f} = S \cup {n + 1}
        BY <1>2, <1>3, <2>1
      <3>2. S \subseteq 1..n
        BY <1>4
      <3> HIDE DEF S
      <3>3. FirstOf(S \cup {n + 1}, Len(t) + 1) = FirstOf(S, n + 1)
        <4>1. CASE S = {}
          <5>1. n + 1 \in Nat /\ FirstOf({n + 1}, Len(t) + 1) = n + 1
            <6>1. n + 1 \in Nat
              BY <1>2
            <6> QED BY <6>1, OneNatural
          <5>2. S \cup {n + 1} = {n + 1} /\ FirstOf(S, n + 1) = n + 1
            BY <4>1 DEF FirstOf
          <5> QED BY <5>1, <5>2
        <4>2. CASE S # {}
          <5> DEFINE m == Min(S)
          <5>1. S \subseteq Nat
            BY <3>2
          <5>2. m \in S /\ m \in 1..n /\ \A y \in S : m <= y
            BY <3>2, <4>2, <5>1, LeastIs
          <5>3. FirstOf(S, n + 1) = m
            BY <4>2 DEF FirstOf
          <5> HIDE DEF m
          <5> DEFINE U == S \cup {n + 1}
          <5>4. U \subseteq Nat /\ m \in U /\ \A y \in U : m <= y
            BY <1>2, <5>1, <5>2
          <5> HIDE DEF U
          <5>5. FirstOf(U, Len(t) + 1) = m
            BY <5>4, FirstIs
          <5> QED BY <5>3, <5>5 DEF U
        <4> QED BY <4>1, <4>2
      <3> QED BY <3>1, <3>3 DEF NextOwn, S, n
    <2>5. NextOwn(a, f) \in (f + 1)..(n + 1)
      BY <2>1, NextOwnIsThere DEF n
    <2>6. NextOwn(a, f) - 1 \in 0..Len(a) /\ f \in 0..Len(a)
      BY <1>2, <2>1, <2>5 DEF n
    <2>7. SubSeq(a \o p, f + 1, NextOwn(a, f) - 1) = SubSeq(a, f + 1, NextOwn(a, f) - 1)
      <3> DEFINE g == NextOwn(a, f) - 1
      <3>1. g \in 0..Len(a) /\ f \in 0..Len(a)
        BY <2>6
      <3> HIDE DEF g
      <3>2. SubSeq(a \o p, f + 1, g) = SubSeq(a, f + 1, g)
        BY <1>1, <3>1, SubOfConcat
      <3> QED BY <3>2 DEF g
    <2>8. Chosen(o, t) = Chosen(o, a)
      BY <2>3, <2>4, <2>7, Zenon DEF t
    <2>9. BranchFits(o, t, c)
      <3>1. c.taken /\ ~c.live
        BY <1>7, <1>8 DEF T
      <3>2. ~(n + 1 <= f)
        BY <1>2, <2>1
      <3> QED BY <1>3, <1>7, <1>8, <2>2, <3>2 DEF BranchFits
    <2> QED BY <2>8, <2>9 DEF t, p
  <1>9. CASE T = {}
    <2>1. Chosen(o, a) = <<>>
      BY <1>9 DEF Chosen
    <2>2. CASE ~l.here
      <3>1. Taken(o, t) = {}
        BY <1>5, <1>9, <2>2
      <3> QED BY <1>7, <1>9, <2>1, <2>2, <3>1 DEF Chosen, BranchFits, t, p
    <2>3. CASE l.here
      <3>1. Taken(o, t) = {n + 1}
        BY <1>5, <1>9, <2>3
      <3>2. Min({n + 1}) = n + 1
        <4>1. n + 1 \in Nat
          BY <1>2
        <4> QED BY <4>1, OneNatural
      <3>3. NextOwn(t, n + 1) \in ((n + 1) + 1)..(Len(t) + 1)
        <4>1. n + 1 \in 0..Len(t)
          BY <1>2
        <4> QED BY <1>2, <4>1, NextOwnIsThere
      <3>4. NextOwn(t, n + 1) - 1 = n + 1 /\ n + 1 < (n + 1) + 1 /\ (n + 1) + 1 \in Int /\ n + 1 \in Int
        BY <1>2, <3>3
      <3>5. SubSeq(t, (n + 1) + 1, n + 1) = <<>>
        BY <3>4, SubSeqEmpty
      <3>6. Chosen(o, t) = <<>>
        BY <3>1, <3>2, <3>4, <3>5, Zenon DEF Chosen
      <3>7. \A i \in Own(t) : i <= n + 1
        BY <1>2, <1>3, <1>4
      <3>8. BranchFits(o, t, c)
        BY <1>7, <1>9, <2>3, <3>1, <3>2, <3>7 DEF BranchFits
      <3> QED BY <2>1, <3>6, <3>8 DEF t, p
    <2> QED BY <2>2, <2>3
  <1> QED BY <1>8, <1>9

\* The parser keeps the branch that is taken.
LEMMA BranchOfBlock ==
    \A o, e \in Lines : \A A, R \in Seq(Lines) :
       o.is = "if" /\ e.is = "end" /\ Bal(A) => BranchKept(Block(o, A, e) \o R) = Chosen(o, A)
  <1> SUFFICES ASSUME NEW o \in Lines, NEW e \in Lines, NEW A \in Seq(Lines), NEW R \in Seq(Lines),
                      o.is = "if", e.is = "end", Bal(A)
               PROVE  BranchKept(Block(o, A, e) \o R) = Chosen(o, A)
    OBVIOUS
  <1> DEFINE t == Block(o, A, e) \o R
             n == Len(A)
             S == Branches(t)
             K == {i \in S : t[i].is = "else" \/ t[i].here}
             T == Taken(o, A)
  <1>1. /\ t \in Seq(Lines) /\ t[1] = o /\ Len(t) = n + 2 + Len(R) /\ MatchingEnd(t) = n + 2
        /\ n \in Nat /\ Len(R) \in Nat
    <2>1. t \in Seq(Lines) /\ t[1] = o /\ Len(t) = n + 2 + Len(R) /\ MatchingEnd(t) = n + 2
      BY EndOfBlock
    <2>2. n \in Nat /\ Len(R) \in Nat
      OBVIOUS
    <2> QED BY <2>1, <2>2, Zenon
  <1>2. /\ \A i \in 1..n : t[i + 1] = A[i]
        /\ \A a \in 1..(n + 1) : \A b \in 0..n : Cut(t, a + 1, b + 1) = SubSeq(A, a, b)
    BY CutInBlock
  <1> HIDE DEF t
  <1>3. S = {1} \cup {i + 1 : i \in Own(A)}
    <2>1. ASSUME NEW i \in 1..n PROVE i + 1 \in S <=> i \in Own(A)
      <3>1. i + 1 \in 2..((n + 2) - 1) /\ i + 1 # 1
        BY <1>1
      <3>2. Cut(t, 2, (i + 1) - 1) = SubSeq(A, 1, i - 1)
        <4>1. 1 \in 1..(n + 1) /\ i - 1 \in 0..n /\ (i - 1) + 1 = (i + 1) - 1 /\ 1 + 1 = 2
          BY <1>1
        <4>2. Cut(t, 1 + 1, (i - 1) + 1) = SubSeq(A, 1, i - 1)
          BY <1>2, <4>1
        <4> QED BY <4>1, <4>2, Zenon
      <3>3. t[i + 1] = A[i] /\ i \in DOMAIN A
        BY <1>2
      <3>4. i + 1 \in S <=> t[i + 1].is \in {"elsif", "else"} /\ Depth(Cut(t, 2, (i + 1) - 1), 0) = 0
        BY <1>1, <3>1 DEF Branches
      <3>5. i \in Own(A) <=> A[i].is \in {"elsif", "else"} /\ Depth(SubSeq(A, 1, i - 1), 0) = 0
        BY <3>3, AtTopIs DEF Own, Branch
      <3> QED BY <3>2, <3>3, <3>4, <3>5, Zenon
    <2>2. 1 \in S /\ S \subseteq {1} \cup {i + 1 : i \in 1..n}
      <3>1. \A j \in 2..((n + 2) - 1) : j - 1 \in 1..n /\ j = (j - 1) + 1
        BY <1>1
      <3> QED BY <1>1, <3>1 DEF Branches
    <2>3. Own(A) \subseteq 1..n
      BY OwnIsThere
    <2> HIDE DEF S, n
    <2> QED BY <2>1, <2>2, <2>3
  <1>4. K = {i + 1 : i \in T}
    <2>1. 1 \in K <=> o.here
      BY <1>1, <1>3
    <2>2. \A i \in Own(A) : t[i + 1] = A[i] /\ i \in 1..n
      BY <1>2, OwnIsThere
    <2>3. \A i \in Own(A) : i + 1 \in K <=> A[i].is = "else" \/ A[i].here
      BY <1>3, <2>2
    <2>4. \A j \in K : j = 1 \/ \E i \in Own(A) : j = i + 1
      BY <1>3
    <2>5. \A i \in Own(A) : i + 1 # 1 /\ i # 0
      BY <1>1, <2>2
    <2>6. \A i : i \in T <=> (i \in Own(A) /\ (A[i].is = "else" \/ A[i].here)) \/ (i = 0 /\ o.here)
      BY DEF Taken
    <2>7. 0 + 1 = 1
      OBVIOUS
    <2> HIDE DEF K, T
    <2>8. ASSUME NEW j \in K PROVE j \in {i + 1 : i \in T}
      <3>1. CASE j = 1
        BY <2>1, <2>6, <2>7, <2>8, <3>1
      <3>2. CASE j # 1
        BY <2>3, <2>4, <2>6, <2>8, <3>2
      <3> QED BY <3>1, <3>2
    <2>9. ASSUME NEW i \in T PROVE i + 1 \in K
      BY <2>1, <2>3, <2>6, <2>7
    <2> QED BY <2>8, <2>9
  <1>5. T \subseteq Nat /\ T \subseteq 0..n
    BY TakenIsThere
  <1> HIDE DEF K, S
  <1>6. K = {} <=> T = {}
    BY <1>4, <1>5, ShiftedMin
  <1>7. CASE T = {}
    BY <1>6, <1>7 DEF BranchKept, Chosen, K, S, t
  <1>8. CASE T # {}
    <2> DEFINE f == Min(T)
               g == NextOwn(A, f)
    <2>1. f \in T /\ f \in 0..n
      BY <1>5, <1>8, LeastIs
    <2>2. Min(K) = f + 1
      BY <1>4, <1>5, <1>8, ShiftedMin
    <2>3. g \in (f + 1)..(n + 1)
      BY <2>1, NextOwnIsThere
    <2>4. FirstOf({i \in S : i > f + 1}, n + 2) = g + 1
      <3> DEFINE Q == {i \in Own(A) : i > f}
      <3>1. Own(A) \subseteq 1..n
        BY OwnIsThere
      <3> HIDE DEF f, n
      <3>2. {i \in S : i > f + 1} = {i + 1 : i \in Q}
        BY <1>1, <1>3, <2>1, <3>1
      <3>3. Q \subseteq Nat
        BY <3>1
      <3> HIDE DEF Q
      <3>4. FirstOf({i + 1 : i \in Q}, (n + 1) + 1) = FirstOf(Q, n + 1) + 1
        BY <3>3, ShiftedMin
      <3>5. (n + 1) + 1 = n + 2
        BY <1>1
      <3>6. FirstOf({i \in S : i > f + 1}, n + 2) = FirstOf(Q, n + 1) + 1
        BY <3>2, <3>4, <3>5, Zenon
      <3> QED BY <3>6 DEF Q, NextOwn, f, n
    <2> HIDE DEF T, f, g, n
    <2>5. BranchKept(t) = Cut(t, (f + 1) + 1, (g + 1) - 1)
      BY <1>1, <1>6, <1>8, <2>2, <2>4 DEF BranchKept, K, S
    <2>6. f + 1 \in 1..(n + 1) /\ g - 1 \in 0..n /\ (g + 1) - 1 = (g - 1) + 1
      BY <1>1, <2>1, <2>3
    <2>7. Cut(t, (f + 1) + 1, (g - 1) + 1) = SubSeq(A, f + 1, g - 1)
      BY <1>2, <2>6
    <2>8. BranchKept(t) = SubSeq(A, f + 1, g - 1)
      BY <2>5, <2>6, <2>7, Zenon
    <2> QED BY <1>8, <2>8 DEF Chosen, t, f, g, T
  <1> QED BY <1>7, <1>8

\* A conditional leaves what the pass makes of the branch that is kept.
LEMMA PassOfIfBlock ==
    \A o, e \in Lines : \A A \in Seq(Lines) :
       o.is = "if" /\ e.is = "end" /\ Bal(A) /\ Splits("arch", Chosen(o, A)) =>
          /\ Pass("arch", Block(o, A, e)) = Pass("arch", Chosen(o, A))
          /\ Splits("arch", Block(o, A, e))
  <1> SUFFICES ASSUME NEW o \in Lines, NEW e \in Lines, NEW A \in Seq(Lines),
                      o.is = "if", e.is = "end", Bal(A), Splits("arch", Chosen(o, A))
               PROVE  /\ Pass("arch", Block(o, A, e)) = Pass("arch", Chosen(o, A))
                      /\ Splits("arch", Block(o, A, e))
    OBVIOUS
  <1> DEFINE b == Block(o, A, e)
             w == Pass("arch", Chosen(o, A))
  <1>0. "arch" \in Modes
    BY DEF Modes
  <1>1. b \in Seq(Lines) /\ w \in Seq(Lines)
    BY <1>0, BlockParts, KeptIsText, PassIsText
  <1>2. ASSUME NEW R \in Seq(Lines) PROVE Pass("arch", b \o R) = w \o Pass("arch", R)
    <2> DEFINE t == b \o R
    <2>1. t \in Seq(Lines) /\ t # <<>> /\ t[1] = o /\ Beyond(t) = R
      BY EndOfBlock
    <2>2. BranchKept(t) = Chosen(o, A)
      BY BranchOfBlock
    <2> HIDE DEF t
    <2>3. ResolveArch(t) = ResolveArch(Chosen(o, A)) \o ResolveArch(R)
      BY <2>1, <2>2, ArchSteps
    <2> QED BY <2>3 DEF Pass, t
  <1> HIDE DEF b, w
  <1>3. Pass("arch", b) = w
    <2>1. b \o <<>> = b /\ w \o <<>> = w /\ <<>> \in Seq(Lines)
      BY <1>1, JoinLaws
    <2>2. Pass("arch", b \o <<>>) = w \o Pass("arch", <<>>)
      BY <1>2, <2>1
    <2> QED BY <1>0, <2>1, <2>2, PassOfNothing, Zenon
  <1> QED BY <1>2, <1>3 DEF Splits, b, w

-----------------------------------------------------------------------------
(* Here-documents, and the lines of a kind.                                *)

Plain(ls) ==
    [i \in DOMAIN ls |-> IF ls[i].is = "prose" THEN [ls[i] EXCEPT !.is = "eos"] ELSE ls[i]]

NoLine(ls, kinds) == \A i \in DOMAIN ls : ls[i].is \notin kinds

LEMMA PlainIsText ==
    \A ls \in Seq(Lines) :
       /\ Plain(ls) \in Seq(Lines) /\ Len(Plain(ls)) = Len(ls)
       /\ \A i \in 1..Len(ls) : Plain(ls)[i] = IF ls[i].is = "prose" THEN [ls[i] EXCEPT !.is = "eos"]
                                               ELSE ls[i]
  <1> SUFFICES ASSUME NEW ls \in Seq(Lines)
               PROVE  /\ Plain(ls) \in Seq(Lines) /\ Len(Plain(ls)) = Len(ls)
                      /\ \A i \in 1..Len(ls) :
                            Plain(ls)[i] = IF ls[i].is = "prose" THEN [ls[i] EXCEPT !.is = "eos"]
                                           ELSE ls[i]
    OBVIOUS
  <1>1. \A l \in Lines : [l EXCEPT !.is = "eos"] \in Lines
    BY DEF Lines, LineKinds
  <1> DEFINE L(i) == IF ls[i].is = "prose" THEN [ls[i] EXCEPT !.is = "eos"] ELSE ls[i]
             n == Len(ls)
  <1>2. \A i \in 1..n : L(i) \in Lines
    BY <1>1
  <1>3. Plain(ls) = [i \in 1..n |-> L(i)]
    BY DEF Plain
  <1>4. n \in Nat
    OBVIOUS
  <1> HIDE DEF L, n
  <1>5. Plain(ls) \in Seq(Lines) /\ Len(Plain(ls)) = n /\ \A i \in 1..n : Plain(ls)[i] = L(i)
    BY <1>2, <1>3, <1>4
  <1> QED BY <1>5 DEF L, n

\* Texts put together, without prose.
LEMMA PlainOfConcat ==
    \A a, b \in Seq(Lines) : Plain(a \o b) = Plain(a) \o Plain(b)
  <1> SUFFICES ASSUME NEW a \in Seq(Lines), NEW b \in Seq(Lines)
               PROVE  Plain(a \o b) = Plain(a) \o Plain(b)
    OBVIOUS
  <1> DEFINE t == a \o b
             u == Plain(a) \o Plain(b)
             pa == Plain(a)
             pb == Plain(b)
             L(l) == IF l.is = "prose" THEN [l EXCEPT !.is = "eos"] ELSE l
  <1>1. t \in Seq(Lines) /\ Len(t) = Len(a) + Len(b) /\ Len(a) \in Nat /\ Len(b) \in Nat
        /\ (\A i \in 1..Len(a) : t[i] = a[i]) /\ \A i \in 1..Len(b) : t[Len(a) + i] = b[i]
    BY JoinParts
  <1>2. /\ pa \in Seq(Lines) /\ Len(pa) = Len(a) /\ \A i \in 1..Len(a) : pa[i] = L(a[i])
        /\ pb \in Seq(Lines) /\ Len(pb) = Len(b) /\ \A i \in 1..Len(b) : pb[i] = L(b[i])
    BY PlainIsText
  <1> HIDE DEF t, pa, pb
  <1>3. pa \o pb \in Seq(Lines) /\ Len(pa \o pb) = Len(pa) + Len(pb)
        /\ (\A i \in 1..Len(pa) : (pa \o pb)[i] = pa[i])
        /\ \A i \in 1..Len(pb) : (pa \o pb)[Len(pa) + i] = pb[i]
    BY <1>2, JoinParts
  <1>4. Plain(t) \in Seq(Lines) /\ Len(Plain(t)) = Len(t) /\ \A i \in 1..Len(t) : Plain(t)[i] = L(t[i])
    BY <1>1, PlainIsText
  <1> HIDE DEF L
  <1>5. ASSUME NEW i \in 1..Len(t) PROVE Plain(t)[i] = (pa \o pb)[i]
    <2>1. CASE i <= Len(a)
      <3>1. i \in 1..Len(a) /\ i \in 1..Len(pa)
        BY <1>1, <1>2, <2>1
      <3>2. Plain(t)[i] = L(a[i])
        BY <1>1, <1>4, <3>1
      <3>3. (pa \o pb)[i] = pa[i]
        BY <1>3, <3>1
      <3>4. pa[i] = L(a[i])
        BY <1>2, <3>1
      <3> QED BY <3>2, <3>3, <3>4, Zenon
    <2>2. CASE i > Len(a)
      <3> DEFINE j == i - Len(a)
      <3>1. j \in 1..Len(b) /\ i = Len(a) + j
        BY <1>1, <2>2
      <3> HIDE DEF j
      <3>2. Plain(t)[i] = L(b[j])
        BY <1>1, <1>4, <3>1
      <3>3. (pa \o pb)[i] = pb[j]
        BY <1>2, <1>3, <3>1
      <3> QED BY <1>2, <3>1, <3>2, <3>3
    <2>3. i <= Len(a) \/ i > Len(a)
      BY <1>1
    <2> QED BY <2>1, <2>2, <2>3, Zenon
  <1>6. Plain(t) = pa \o pb
    BY <1>1, <1>2, <1>3, <1>4, <1>5, SeqEqual
  <1> QED BY <1>6 DEF t, pa, pb

\* Without prose, a text has none.
LEMMA PlainOfPlain ==
    \A ls \in Seq(Lines) : NoLine(ls, {"prose"}) => Plain(ls) = ls
  <1> SUFFICES ASSUME NEW ls \in Seq(Lines), NoLine(ls, {"prose"}) PROVE Plain(ls) = ls
    OBVIOUS
  <1>1. \A i \in 1..Len(ls) : ls[i].is # "prose"
    BY DEF NoLine
  <1>2. Plain(ls) \in Seq(Lines) /\ Len(Plain(ls)) = Len(ls)
        /\ \A i \in 1..Len(ls) : Plain(ls)[i] = ls[i]
    BY <1>1, PlainIsText
  <1> QED BY <1>2, SeqEqual

\* Lines of a kind are in two texts when they are in one of them.
LEMMA NoLineOf ==
    \A kinds : /\ NoLine(<<>>, kinds)
               /\ \A l \in Lines : NoLine(<<l>>, kinds) <=> l.is \notin kinds
               /\ \A a, b \in Seq(Lines) : NoLine(a \o b, kinds) <=> NoLine(a, kinds) /\ NoLine(b, kinds)
  <1> SUFFICES ASSUME NEW kinds
               PROVE  /\ NoLine(<<>>, kinds)
                      /\ \A l \in Lines : NoLine(<<l>>, kinds) <=> l.is \notin kinds
                      /\ \A a, b \in Seq(Lines) : NoLine(a \o b, kinds) <=> NoLine(a, kinds) /\ NoLine(b, kinds)
    OBVIOUS
  <1>1. NoLine(<<>>, kinds)
    BY DEF NoLine
  <1>2. ASSUME NEW l \in Lines PROVE NoLine(<<l>>, kinds) <=> l.is \notin kinds
    BY OneLine DEF NoLine
  <1>3. ASSUME NEW a \in Seq(Lines), NEW b \in Seq(Lines)
        PROVE  NoLine(a \o b, kinds) <=> NoLine(a, kinds) /\ NoLine(b, kinds)
    <2> DEFINE t == a \o b
    <2>1. t \in Seq(Lines) /\ Len(t) = Len(a) + Len(b) /\ Len(a) \in Nat /\ Len(b) \in Nat
          /\ (\A i \in 1..Len(a) : t[i] = a[i]) /\ \A i \in 1..Len(b) : t[Len(a) + i] = b[i]
      BY JoinParts
    <2> HIDE DEF t
    <2>2. DOMAIN t = 1..Len(t) /\ DOMAIN a = 1..Len(a) /\ DOMAIN b = 1..Len(b)
      BY <2>1
    <2>3. \A i \in 1..Len(a) : i \in 1..Len(t)
      BY <2>1
    <2>4. \A i \in 1..Len(b) : Len(a) + i \in 1..Len(t)
      BY <2>1
    <2>5. \A j \in 1..Len(t) : j \in 1..Len(a) \/ \E i \in 1..Len(b) : j = Len(a) + i
      <3> SUFFICES ASSUME NEW j \in 1..Len(t), j \notin 1..Len(a)
                   PROVE  \E i \in 1..Len(b) : j = Len(a) + i
        OBVIOUS
      <3>1. j - Len(a) \in 1..Len(b) /\ j = Len(a) + (j - Len(a))
        BY <2>1
      <3> QED BY <3>1
    <2>6. NoLine(t, kinds) <=> NoLine(a, kinds) /\ NoLine(b, kinds)
      <3>1. ASSUME NoLine(t, kinds) PROVE NoLine(a, kinds) /\ NoLine(b, kinds)
        BY <2>1, <2>2, <2>3, <2>4, <3>1 DEF NoLine
      <3>2. ASSUME NoLine(a, kinds), NoLine(b, kinds) PROVE NoLine(t, kinds)
        <4>1. ASSUME NEW j \in 1..Len(t) PROVE t[j].is \notin kinds
          <5>1. CASE j \in 1..Len(a)
            BY <2>1, <2>2, <3>2, <5>1 DEF NoLine
          <5>2. CASE \E i \in 1..Len(b) : j = Len(a) + i
            BY <2>1, <2>2, <3>2, <5>2 DEF NoLine
          <5> QED BY <2>5, <5>1, <5>2
        <4> QED BY <2>2, <4>1 DEF NoLine
      <3> QED BY <3>1, <3>2
    <2> QED BY <2>6 DEF t
  <1> QED BY <1>1, <1>2, <1>3

LEMMA NoLineOfBlock ==
    \A kinds : \A o, e \in Lines : \A A \in Seq(Lines) :
       NoLine(Block(o, A, e), kinds) <=> o.is \notin kinds /\ e.is \notin kinds /\ NoLine(A, kinds)
  <1> SUFFICES ASSUME NEW kinds, NEW o \in Lines, NEW e \in Lines, NEW A \in Seq(Lines)
               PROVE  NoLine(Block(o, A, e), kinds) <=>
                         o.is \notin kinds /\ e.is \notin kinds /\ NoLine(A, kinds)
    OBVIOUS
  <1>1. <<o>> \in Seq(Lines) /\ <<e>> \in Seq(Lines) /\ <<o>> \o A \in Seq(Lines)
    BY JoinLaws
  <1> QED BY <1>1, NoLineOf, Zenon DEF Block

LEMMA PlainOfLine ==
    \A l \in Lines : l.is # "prose" => Plain(<<l>>) = <<l>>
  <1> SUFFICES ASSUME NEW l \in Lines, l.is # "prose" PROVE Plain(<<l>>) = <<l>>
    OBVIOUS
  <1>1. <<l>> \in Seq(Lines) /\ NoLine(<<l>>, {"prose"})
    <2>1. l.is \notin {"prose"}
      OBVIOUS
    <2> QED BY <2>1, NoLineOf, JoinLaws
  <1> QED BY <1>1, PlainOfPlain

LEMMA PlainOfBlock ==
    \A o, e \in Lines : \A A \in Seq(Lines) :
       o.is # "prose" /\ e.is # "prose" => Plain(Block(o, A, e)) = Block(o, Plain(A), e)
  <1> SUFFICES ASSUME NEW o \in Lines, NEW e \in Lines, NEW A \in Seq(Lines),
                      o.is # "prose", e.is # "prose"
               PROVE  Plain(Block(o, A, e)) = Block(o, Plain(A), e)
    OBVIOUS
  <1> DEFINE x == <<o>>
             z == <<e>>
  <1>1. x \in Seq(Lines) /\ z \in Seq(Lines) /\ x \o A \in Seq(Lines)
    BY JoinLaws
  <1>2. Plain(x) = x /\ Plain(z) = z
    BY PlainOfLine
  <1> HIDE DEF x, z
  <1>3. Plain((x \o A) \o z) = Plain(x \o A) \o Plain(z) /\ Plain(x \o A) = Plain(x) \o Plain(A)
    BY <1>1, PlainOfConcat
  <1>4. Plain((x \o A) \o z) = (x \o Plain(A)) \o z
    BY <1>2, <1>3, Zenon
  <1> QED BY <1>4 DEF Block, x, z

-----------------------------------------------------------------------------
(* Here-documents that end in the text they start in.                      *)

\* The lines of the here-documents of a text, and texts whose here-documents end in them.
Quoted(ls) ==
    {i \in DOMAIN ls : \E a, b \in DOMAIN ls :
        /\ a < i /\ i <= b /\ ls[a].is = "doc" /\ ls[b].is = "eos"
        /\ \A c \in a..(b - 1) : ls[c].is # "eos"}
DocsEnd(ls) ==
    \A a \in DOMAIN ls : ls[a].is = "doc" => \E b \in DOMAIN ls : a < b /\ ls[b].is = "eos"
SplitsDocs(ls) == \A r \in Seq(Lines) : WithoutDocs(ls \o r) = Plain(ls) \o WithoutDocs(r)

\* The parser leaves every line but those of here-documents.
LEMMA WithoutDocsIs ==
    \A ls \in Seq(Lines) :
       /\ WithoutDocs(ls) \in Seq(Lines) /\ Len(WithoutDocs(ls)) = Len(ls)
       /\ \A i \in 1..Len(ls) : WithoutDocs(ls)[i] = IF i \in Quoted(ls) THEN [ls[i] EXCEPT !.is = "eos"]
                                                     ELSE ls[i]
  <1> SUFFICES ASSUME NEW ls \in Seq(Lines)
               PROVE  /\ WithoutDocs(ls) \in Seq(Lines) /\ Len(WithoutDocs(ls)) = Len(ls)
                      /\ \A i \in 1..Len(ls) :
                            WithoutDocs(ls)[i] = IF i \in Quoted(ls) THEN [ls[i] EXCEPT !.is = "eos"]
                                                 ELSE ls[i]
    OBVIOUS
  <1>1. WithoutDocs(ls) \in Seq(Lines)
    BY DocsAreText
  <1>2. WithoutDocs(ls) = [i \in DOMAIN ls |-> IF i \in Quoted(ls) THEN [ls[i] EXCEPT !.is = "eos"]
                                               ELSE ls[i]]
    BY DEF WithoutDocs, Quoted
  <1>3. DOMAIN ls = 1..Len(ls) /\ DOMAIN WithoutDocs(ls) = DOMAIN ls
    BY <1>2
  <1>4. Len(WithoutDocs(ls)) = Len(ls)
    BY <1>1, <1>3
  <1> QED BY <1>1, <1>2, <1>3, <1>4

\* The here-documents of a text that end in it are not those of the next.
LEMMA QuotedOfConcat ==
    \A p, r \in Seq(Lines) : DocsEnd(p) =>
       /\ \A i \in 1..Len(p) : i \in Quoted(p \o r) <=> i \in Quoted(p)
       /\ \A i \in 1..Len(r) : Len(p) + i \in Quoted(p \o r) <=> i \in Quoted(r)
  <1> SUFFICES ASSUME NEW p \in Seq(Lines), NEW r \in Seq(Lines), DocsEnd(p)
               PROVE  /\ \A i \in 1..Len(p) : i \in Quoted(p \o r) <=> i \in Quoted(p)
                      /\ \A i \in 1..Len(r) : Len(p) + i \in Quoted(p \o r) <=> i \in Quoted(r)
    OBVIOUS
  <1> DEFINE t == p \o r
             n == Len(p)
             m == Len(r)
  <1>1. t \in Seq(Lines) /\ Len(t) = n + m /\ n \in Nat /\ m \in Nat
        /\ (\A i \in 1..n : t[i] = p[i]) /\ \A i \in 1..m : t[n + i] = r[i]
    BY JoinParts
  <1>2. DOMAIN p = 1..n /\ DOMAIN r = 1..m
    OBVIOUS
  <1> HIDE DEF t, n, m
  <1>3. DOMAIN t = 1..(n + m)
    BY <1>1
  <1> DEFINE Covers(s, a, b, i) ==
                /\ a < i /\ i <= b /\ s[a].is = "doc" /\ s[b].is = "eos"
                /\ \A c \in a..(b - 1) : s[c].is # "eos"
  <1>4. /\ \A i : i \in Quoted(t) <=> i \in 1..(n + m) /\ \E a, b \in 1..(n + m) : Covers(t, a, b, i)
        /\ \A i : i \in Quoted(p) <=> i \in 1..n /\ \E a, b \in 1..n : Covers(p, a, b, i)
        /\ \A i : i \in Quoted(r) <=> i \in 1..m /\ \E a, b \in 1..m : Covers(r, a, b, i)
    BY <1>2, <1>3 DEF Quoted
  <1>5. ASSUME NEW a \in 1..n, NEW b \in 1..(n + m), NEW i, Covers(t, a, b, i) PROVE b \in 1..n
    <2>1. t[a] = p[a] /\ p[a].is = "doc"
      BY <1>1, <1>5
    <2>2. PICK e \in 1..n : a < e /\ p[e].is = "eos"
      BY <1>2, <2>1 DEF DocsEnd
    <2>3. t[e].is = "eos"
      BY <1>1, <2>2
    <2>4. CASE b > n
      <3>1. e \in a..(b - 1)
        BY <1>1, <2>2, <2>4
      <3> QED BY <1>5, <2>3, <3>1
    <2>5. CASE ~(b > n)
      BY <1>1, <2>5
    <2> QED BY <2>4, <2>5
  <1>6. ASSUME NEW a \in 1..n, NEW b \in 1..n, NEW i PROVE Covers(t, a, b, i) <=> Covers(p, a, b, i)
    <2>1. \A c \in a..(b - 1) : c \in 1..n
      BY <1>1
    <2> QED BY <1>1, <2>1
  <1>7. ASSUME NEW a \in 1..m, NEW b \in 1..m, NEW i \in 1..m
        PROVE  Covers(t, n + a, n + b, n + i) <=> Covers(r, a, b, i)
    <2>1. /\ \A c \in a..(b - 1) : c \in 1..m /\ n + c \in (n + a)..(n + b - 1)
          /\ \A c \in (n + a)..(n + b - 1) : c - n \in a..(b - 1) /\ c - n \in 1..m /\ c = n + (c - n)
      BY <1>1
    <2>2. (n + a < n + i <=> a < i) /\ (n + i <= n + b <=> i <= b)
      BY <1>1
    <2>3. t[n + a] = r[a] /\ t[n + b] = r[b]
      BY <1>1
    <2>4. (\A c \in (n + a)..(n + b - 1) : t[c].is # "eos") <=> \A c \in a..(b - 1) : r[c].is # "eos"
      <3>1. ASSUME \A c \in (n + a)..(n + b - 1) : t[c].is # "eos", NEW c \in a..(b - 1)
            PROVE  r[c].is # "eos"
        BY <1>1, <2>1, <3>1
      <3>2. ASSUME \A c \in a..(b - 1) : r[c].is # "eos", NEW c \in (n + a)..(n + b - 1)
            PROVE  t[c].is # "eos"
        <4>1. c - n \in a..(b - 1) /\ c - n \in 1..m /\ c = n + (c - n)
          BY <2>1
        <4>2. t[c] = r[c - n]
          BY <1>1, <4>1
        <4> QED BY <3>2, <4>1, <4>2
      <3> QED BY <3>1, <3>2
    <2>5. n + b - 1 = (n + b) - 1
      BY <1>1
    <2>6. Covers(t, n + a, n + b, n + i) <=>
             /\ n + a < n + i /\ n + i <= n + b /\ t[n + a].is = "doc" /\ t[n + b].is = "eos"
             /\ \A c \in (n + a)..((n + b) - 1) : t[c].is # "eos"
      OBVIOUS
    <2>7. Covers(r, a, b, i) <=>
             /\ a < i /\ i <= b /\ r[a].is = "doc" /\ r[b].is = "eos"
             /\ \A c \in a..(b - 1) : r[c].is # "eos"
      OBVIOUS
    <2> HIDE DEF Covers
    <2> QED BY <2>2, <2>3, <2>4, <2>5, <2>6, <2>7, Zenon
  <1>8. ASSUME NEW i \in 1..n PROVE i \in Quoted(t) <=> i \in Quoted(p)
    <2>1. ASSUME NEW a \in 1..(n + m), NEW b \in 1..(n + m), Covers(t, a, b, i)
          PROVE  \E x, y \in 1..n : Covers(p, x, y, i)
      <3>1. a \in 1..n
        BY <1>1, <2>1
      <3>2. b \in 1..n
        <4> HIDE DEF Covers
        <4> QED BY <1>5, <2>1, <3>1
      <3> HIDE DEF Covers
      <3> QED BY <1>6, <2>1, <3>1, <3>2
    <2>2. ASSUME NEW a \in 1..n, NEW b \in 1..n, Covers(p, a, b, i)
          PROVE  \E x, y \in 1..(n + m) : Covers(t, x, y, i)
      <3>1. a \in 1..(n + m) /\ b \in 1..(n + m)
        BY <1>1
      <3> HIDE DEF Covers
      <3> QED BY <1>6, <2>2, <3>1
    <2>3. i \in 1..(n + m)
      BY <1>1
    <2> HIDE DEF Covers
    <2> QED BY <1>4, <2>1, <2>2, <2>3
  <1>9. ASSUME NEW i \in 1..m PROVE n + i \in Quoted(t) <=> i \in Quoted(r)
    <2>1. ASSUME NEW a \in 1..(n + m), NEW b \in 1..(n + m), Covers(t, a, b, n + i)
          PROVE  \E x, y \in 1..m : Covers(r, x, y, i)
      <3>1. n + i <= b
        BY <2>1
      <3>2. a \notin 1..n
        <4> HIDE DEF Covers
        <4>1. ~(b \in 1..n)
          BY <1>1, <3>1
        <4> QED BY <1>5, <2>1, <4>1
      <3> DEFINE x == a - n
                 y == b - n
      <3>3. x \in 1..m /\ y \in 1..m /\ a = n + x /\ b = n + y
        BY <1>1, <3>1, <3>2
      <3> HIDE DEF Covers, x, y
      <3>4. Covers(t, n + x, n + y, n + i)
        BY <2>1, <3>3
      <3> QED BY <1>7, <3>3, <3>4
    <2>2. ASSUME NEW a \in 1..m, NEW b \in 1..m, Covers(r, a, b, i)
          PROVE  \E x, y \in 1..(n + m) : Covers(t, x, y, n + i)
      <3>1. n + a \in 1..(n + m) /\ n + b \in 1..(n + m)
        BY <1>1
      <3> HIDE DEF Covers
      <3>2. Covers(t, n + a, n + b, n + i)
        BY <1>7, <2>2
      <3> QED BY <3>1, <3>2
    <2>3. n + i \in 1..(n + m)
      BY <1>1
    <2> HIDE DEF Covers
    <2> QED BY <1>4, <2>1, <2>2, <2>3
  <1> QED BY <1>8, <1>9 DEF t, n, m

\* Texts whose here-documents end in them are read apart.
LEMMA DocsOfEnded ==
    \A p \in Seq(Lines) : DocsEnd(p) /\ WithoutDocs(p) = Plain(p) => SplitsDocs(p)
  <1> SUFFICES ASSUME NEW p \in Seq(Lines), DocsEnd(p), WithoutDocs(p) = Plain(p), NEW r \in Seq(Lines)
               PROVE  WithoutDocs(p \o r) = Plain(p) \o WithoutDocs(r)
    BY DEF SplitsDocs
  <1> DEFINE t == p \o r
             n == Len(p)
             m == Len(r)
             u == WithoutDocs(p)
             v == WithoutDocs(r)
             w == WithoutDocs(t)
             L(l) == [l EXCEPT !.is = "eos"]
  <1>1. t \in Seq(Lines) /\ Len(t) = n + m /\ n \in Nat /\ m \in Nat
        /\ (\A i \in 1..n : t[i] = p[i]) /\ \A i \in 1..m : t[n + i] = r[i]
    BY JoinParts
  <1>2. /\ \A i \in 1..n : i \in Quoted(t) <=> i \in Quoted(p)
        /\ \A i \in 1..m : n + i \in Quoted(t) <=> i \in Quoted(r)
    BY QuotedOfConcat
  <1> HIDE DEF t
  <1>3. /\ u \in Seq(Lines) /\ Len(u) = n
        /\ \A i \in 1..n : u[i] = IF i \in Quoted(p) THEN L(p[i]) ELSE p[i]
    BY WithoutDocsIs
  <1>4. /\ v \in Seq(Lines) /\ Len(v) = m
        /\ \A i \in 1..m : v[i] = IF i \in Quoted(r) THEN L(r[i]) ELSE r[i]
    BY WithoutDocsIs
  <1>5. /\ w \in Seq(Lines) /\ Len(w) = Len(t)
        /\ \A i \in 1..Len(t) : w[i] = IF i \in Quoted(t) THEN L(t[i]) ELSE t[i]
    BY <1>1, WithoutDocsIs
  <1> HIDE DEF n, m, u, v, w, L
  <1>6. /\ u \o v \in Seq(Lines) /\ Len(u \o v) = n + m
        /\ (\A i \in 1..n : (u \o v)[i] = u[i]) /\ \A i \in 1..m : (u \o v)[n + i] = v[i]
    <2>1. /\ u \o v \in Seq(Lines) /\ Len(u \o v) = Len(u) + Len(v)
          /\ (\A i \in 1..Len(u) : (u \o v)[i] = u[i]) /\ \A i \in 1..Len(v) : (u \o v)[Len(u) + i] = v[i]
      BY <1>3, <1>4, JoinParts
    <2>2. Len(u) = n /\ Len(v) = m
      BY <1>3, <1>4
    <2> QED BY <2>1, <2>2
  <1>7. ASSUME NEW i \in 1..n PROVE w[i] = (u \o v)[i]
    <2>1. i \in 1..Len(t)
      BY <1>1
    <2>2. w[i] = IF i \in Quoted(p) THEN L(p[i]) ELSE p[i]
      BY <1>1, <1>2, <1>5, <2>1
    <2>3. (u \o v)[i] = u[i] /\ u[i] = IF i \in Quoted(p) THEN L(p[i]) ELSE p[i]
      BY <1>3, <1>6
    <2> QED BY <2>2, <2>3, Zenon
  <1>8. ASSUME NEW i \in 1..m PROVE w[n + i] = (u \o v)[n + i]
    <2>1. n + i \in 1..Len(t)
      BY <1>1
    <2>2. w[n + i] = IF i \in Quoted(r) THEN L(r[i]) ELSE r[i]
      BY <1>1, <1>2, <1>5, <2>1
    <2>3. (u \o v)[n + i] = v[i] /\ v[i] = IF i \in Quoted(r) THEN L(r[i]) ELSE r[i]
      BY <1>4, <1>6
    <2> QED BY <2>2, <2>3, Zenon
  <1>9. ASSUME NEW j \in 1..Len(w) PROVE w[j] = (u \o v)[j]
    <2>1. CASE j <= n
      <3>1. j \in 1..n
        BY <1>1, <2>1
      <3> QED BY <1>7, <3>1
    <2>2. CASE j > n
      <3> DEFINE i == j - n
      <3>1. i \in 1..m /\ j = n + i
        BY <1>1, <1>5, <2>2
      <3> HIDE DEF i
      <3> QED BY <1>8, <3>1
    <2>3. j <= n \/ j > n
      BY <1>1
    <2> QED BY <2>1, <2>2, <2>3, Zenon
  <1>10. w = u \o v
    <2> DEFINE x == u \o v
    <2>1. w \in Seq(Lines) /\ x \in Seq(Lines) /\ Len(w) = Len(x)
      BY <1>1, <1>5, <1>6
    <2>2. \A j \in 1..Len(w) : w[j] = x[j]
      BY <1>9
    <2> HIDE DEF x
    <2>3. w = x
      BY <2>1, <2>2, SeqEqual
    <2> QED BY <2>3 DEF x
  <1> QED BY <1>10, Zenon DEF w, u, v, t

LEMMA DocsOfNothing == SplitsDocs(<<>>)
  <1> SUFFICES ASSUME NEW r \in Seq(Lines) PROVE WithoutDocs(<<>> \o r) = Plain(<<>>) \o WithoutDocs(r)
    BY DEF SplitsDocs
  <1>1. <<>> \o r = r
    BY JoinLaws
  <1>2. Plain(<<>>) = <<>>
    BY NoLineOf, PlainOfPlain, JoinLaws
  <1>3. <<>> \o WithoutDocs(r) = WithoutDocs(r)
    BY DocsAreText, JoinLaws
  <1> QED BY <1>1, <1>2, <1>3, Zenon

\* Texts that are read apart are read apart together.
LEMMA DocsOfConcat ==
    \A a, b \in Seq(Lines) : SplitsDocs(a) /\ SplitsDocs(b) => SplitsDocs(a \o b)
  <1> SUFFICES ASSUME NEW a \in Seq(Lines), NEW b \in Seq(Lines), SplitsDocs(a), SplitsDocs(b),
                      NEW r \in Seq(Lines)
               PROVE  WithoutDocs((a \o b) \o r) = Plain(a \o b) \o WithoutDocs(r)
    BY DEF SplitsDocs
  <1>1. (a \o b) \o r = a \o (b \o r) /\ b \o r \in Seq(Lines)
    BY ConcatAssociative, JoinLaws
  <1>2. WithoutDocs(a \o (b \o r)) = Plain(a) \o WithoutDocs(b \o r)
    BY <1>1 DEF SplitsDocs
  <1>3. WithoutDocs(b \o r) = Plain(b) \o WithoutDocs(r)
    BY DEF SplitsDocs
  <1>4. Plain(a \o b) = Plain(a) \o Plain(b)
    BY PlainOfConcat
  <1>5. Plain(a) \o (Plain(b) \o WithoutDocs(r)) = (Plain(a) \o Plain(b)) \o WithoutDocs(r)
    <2>1. Plain(a) \in Seq(Lines) /\ Plain(b) \in Seq(Lines) /\ WithoutDocs(r) \in Seq(Lines)
      BY PlainIsText, DocsAreText
    <2>2. Associates(Plain(a), Plain(b), WithoutDocs(r))
      BY <2>1, TextsAssociate
    <2> QED BY <2>2 DEF Associates
  <1> QED BY <1>1, <1>2, <1>3, <1>4, <1>5, Zenon

\* A line that starts no here-document is read apart.
LEMMA DocsOfLine ==
    \A l \in Lines : l.is # "doc" /\ l.is # "prose" => SplitsDocs(<<l>>)
  <1> SUFFICES ASSUME NEW l \in Lines, l.is # "doc", l.is # "prose" PROVE SplitsDocs(<<l>>)
    OBVIOUS
  <1> DEFINE x == <<l>>
  <1>1. x \in Seq(Lines) /\ Len(x) = 1 /\ DOMAIN x = {1} /\ x[1] = l
    BY OneLine
  <1>2. Plain(x) = x
    BY PlainOfLine
  <1> HIDE DEF x
  <1>3. DocsEnd(x)
    BY <1>1 DEF DocsEnd
  <1>4. Quoted(x) = {}
    BY <1>1 DEF Quoted
  <1>5. WithoutDocs(x) = x
    <2>1. WithoutDocs(x) \in Seq(Lines) /\ Len(WithoutDocs(x)) = Len(x)
          /\ \A i \in 1..Len(x) : WithoutDocs(x)[i] = IF i \in Quoted(x) THEN [x[i] EXCEPT !.is = "eos"]
                                                      ELSE x[i]
      BY <1>1, WithoutDocsIs
    <2>2. \A i \in 1..Len(x) : WithoutDocs(x)[i] = x[i]
      BY <1>4, <2>1
    <2> QED BY <1>1, <2>1, <2>2, SeqEqual
  <1> QED BY <1>1, <1>2, <1>3, <1>5, DocsOfEnded DEF x

\* A here-document is read apart.
LEMMA DocsOfDoc ==
    \A o, e \in Lines : \A P \in Seq(Lines) :
       o.is = "doc" /\ e.is = "eos" /\ (\A i \in DOMAIN P : P[i].is = "prose") =>
          SplitsDocs(Block(o, P, e))
  <1> SUFFICES ASSUME NEW o \in Lines, NEW e \in Lines, NEW P \in Seq(Lines),
                      o.is = "doc", e.is = "eos", \A i \in DOMAIN P : P[i].is = "prose"
               PROVE  SplitsDocs(Block(o, P, e))
    OBVIOUS
  <1> DEFINE t == Block(o, P, e)
             n == Len(P)
             L(l) == [l EXCEPT !.is = "eos"]
  <1>1. /\ t \in Seq(Lines) /\ Len(t) = n + 2 /\ t[1] = o /\ t[n + 2] = e
        /\ \A i \in 1..n : t[i + 1] = P[i]
    BY BlockParts
  <1>2. n \in Nat /\ \A i \in 1..n : P[i].is = "prose"
    OBVIOUS
  <1>3. L(e) = e
    BY DEF Lines
  <1> HIDE DEF t, n, L
  <1>4. \A j \in 2..(n + 1) : t[j].is = "prose"
    <2> SUFFICES ASSUME NEW j \in 2..(n + 1) PROVE t[j].is = "prose"
      OBVIOUS
    <2>1. PICK i \in 1..n : j = i + 1
      <3>1. j - 1 \in 1..n /\ j = (j - 1) + 1
        BY <1>2
      <3> QED BY <3>1
    <2>2. t[i + 1] = P[i] /\ P[i].is = "prose"
      BY <1>1, <1>2
    <2> QED BY <2>1, <2>2
  <1>5. DOMAIN t = 1..(n + 2)
    BY <1>1, <1>2
  <1>6. DocsEnd(t)
    <2>1. \A a \in 1..(n + 2) : t[a].is = "doc" => a < n + 2
      BY <1>1, <1>2
    <2>2. n + 2 \in 1..(n + 2)
      BY <1>2
    <2> QED BY <1>1, <1>5, <2>1, <2>2 DEF DocsEnd
  <1>7. \A i \in 2..(n + 2) : i \in Quoted(t)
    <2> SUFFICES ASSUME NEW i \in 2..(n + 2) PROVE i \in Quoted(t)
      OBVIOUS
    <2>1. 1 \in 1..(n + 2) /\ n + 2 \in 1..(n + 2) /\ i \in 1..(n + 2) /\ 1 < i /\ i <= n + 2
      BY <1>2
    <2>2. \A c \in 1..((n + 2) - 1) : t[c].is # "eos"
      <3>1. \A c \in 1..((n + 2) - 1) : c = 1 \/ c \in 2..(n + 1)
        BY <1>2
      <3> QED BY <1>1, <1>4, <3>1
    <2> QED BY <1>1, <1>5, <2>1, <2>2 DEF Quoted
  <1>8. 1 \notin Quoted(t)
    BY <1>5 DEF Quoted
  <1>9. WithoutDocs(t) = Plain(t)
    <2>1. /\ WithoutDocs(t) \in Seq(Lines) /\ Len(WithoutDocs(t)) = Len(t)
          /\ \A i \in 1..Len(t) : WithoutDocs(t)[i] = IF i \in Quoted(t) THEN L(t[i]) ELSE t[i]
      BY <1>1, WithoutDocsIs DEF L
    <2>2. /\ Plain(t) \in Seq(Lines) /\ Len(Plain(t)) = Len(t)
          /\ \A i \in 1..Len(t) : Plain(t)[i] = IF t[i].is = "prose" THEN L(t[i]) ELSE t[i]
      BY <1>1, PlainIsText DEF L
    <2>3. ASSUME NEW i \in 1..Len(t) PROVE WithoutDocs(t)[i] = Plain(t)[i]
      <3>1. CASE i = 1
        BY <1>1, <1>8, <2>1, <2>2, <3>1
      <3>2. CASE i \in 2..(n + 1)
        <4>1. i \in 2..(n + 2)
          BY <1>2, <3>2
        <4> QED BY <1>4, <1>7, <2>1, <2>2, <3>2, <4>1
      <3>3. CASE i = n + 2
        <4>1. i \in 2..(n + 2)
          BY <1>2, <3>3
        <4>2. t[i] = e
          BY <1>1, <3>3
        <4> QED BY <1>3, <1>7, <2>1, <2>2, <4>1, <4>2
      <3>4. i = 1 \/ i \in 2..(n + 1) \/ i = n + 2
        BY <1>1, <1>2
      <3> QED BY <3>1, <3>2, <3>3, <3>4, Zenon
    <2> QED BY <2>1, <2>2, <2>3, SeqEqual
  <1> QED BY <1>1, <1>6, <1>9, DocsOfEnded DEF t

-----------------------------------------------------------------------------
(* The numbers of the lines of a kind.                                     *)

\* The numbers of the lines of a kind, and of those at the top of a text.
All(ls, kind) == NumberedAs(ls, DOMAIN ls, kind)
Top(ls, kind) == NumberedAs(ls, AtTop(ls), kind)

LEMMA NumberedIs ==
    ASSUME NEW ls, NEW S, NEW kind
    PROVE  \A x : x \in NumberedAs(ls, S, kind) <=> \E i \in S : ls[i].is = kind /\ x = ls[i].at
  BY DEF NumberedAs

\* The lines of a kind in two texts are those of both.
LEMMA AllOfConcat ==
    \A a, b \in Seq(Lines) : \A kind : All(a \o b, kind) = All(a, kind) \cup All(b, kind)
  <1> SUFFICES ASSUME NEW a \in Seq(Lines), NEW b \in Seq(Lines), NEW kind
               PROVE  All(a \o b, kind) = All(a, kind) \cup All(b, kind)
    OBVIOUS
  <1> DEFINE t == a \o b
             n == Len(a)
             m == Len(b)
  <1>1. t \in Seq(Lines) /\ Len(t) = n + m /\ n \in Nat /\ m \in Nat
        /\ (\A i \in 1..n : t[i] = a[i]) /\ \A i \in 1..m : t[n + i] = b[i]
    BY JoinParts
  <1>2. DOMAIN a = 1..n /\ DOMAIN b = 1..m
    OBVIOUS
  <1> HIDE DEF t, n, m
  <1>3. DOMAIN t = 1..(n + m)
    BY <1>1
  <1>4. /\ \A x : x \in All(t, kind) <=> \E i \in 1..(n + m) : t[i].is = kind /\ x = t[i].at
        /\ \A x : x \in All(a, kind) <=> \E i \in 1..n : a[i].is = kind /\ x = a[i].at
        /\ \A x : x \in All(b, kind) <=> \E i \in 1..m : b[i].is = kind /\ x = b[i].at
    BY <1>2, <1>3 DEF All, NumberedAs
  <1>5. ASSUME NEW x \in All(t, kind) PROVE x \in All(a, kind) \cup All(b, kind)
    <2>1. PICK i \in 1..(n + m) : t[i].is = kind /\ x = t[i].at
      BY <1>4
    <2>2. CASE i <= n
      <3>1. i \in 1..n /\ t[i] = a[i]
        BY <1>1, <2>2
      <3> QED BY <1>4, <2>1, <3>1
    <2>3. CASE i > n
      <3>1. i - n \in 1..m /\ i = n + (i - n)
        BY <1>1, <2>3
      <3>2. t[i] = b[i - n]
        BY <1>1, <3>1
      <3> QED BY <1>4, <2>1, <3>1, <3>2
    <2>4. i <= n \/ i > n
      BY <1>1
    <2> QED BY <2>2, <2>3, <2>4, Zenon
  <1>6. ASSUME NEW x \in All(a, kind) PROVE x \in All(t, kind)
    <2>1. PICK i \in 1..n : a[i].is = kind /\ x = a[i].at
      BY <1>4
    <2>2. i \in 1..(n + m) /\ t[i] = a[i]
      BY <1>1
    <2> QED BY <1>4, <2>1, <2>2
  <1>7. ASSUME NEW x \in All(b, kind) PROVE x \in All(t, kind)
    <2>1. PICK i \in 1..m : b[i].is = kind /\ x = b[i].at
      BY <1>4
    <2>2. n + i \in 1..(n + m) /\ t[n + i] = b[i]
      BY <1>1
    <2> QED BY <1>4, <2>1, <2>2
  <1>8. All(t, kind) = All(a, kind) \cup All(b, kind)
    BY <1>5, <1>6, <1>7
  <1> QED BY <1>8 DEF t

LEMMA AllOfLine ==
    \A l \in Lines : \A kind : All(<<l>>, kind) = IF l.is = kind THEN {l.at} ELSE {}
  <1> SUFFICES ASSUME NEW l \in Lines, NEW kind
               PROVE  All(<<l>>, kind) = IF l.is = kind THEN {l.at} ELSE {}
    OBVIOUS
  <1>1. DOMAIN <<l>> = {1} /\ <<l>>[1] = l
    BY OneLine
  <1> DEFINE x == <<l>>
  <1> HIDE DEF x
  <1>2. \A y : y \in All(x, kind) <=> \E i \in DOMAIN x : x[i].is = kind /\ y = x[i].at
    BY DEF All, NumberedAs
  <1>3. \A y : y \in All(x, kind) <=> l.is = kind /\ y = l.at
    BY <1>1, <1>2 DEF x
  <1> QED BY <1>3 DEF x

LEMMA AllOfNothing == \A kind : All(<<>>, kind) = {}
  BY DEF All, NumberedAs

\* The lines of a kind in a block are those it holds.
LEMMA AllOfBlock ==
    \A o, e \in Lines : \A A \in Seq(Lines) : \A kind :
       o.is # kind /\ e.is # kind => All(Block(o, A, e), kind) = All(A, kind)
  <1> SUFFICES ASSUME NEW o \in Lines, NEW e \in Lines, NEW A \in Seq(Lines), NEW kind,
                      o.is # kind, e.is # kind
               PROVE  All(Block(o, A, e), kind) = All(A, kind)
    OBVIOUS
  <1> DEFINE x == <<o>>
             z == <<e>>
             y == x \o A
  <1>1. x \in Seq(Lines) /\ z \in Seq(Lines) /\ y \in Seq(Lines)
    BY BlockParts
  <1>2. All(x, kind) = {} /\ All(z, kind) = {}
    BY AllOfLine
  <1> HIDE DEF x, z
  <1>3. All(x \o A, kind) = All(x, kind) \cup All(A, kind)
    BY <1>1, AllOfConcat
  <1> HIDE DEF y
  <1>4. All(y \o z, kind) = All(y, kind) \cup All(z, kind)
    BY <1>1, AllOfConcat
  <1>5. All(y \o z, kind) = All(A, kind)
    BY <1>2, <1>3, <1>4 DEF y
  <1> QED BY <1>5 DEF Block, x, y, z

\* The lines of a kind at the top of a balanced text and another are those of both.
LEMMA TopOfConcat ==
    \A a, b \in Seq(Lines) : \A kind : Bal(a) => Top(a \o b, kind) = Top(a, kind) \cup Top(b, kind)
  <1> SUFFICES ASSUME NEW a \in Seq(Lines), NEW b \in Seq(Lines), NEW kind, Bal(a)
               PROVE  Top(a \o b, kind) = Top(a, kind) \cup Top(b, kind)
    OBVIOUS
  <1> DEFINE t == a \o b
             n == Len(a)
             m == Len(b)
             T == AtTop(t)
             S == AtTop(a)
             R == AtTop(b)
  <1>1. t \in Seq(Lines) /\ Len(t) = n + m /\ n \in Nat /\ m \in Nat
        /\ (\A i \in 1..n : t[i] = a[i]) /\ \A i \in 1..m : t[n + i] = b[i]
    BY JoinParts
  <1>2. T = S \cup {n + i : i \in R}
    BY AtTopOfConcat
  <1>3. S \subseteq 1..n /\ R \subseteq 1..m
    BY AtTopIs
  <1>4. /\ \A x : x \in Top(t, kind) <=> \E i \in T : t[i].is = kind /\ x = t[i].at
        /\ \A x : x \in Top(a, kind) <=> \E i \in S : a[i].is = kind /\ x = a[i].at
        /\ \A x : x \in Top(b, kind) <=> \E i \in R : b[i].is = kind /\ x = b[i].at
    BY DEF Top, NumberedAs
  <1> HIDE DEF t, n, m, S, R, T
  <1>5. ASSUME NEW x \in Top(t, kind) PROVE x \in Top(a, kind) \cup Top(b, kind)
    <2>1. PICK i \in T : t[i].is = kind /\ x = t[i].at
      BY <1>4
    <2>2. CASE i \in S
      <3>1. t[i] = a[i]
        BY <1>1, <1>3, <2>2
      <3> QED BY <1>4, <2>1, <2>2, <3>1
    <2>3. CASE i \in {n + j : j \in R}
      <3>1. PICK j \in R : i = n + j
        BY <2>3
      <3>2. t[i] = b[j]
        BY <1>1, <1>3, <3>1
      <3> QED BY <1>4, <2>1, <3>1, <3>2
    <2> QED BY <1>2, <2>2, <2>3
  <1>6. ASSUME NEW x \in Top(a, kind) PROVE x \in Top(t, kind)
    <2>1. PICK i \in S : a[i].is = kind /\ x = a[i].at
      BY <1>4
    <2>2. i \in T /\ t[i] = a[i]
      BY <1>1, <1>2, <1>3
    <2> QED BY <1>4, <2>1, <2>2
  <1>7. ASSUME NEW x \in Top(b, kind) PROVE x \in Top(t, kind)
    <2>1. PICK i \in R : b[i].is = kind /\ x = b[i].at
      BY <1>4
    <2>2. n + i \in T /\ t[n + i] = b[i]
      BY <1>1, <1>2, <1>3
    <2> QED BY <1>4, <2>1, <2>2
  <1>8. Top(t, kind) = Top(a, kind) \cup Top(b, kind)
    BY <1>5, <1>6, <1>7
  <1> QED BY <1>8 DEF t

LEMMA TopIsInAll == \A ls \in Seq(Lines) : \A kind : Top(ls, kind) \subseteq All(ls, kind)
  <1> SUFFICES ASSUME NEW ls \in Seq(Lines), NEW kind PROVE Top(ls, kind) \subseteq All(ls, kind)
    OBVIOUS
  <1>1. AtTop(ls) \subseteq DOMAIN ls
    BY AtTopIs
  <1> QED BY <1>1 DEF Top, All, NumberedAs

LEMMA TopOfLine ==
    \A l \in Lines : \A kind : Top(<<l>>, kind) = IF l.is = kind THEN {l.at} ELSE {}
  <1> SUFFICES ASSUME NEW l \in Lines, NEW kind
               PROVE  Top(<<l>>, kind) = IF l.is = kind THEN {l.at} ELSE {}
    OBVIOUS
  <1>1. AtTop(<<l>>) = {1} /\ DOMAIN <<l>> = {1}
    BY AtTopOfLine, OneLine
  <1>2. Top(<<l>>, kind) = All(<<l>>, kind)
    BY <1>1, Zenon DEF Top, All
  <1> QED BY <1>2, AllOfLine, Zenon

\* The lines a block holds are not at the top.
LEMMA TopOfBlock ==
    \A o, e : \A A \in Seq(Lines) : \A kind \in Stanzas :
       IsOpener(o) /\ IsEnd(e) /\ Bal(A) => Top(Block(o, A, e), kind) = {}
  <1> SUFFICES ASSUME NEW o, NEW e, NEW A \in Seq(Lines), NEW kind \in Stanzas,
                      IsOpener(o), IsEnd(e), Bal(A)
               PROVE  Top(Block(o, A, e), kind) = {}
    OBVIOUS
  <1>1. AtTop(Block(o, A, e)) \subseteq {1}
    BY AtTopOfBlock
  <1>2. o \in Lines /\ e \in Lines
    BY DEF IsOpener, IsEnd
  <1>3. Block(o, A, e)[1] = o
    BY <1>2, BlockParts
  <1>4. o.is # kind
    BY DEF IsOpener, Opens, Stanzas, Openers
  <1> DEFINE t == Block(o, A, e)
  <1> HIDE DEF t
  <1>5. \A x : x \in Top(t, kind) <=> \E i \in AtTop(t) : t[i].is = kind /\ x = t[i].at
    BY DEF Top, NumberedAs
  <1>6. \A i \in AtTop(t) : t[i].is # kind
    BY <1>1, <1>3, <1>4 DEF t
  <1> QED BY <1>5, <1>6 DEF t

LEMMA AllOfClean ==
    \A ls \in Seq(Lines) : \A kinds : NoLine(ls, kinds) => \A kind \in kinds : All(ls, kind) = {}
  <1> SUFFICES ASSUME NEW ls \in Seq(Lines), NEW kinds, NoLine(ls, kinds), NEW kind \in kinds
               PROVE  All(ls, kind) = {}
    OBVIOUS
  <1>1. \A x : x \in All(ls, kind) <=> \E i \in DOMAIN ls : ls[i].is = kind /\ x = ls[i].at
    BY DEF All, NumberedAs
  <1> QED BY <1>1 DEF NoLine

\* What is looked for in the whole text, and what at the top of the class.
Wide(d, kind) == kind \in {"version", "digest"} \/ (kind = "url" /\ d = "cask")
Nums(d, ls, kind) == IF Wide(d, kind) THEN All(ls, kind) ELSE Top(Plain(ls), kind)

\* What is found in two texts, the first of them balanced, is what is found in both.
LEMMA NumsOfConcat ==
    \A a, b \in Seq(Lines) : \A d, kind : Bal(Plain(a)) =>
       Nums(d, a \o b, kind) = Nums(d, a, kind) \cup Nums(d, b, kind)
  <1> SUFFICES ASSUME NEW a \in Seq(Lines), NEW b \in Seq(Lines), NEW d, NEW kind, Bal(Plain(a))
               PROVE  Nums(d, a \o b, kind) = Nums(d, a, kind) \cup Nums(d, b, kind)
    OBVIOUS
  <1>1. Plain(a) \in Seq(Lines) /\ Plain(b) \in Seq(Lines)
    BY PlainIsText
  <1>2. Plain(a \o b) = Plain(a) \o Plain(b)
    BY PlainOfConcat
  <1>3. Top(Plain(a) \o Plain(b), kind) = Top(Plain(a), kind) \cup Top(Plain(b), kind)
    BY <1>1, TopOfConcat
  <1>4. All(a \o b, kind) = All(a, kind) \cup All(b, kind)
    BY AllOfConcat
  <1> QED BY <1>2, <1>3, <1>4, Zenon DEF Nums

LEMMA NumsOfNothing == \A d, kind : Nums(d, <<>>, kind) = {}
  <1> SUFFICES ASSUME NEW d, NEW kind PROVE Nums(d, <<>>, kind) = {}
    OBVIOUS
  <1>1. Plain(<<>>) = <<>> /\ <<>> \in Seq(Lines)
    BY NoLineOf, PlainOfPlain, JoinLaws
  <1>2. Top(<<>>, kind) \subseteq All(<<>>, kind)
    BY <1>1, TopIsInAll
  <1> QED BY <1>1, <1>2, AllOfNothing DEF Nums

LEMMA NumsOfLine ==
    \A l \in Lines : \A d, kind : l.is # "prose" =>
       Nums(d, <<l>>, kind) = IF l.is = kind THEN {l.at} ELSE {}
  <1> SUFFICES ASSUME NEW l \in Lines, NEW d, NEW kind, l.is # "prose"
               PROVE  Nums(d, <<l>>, kind) = IF l.is = kind THEN {l.at} ELSE {}
    OBVIOUS
  <1>1. Plain(<<l>>) = <<l>>
    BY PlainOfLine
  <1> QED BY <1>1, TopOfLine, AllOfLine, Zenon DEF Nums

\* In a block, only what is looked for in the whole text is found.
LEMMA NumsOfBlock ==
    \A o, e : \A A \in Seq(Lines) : \A d : \A kind \in Stanzas :
       IsOpener(o) /\ o.is # "prose" /\ IsEnd(e) /\ Bal(Plain(A)) =>
          Nums(d, Block(o, A, e), kind) = IF Wide(d, kind) THEN All(A, kind) ELSE {}
  <1> SUFFICES ASSUME NEW o, NEW e, NEW A \in Seq(Lines), NEW d, NEW kind \in Stanzas,
                      IsOpener(o), o.is # "prose", IsEnd(e), Bal(Plain(A))
               PROVE  Nums(d, Block(o, A, e), kind) = IF Wide(d, kind) THEN All(A, kind) ELSE {}
    OBVIOUS
  <1>1. o \in Lines /\ e \in Lines /\ e.is = "end" /\ Plain(A) \in Seq(Lines)
    BY PlainIsText DEF IsOpener, IsEnd
  <1>2. Plain(Block(o, A, e)) = Block(o, Plain(A), e)
    BY <1>1, PlainOfBlock
  <1>3. Top(Block(o, Plain(A), e), kind) = {}
    BY <1>1, TopOfBlock
  <1>4. o.is # kind /\ e.is # kind
    BY <1>1 DEF IsOpener, Opens, Stanzas, Openers
  <1>5. All(Block(o, A, e), kind) = All(A, kind)
    BY <1>1, <1>4, AllOfBlock
  <1> QED BY <1>2, <1>3, <1>5, Zenon DEF Nums

LEMMA NumsOfClean ==
    \A ls \in Seq(Lines) : \A d : NoLine(ls, Stanzas) =>
       \A kind \in Stanzas : All(ls, kind) = {} /\ Nums(d, ls, kind) = {}
  <1> SUFFICES ASSUME NEW ls \in Seq(Lines), NEW d, NoLine(ls, Stanzas), NEW kind \in Stanzas
               PROVE  All(ls, kind) = {} /\ Nums(d, ls, kind) = {}
    OBVIOUS
  <1>1. All(ls, kind) = {}
    BY AllOfClean
  <1>2. Plain(ls) \in Seq(Lines) /\ Len(Plain(ls)) = Len(ls)
        /\ \A i \in 1..Len(ls) : Plain(ls)[i] = IF ls[i].is = "prose" THEN [ls[i] EXCEPT !.is = "eos"]
                                                ELSE ls[i]
    BY PlainIsText
  <1> DEFINE q == Plain(ls)
  <1>3. NoLine(q, Stanzas)
    <2>1. DOMAIN ls = 1..Len(ls) /\ DOMAIN q = 1..Len(ls)
      BY <1>2
    <2>2. \A l \in Lines : [l EXCEPT !.is = "eos"].is = "eos"
      BY DEF Lines
    <2>3. "eos" \notin Stanzas
      BY DEF Stanzas
    <2>4. ASSUME NEW i \in 1..Len(ls) PROVE q[i].is \notin Stanzas
      <3>1. ls[i] \in Lines /\ ls[i].is \notin Stanzas
        BY <2>1 DEF NoLine
      <3>2. CASE ls[i].is = "prose"
        BY <1>2, <2>2, <2>3, <3>1, <3>2
      <3>3. CASE ls[i].is # "prose"
        BY <1>2, <3>1, <3>3
      <3> QED BY <3>2, <3>3
    <2> QED BY <2>1, <2>4 DEF NoLine
  <1>4. Top(Plain(ls), kind) \subseteq All(Plain(ls), kind) /\ All(Plain(ls), kind) = {}
    BY <1>2, <1>3, AllOfClean, TopIsInAll
  <1> QED BY <1>1, <1>4 DEF Nums

-----------------------------------------------------------------------------
(* What is left of the lines of a block that is open, and what is added to *)
(* it.                                                                     *)

\* The pass that reads the platform blocks, in a bottle block and outside.
Platform(m) == IF m THEN "unwrap" ELSE "resolve"

\* Whether lines added to a block reach what Ruby reads.
Goes(b, m) == b.live \/ (b.is = "on" /\ m)

\* What is left of the lines c of the open block b, that starts at line o.
KeptOf(o, c, b, m) ==
    IF b.is \in {"if", "else"} THEN Chosen(o, Pass(Platform(m), c))
    ELSE IF Goes(b, m) THEN Pass(Platform(m), c) ELSE <<>>
LiveOf(o, c, b, m) == Pass("arch", KeptOf(o, c, b, m))

LiveFits(d, v) == Bal(Plain(v)) /\ SplitsDocs(v) /\ (d = "formula" => NoLine(v, {"prose"}))

OpenerFits(o, b) ==
    /\ o.is = (IF b.is = "else" THEN "if" ELSE b.is)
    /\ b.is = "on" => b.live = o.here
    /\ b.is \notin {"on", "if", "else"} => b.live

LevelFits(d, o, c, b, m) ==
    /\ Splits(Platform(m), c) /\ Splits("arch", KeptOf(o, c, b, m))
    /\ LiveFits(d, LiveOf(o, c, b, m))
    /\ b.is # "class" => Bal(c) /\ Bal(Pass(Platform(m), c))
    /\ b.is \notin {"class", "if", "else"} => Own(Pass(Platform(m), c)) = {}
    /\ b.is \in {"if", "else"} => BranchFits(o, Pass(Platform(m), c), b)
    /\ OpenerFits(o, b)

\* Lines that can be added to a block that is open.
PieceFits(d, p, m, whole) ==
    /\ Splits(Platform(m), p) /\ Splits("arch", Pass(Platform(m), p))
    /\ LiveFits(d, Pass("arch", Pass(Platform(m), p)))
    /\ whole => Bal(p) /\ Bal(Pass(Platform(m), p)) /\ Own(Pass(Platform(m), p)) = {}

LEMMA PlatformIsMode == \A m \in BOOLEAN : Platform(m) \in Modes /\ "arch" \in Modes
  BY DEF Platform, Modes

\* What is kept of the lines of a block is a text.
LEMMA KeptOfIsText ==
    \A m \in BOOLEAN : \A o, b : \A c \in Seq(Lines) :
       /\ Pass(Platform(m), c) \in Seq(Lines)
       /\ KeptOf(o, c, b, m) \in Seq(Lines) /\ LiveOf(o, c, b, m) \in Seq(Lines)
  <1> SUFFICES ASSUME NEW m \in BOOLEAN, NEW o, NEW b, NEW c \in Seq(Lines)
               PROVE  /\ Pass(Platform(m), c) \in Seq(Lines)
                      /\ KeptOf(o, c, b, m) \in Seq(Lines) /\ LiveOf(o, c, b, m) \in Seq(Lines)
    OBVIOUS
  <1>1. Pass(Platform(m), c) \in Seq(Lines)
    BY PlatformIsMode, PassIsText
  <1>2. Chosen(o, Pass(Platform(m), c)) \in Seq(Lines)
    BY <1>1, KeptIsText
  <1>3. <<>> \in Seq(Lines)
    OBVIOUS
  <1>4. KeptOf(o, c, b, m) \in Seq(Lines)
    BY <1>1, <1>2, <1>3, Zenon DEF KeptOf
  <1>5. LiveOf(o, c, b, m) \in Seq(Lines)
    BY <1>4, PlatformIsMode, PassIsText DEF LiveOf
  <1> QED BY <1>1, <1>4, <1>5

LEMMA LiveFitsOfNothing == \A d : LiveFits(d, <<>>)
  <1>1. Plain(<<>>) = <<>>
    BY NoLineOf, PlainOfPlain, JoinLaws
  <1> QED BY <1>1, BalOfLines, DocsOfNothing, NoLineOf, Zenon DEF LiveFits

\* What fits in two parts fits put together.
LEMMA LiveFitsOfConcat ==
    \A d : \A v, w \in Seq(Lines) : LiveFits(d, v) /\ LiveFits(d, w) => LiveFits(d, v \o w)
  <1> SUFFICES ASSUME NEW d, NEW v \in Seq(Lines), NEW w \in Seq(Lines), LiveFits(d, v), LiveFits(d, w)
               PROVE  LiveFits(d, v \o w)
    OBVIOUS
  <1>1. Plain(v \o w) = Plain(v) \o Plain(w)
    BY PlainOfConcat
  <1>2. Bal(Plain(v) \o Plain(w))
    BY PlainIsText, BalOfConcat DEF LiveFits
  <1>3. SplitsDocs(v \o w)
    BY DocsOfConcat DEF LiveFits
  <1>4. d = "formula" => NoLine(v \o w, {"prose"})
    BY NoLineOf, Zenon DEF LiveFits
  <1> QED BY <1>1, <1>2, <1>3, <1>4 DEF LiveFits

\* A block that holds what fits, fits.
LEMMA LiveFitsOfBlock ==
    \A d : \A o, e : \A v \in Seq(Lines) :
       IsOpener(o) /\ o.is \notin {"prose", "doc"} /\ IsEnd(e) /\ LiveFits(d, v) =>
          LiveFits(d, Block(o, v, e))
  <1> SUFFICES ASSUME NEW d, NEW o, NEW e, NEW v \in Seq(Lines),
                      IsOpener(o), o.is # "prose", o.is # "doc", IsEnd(e), LiveFits(d, v)
               PROVE  LiveFits(d, Block(o, v, e))
    OBVIOUS
  <1>1. o \in Lines /\ e \in Lines /\ e.is = "end" /\ Plain(v) \in Seq(Lines)
    BY PlainIsText DEF IsOpener, IsEnd
  <1>2. Plain(Block(o, v, e)) = Block(o, Plain(v), e)
    BY <1>1, PlainOfBlock
  <1>3. Bal(Block(o, Plain(v), e))
    BY <1>1, BalOfBlock DEF LiveFits
  <1>4. SplitsDocs(Block(o, v, e))
    <2> DEFINE x == <<o>>
               z == <<e>>
    <2>1. x \in Seq(Lines) /\ z \in Seq(Lines) /\ x \o v \in Seq(Lines)
      BY <1>1, BlockParts
    <2>2. SplitsDocs(x) /\ SplitsDocs(z)
      BY <1>1, DocsOfLine
    <2> HIDE DEF x, z
    <2>3. SplitsDocs(x \o v)
      BY <2>1, <2>2, DocsOfConcat DEF LiveFits
    <2> DEFINE y == x \o v
    <2> HIDE DEF y
    <2>4. SplitsDocs(y \o z)
      BY <2>1, <2>2, <2>3, DocsOfConcat DEF y
    <2> QED BY <2>4 DEF Block, x, y, z
  <1>5. d = "formula" => NoLine(Block(o, v, e), {"prose"})
    <2>1. o.is \notin {"prose"} /\ e.is \notin {"prose"}
      BY <1>1
    <2> QED BY <1>1, <2>1, NoLineOfBlock, Zenon DEF LiveFits
  <1> QED BY <1>2, <1>3, <1>4, <1>5 DEF LiveFits

\* Lines added to a block that is open are added to what is left of it.
Appended(d, o, c, b, m, p) ==
    /\ LevelFits(d, o, c \o p, b, m)
    /\ Goes(b, m) => LiveOf(o, c \o p, b, m) = LiveOf(o, c, b, m) \o Pass("arch", Pass(Platform(m), p))
    /\ ~Goes(b, m) => LiveOf(o, c \o p, b, m) = LiveOf(o, c, b, m)

\* A piece that fits is appended to what is left of its block where that goes, and is nothing
\* to it where it does not.
LEMMA AppendPiece ==
    \A d, o, b, whole : \A m \in BOOLEAN : \A c, p \in Seq(Lines) :
       (b.is = "class" \/ whole) /\ LevelFits(d, o, c, b, m) /\ PieceFits(d, p, m, whole)
       => Appended(d, o, c, b, m, p)
  <1> SUFFICES ASSUME NEW d, NEW o, NEW b, NEW whole, NEW m \in BOOLEAN, NEW c \in Seq(Lines),
                      NEW p \in Seq(Lines), b.is = "class" \/ whole,
                      LevelFits(d, o, c, b, m), PieceFits(d, p, m, whole)
               PROVE  Appended(d, o, c, b, m, p)
    OBVIOUS
  <1> DEFINE q == Platform(m)
             r == Pass(q, c)
             s == Pass(q, p)
             k == KeptOf(o, c, b, m)
             K == KeptOf(o, c \o p, b, m)
             v == Pass("arch", k)
             w == Pass("arch", s)
  <1>1. q \in Modes /\ "arch" \in Modes
    BY PlatformIsMode
  <1>2. c \o p \in Seq(Lines) /\ r \in Seq(Lines) /\ s \in Seq(Lines) /\ k \in Seq(Lines)
        /\ v \in Seq(Lines) /\ w \in Seq(Lines)
    BY <1>1, KeptOfIsText, PassIsText, JoinLaws
  <1>3. /\ Splits(q, c) /\ Splits("arch", k) /\ LiveFits(d, v)
        /\ b.is # "class" => Bal(c) /\ Bal(r)
        /\ b.is \notin {"class", "if", "else"} => Own(r) = {}
        /\ b.is \in {"if", "else"} => BranchFits(o, r, b)
        /\ OpenerFits(o, b)
    BY DEF LevelFits, LiveOf
  <1>4. /\ Splits(q, p) /\ Splits("arch", s) /\ LiveFits(d, w)
        /\ b.is # "class" => Bal(p) /\ Bal(s) /\ Own(s) = {}
    BY Zenon DEF PieceFits
  <1>5. Pass(q, c \o p) = r \o s /\ Splits(q, c \o p)
    <2> HIDE DEF q
    <2> QED BY <1>1, <1>3, <1>4, PassOfConcat
  <1>6. /\ K = IF b.is \in {"if", "else"} THEN Chosen(o, r \o s)
               ELSE IF Goes(b, m) THEN r \o s ELSE <<>>
        /\ k = IF b.is \in {"if", "else"} THEN Chosen(o, r) ELSE IF Goes(b, m) THEN r ELSE <<>>
    BY <1>5 DEF KeptOf
  <1>7. LiveOf(o, c, b, m) = v /\ LiveOf(o, c \o p, b, m) = Pass("arch", K)
    BY DEF LiveOf
  <1>8. Pass(Platform(m), c \o p) = r \o s
    BY <1>5
  <1>9. Pass("arch", Pass(Platform(m), p)) = w
    OBVIOUS
  <1>10. LevelFits(d, o, c \o p, b, m) <=>
            /\ Splits(q, c \o p) /\ Splits("arch", K)
            /\ LiveFits(d, Pass("arch", K))
            /\ b.is # "class" => Bal(c \o p) /\ Bal(r \o s)
            /\ b.is \notin {"class", "if", "else"} => Own(r \o s) = {}
            /\ b.is \in {"if", "else"} => BranchFits(o, r \o s, b)
            /\ OpenerFits(o, b)
    BY <1>7, <1>8 DEF LevelFits
  <1> HIDE DEF q, r, s, k, K, v, w
  <1>11. b.is \in {"if", "else"} =>
            Chosen(o, r \o s) = (IF b.live THEN Chosen(o, r) \o s ELSE Chosen(o, r)) /\ BranchFits(o, r \o s, b)
    <2> SUFFICES ASSUME b.is \in {"if", "else"}
                 PROVE  Chosen(o, r \o s) = (IF b.live THEN Chosen(o, r) \o s ELSE Chosen(o, r))
                        /\ BranchFits(o, r \o s, b)
      OBVIOUS
    <2>1. b.is # "class"
      OBVIOUS
    <2> QED BY <1>2, <1>3, <1>4, <2>1, KeptOfPiece
  <1>12. K = IF Goes(b, m) THEN k \o s ELSE k
    <2>1. CASE b.is \in {"if", "else"}
      <3>1. Goes(b, m) <=> b.live
        BY <2>1 DEF Goes
      <3>2. K = Chosen(o, r \o s) /\ k = Chosen(o, r)
        BY <1>6, <2>1
      <3>3. Chosen(o, r \o s) = IF b.live THEN Chosen(o, r) \o s ELSE Chosen(o, r)
        BY <1>11, <2>1
      <3> QED BY <3>1, <3>2, <3>3, Zenon
    <2>2. CASE b.is \notin {"if", "else"}
      BY <1>6, <2>2, Zenon
    <2> QED BY <2>1, <2>2
  <1>13. Pass("arch", k \o s) = v \o w /\ Splits("arch", k \o s)
    BY <1>1, <1>2, <1>3, <1>4, PassOfConcat DEF v, w
  <1>14. Pass("arch", K) = (IF Goes(b, m) THEN v \o w ELSE v) /\ Splits("arch", K)
    BY <1>3, <1>12, <1>13, Zenon DEF v
  <1>15. LiveFits(d, v \o w)
    BY <1>2, <1>3, <1>4, LiveFitsOfConcat
  <1>16. LiveFits(d, Pass("arch", K))
    BY <1>3, <1>14, <1>15, Zenon
  <1>17. b.is # "class" => Bal(c \o p) /\ Bal(r \o s)
    <2>1. Bal(c) /\ Bal(p) => Bal(c \o p)
      BY BalOfConcat
    <2>2. Bal(r) /\ Bal(s) => Bal(r \o s)
      BY <1>2, BalOfConcat
    <2> QED BY <1>3, <1>4, <2>1, <2>2
  <1>18. b.is \notin {"class", "if", "else"} => Own(r \o s) = {}
    <2> SUFFICES ASSUME b.is \notin {"class", "if", "else"} PROVE Own(r \o s) = {}
      OBVIOUS
    <2>1. Bal(r) /\ Own(r) = {} /\ Own(s) = {}
      BY <1>3, <1>4
    <2>2. Own(r \o s) = Own(r) \cup {Len(r) + i : i \in Own(s)}
      BY <1>2, <2>1, OwnOfConcat
    <2> QED BY <2>1, <2>2
  <1>19. LevelFits(d, o, c \o p, b, m)
    BY <1>3, <1>5, <1>10, <1>11, <1>14, <1>16, <1>17, <1>18, Zenon
  <1>20. Goes(b, m) => LiveOf(o, c \o p, b, m) = LiveOf(o, c, b, m) \o Pass("arch", Pass(Platform(m), p))
    BY <1>7, <1>9, <1>14, Zenon
  <1>21. ~Goes(b, m) => LiveOf(o, c \o p, b, m) = LiveOf(o, c, b, m)
    BY <1>7, <1>14, Zenon
  <1> QED BY <1>19, <1>20, <1>21, Zenon DEF Appended

\* A line that belongs to no block.
LEMMA LineFits ==
    \A d : \A m \in BOOLEAN : \A l \in Lines : l.is \in Stanzas =>
       /\ PieceFits(d, <<l>>, m, TRUE)
       /\ Pass("arch", Pass(Platform(m), <<l>>)) = <<l>>
  <1> SUFFICES ASSUME NEW d, NEW m \in BOOLEAN, NEW l \in Lines, l.is \in Stanzas
               PROVE  /\ PieceFits(d, <<l>>, m, TRUE)
                      /\ Pass("arch", Pass(Platform(m), <<l>>)) = <<l>>
    OBVIOUS
  <1>1. l.is \in {"dependency", "url", "version", "digest"}
    BY DEF Stanzas
  <1>2. Left(Platform(m), l) /\ Left("arch", l)
    BY <1>1 DEF Left
  <1>3. Pass(Platform(m), <<l>>) = <<l>> /\ Splits(Platform(m), <<l>>)
        /\ Pass("arch", <<l>>) = <<l>> /\ Splits("arch", <<l>>)
    BY <1>2, PlatformIsMode, PassOfLine
  <1>4. Bal(<<l>>)
    <2>1. Opens(l) = 0 /\ l.is # "end"
      BY <1>1 DEF Opens, Openers
    <2> QED BY <2>1, BalOfLines
  <1>5. Own(<<l>>) = {}
    BY <1>1, OwnOfLine DEF Branch
  <1>6. Plain(<<l>>) = <<l>> /\ SplitsDocs(<<l>>) /\ NoLine(<<l>>, {"prose"})
    BY <1>1, PlainOfLine, DocsOfLine, NoLineOf
  <1>7. LiveFits(d, <<l>>)
    BY <1>4, <1>6, Zenon DEF LiveFits
  <1> QED BY <1>3, <1>4, <1>5, <1>7, Zenon DEF PieceFits

-----------------------------------------------------------------------------
(* Blocks that are closed and opened, and the branches of conditionals.    *)

\* What a block leaves when it is closed: platform blocks and conditionals their lines.
Closed(o, v, e, b) == IF b.is \in {"block", "bottle"} THEN Block(o, v, e) ELSE v

LEMMA OpenerKinds ==
    ASSUME NEW o \in Lines, NEW b, OpenerFits(o, b), b.is \in {"block", "bottle", "on", "if", "else"}
    PROVE  /\ IsOpener(o) /\ o.is \notin {"prose", "doc"}
           /\ o.is = b.is \/ (b.is = "else" /\ o.is = "if")
  BY DEF OpenerFits, IsOpener, Opens, Openers

ReadAs(d, p, m, whole, s) ==
    PieceFits(d, p, m, whole) /\ Pass("arch", Pass(Platform(m), p)) = s

ClosesIn(b, e, m, n) ==
    /\ b.is \in {"block", "bottle", "on", "if", "else"} /\ e.is = "end"
    /\ n <=> (m \/ b.is = "bottle")
    /\ b.is = "bottle" => ~m

\* A block that is closed is a piece of the block around it.
LEMMA ClosedFits ==
    ASSUME NEW d, NEW b, NEW m \in BOOLEAN, NEW n \in BOOLEAN, NEW o \in Lines, NEW e \in Lines,
           NEW c \in Seq(Lines), LevelFits(d, o, c, b, n), ClosesIn(b, e, m, n)
    PROVE  ReadAs(d, Block(o, c, e), m, TRUE, Closed(o, LiveOf(o, c, b, n), e, b))
  <1> USE DEF ClosesIn, ReadAs
  <1> DEFINE p == Block(o, c, e)
             r == Pass(Platform(n), c)
             k == KeptOf(o, c, b, n)
             v == Pass("arch", k)
             s == Pass(Platform(m), p)
  <1>1. /\ Splits(Platform(n), c) /\ Splits("arch", k) /\ LiveFits(d, v)
        /\ Bal(c) /\ Bal(r)
        /\ b.is \notin {"if", "else"} => Own(r) = {}
        /\ b.is \in {"if", "else"} => BranchFits(o, r, b)
        /\ OpenerFits(o, b)
    BY DEF LevelFits, LiveOf
  <1>2. /\ IsOpener(o) /\ o.is \notin {"prose", "doc"} /\ IsEnd(e)
        /\ o.is = b.is \/ (b.is = "else" /\ o.is = "if")
    BY <1>1, OpenerKinds DEF IsEnd
  <1>3. r \in Seq(Lines) /\ k \in Seq(Lines) /\ v \in Seq(Lines)
    BY KeptOfIsText DEF LiveOf
  <1>4. LiveOf(o, c, b, n) = v
    BY DEF LiveOf
  <1>5. Bal(p) /\ Bal(Block(o, r, e)) /\ Own(Block(o, r, e)) = {}
    BY <1>1, <1>2, <1>3, BalOfBlock, OwnOfBlock
  <1>6. PieceFits(d, p, m, TRUE) <=>
          /\ Splits(Platform(m), p) /\ Splits("arch", s) /\ LiveFits(d, Pass("arch", s))
          /\ Bal(p) /\ Bal(s) /\ Own(s) = {}
    BY DEF PieceFits
  <1>7. k = IF b.is \in {"if", "else"} THEN Chosen(o, r) ELSE IF Goes(b, n) THEN r ELSE <<>>
    BY DEF KeptOf
  <1> HIDE DEF p, r, k, v, s
  <1>8. CASE b.is \in {"block", "bottle"}
    <2>1. o.is = b.is /\ b.live /\ k = r
      BY <1>1, <1>2, <1>7, <1>8 DEF OpenerFits, Goes
    <2>2. s = Block(o, r, e) /\ Splits(Platform(m), p)
      <3>1. CASE b.is = "bottle"
        <4>1. Platform(m) = "resolve" /\ Platform(n) = "unwrap"
          BY <3>1 DEF Platform
        <4>2. o.is = "bottle"
          BY <2>1, <3>1
        <4> QED BY <1>1, <4>1, <4>2, PassOfBottleBlock DEF s, p, r
      <3>2. CASE b.is = "block"
        <4>1. Platform(m) = Platform(n)
          BY <3>2
        <4>2. Left(Platform(m), o) /\ Left(Platform(m), e)
          BY <2>1, <3>2 DEF Left
        <4> QED BY <1>1, <4>1, <4>2, PlatformIsMode, PassOfPlainBlock DEF s, p, r
      <3> QED BY <1>8, <3>1, <3>2
    <2>3. Pass("arch", s) = Block(o, v, e) /\ Splits("arch", s)
      <3>1. Left("arch", o) /\ Left("arch", e) /\ "arch" \in Modes
        BY <1>8, <2>1 DEF Left, Modes
      <3>2. Splits("arch", r) /\ v = Pass("arch", r)
        BY <1>1, <2>1 DEF v
      <3> QED BY <1>3, <2>2, <3>1, <3>2, PassOfPlainBlock
    <2>4. LiveFits(d, Block(o, v, e))
      BY <1>1, <1>2, <1>3, LiveFitsOfBlock
    <2>5. PieceFits(d, p, m, TRUE)
      BY <1>5, <1>6, <2>2, <2>3, <2>4, Zenon
    <2>6. Closed(o, v, e, b) = Block(o, v, e)
      BY <1>8 DEF Closed
    <2> QED BY <1>4, <2>3, <2>5, <2>6 DEF p, s
  <1>9. CASE b.is = "on"
    <2>1. o.is = "on" /\ (b.live <=> o.here) /\ n = m
      BY <1>1, <1>2, <1>9 DEF OpenerFits
    <2>2. Platform(n) = Platform(m) /\ Platform(m) \in {"unwrap", "resolve"}
          /\ (Platform(m) = "unwrap" <=> m)
      BY <2>1 DEF Platform
    <2>3. s = (IF Platform(m) = "unwrap" \/ o.here THEN r ELSE <<>>) /\ Splits(Platform(m), p)
      BY <1>1, <2>1, <2>2, PassOfOnBlock DEF s, p, r
    <2>4. Goes(b, n) <=> Platform(m) = "unwrap" \/ o.here
      BY <1>9, <2>1, <2>2 DEF Goes
    <2>5. s = k
      BY <1>7, <1>9, <2>3, <2>4
    <2>6. Bal(s) /\ Own(s) = {}
      BY <1>1, <1>9, <2>3, BalOfLines, OwnOfNothing
    <2>7. Pass("arch", s) = v
      BY <2>5 DEF v
    <2>8. PieceFits(d, p, m, TRUE)
      BY <1>1, <1>5, <1>6, <2>3, <2>5, <2>6, <2>7, Zenon
    <2>9. Closed(o, v, e, b) = v
      BY <1>9 DEF Closed
    <2> QED BY <1>4, <2>7, <2>8, <2>9 DEF p, s
  <1>10. CASE b.is \in {"if", "else"}
    <2>a. b.is # "bottle"
      BY <1>10
    <2>b. n = m
      BY <2>a
    <2>1. o.is = "if" /\ n = m /\ Platform(n) = Platform(m)
      BY <1>1, <1>10, <2>b DEF OpenerFits
    <2>2. s = Block(o, r, e) /\ Splits(Platform(m), p)
      <3>1. Left(Platform(m), o) /\ Left(Platform(m), e)
        BY <2>1 DEF Left, Platform
      <3> QED BY <1>1, <2>1, <3>1, PlatformIsMode, PassOfPlainBlock DEF s, p, r
    <2>3. k = Chosen(o, r)
      BY <1>7, <1>10
    <2>4. Pass("arch", s) = v /\ Splits("arch", s)
      BY <1>1, <1>3, <2>1, <2>2, <2>3, PassOfIfBlock DEF v
    <2>5. PieceFits(d, p, m, TRUE)
      BY <1>1, <1>5, <1>6, <2>2, <2>4, Zenon
    <2>6. Closed(o, v, e, b) = v
      BY <1>10 DEF Closed
    <2> QED BY <1>4, <2>4, <2>5, <2>6 DEF p, s
  <1> QED BY <1>8, <1>9, <1>10

\* Line o starts block b, which is neither a branch nor a here-document.
StartedBy(b, o) ==
    /\ b.is \in {"class", "block", "bottle", "on", "if"} /\ o.is = b.is
    /\ b.live = o.here /\ b.taken = o.here /\ (b.is \notin {"on", "if"} => o.here)

\* A block that has just been opened.
LEMMA NewLevelFits ==
    ASSUME NEW d, NEW m \in BOOLEAN, NEW o \in Lines, NEW b, StartedBy(b, o)
    PROVE  LevelFits(d, o, <<>>, b, m) /\ LiveOf(o, <<>>, b, m) = <<>>
  <1>0. /\ b.is \in {"class", "block", "bottle", "on", "if"} /\ o.is = b.is
        /\ b.live = o.here /\ b.taken = o.here /\ (b.is \notin {"on", "if"} => o.here)
    BY Zenon DEF StartedBy
  <1>1. Pass(Platform(m), <<>>) = <<>> /\ Splits(Platform(m), <<>>)
        /\ Pass("arch", <<>>) = <<>> /\ Splits("arch", <<>>)
    BY PlatformIsMode, PassOfNothing
  <1>2. o.here \in BOOLEAN
    BY DEF Lines
  <1>3. Chosen(o, <<>>) = <<>> /\ BranchFits(o, <<>>, b)
    BY <1>0, <1>2, KeptOfNothing
  <1>4. KeptOf(o, <<>>, b, m) = <<>>
    BY <1>0, <1>1, <1>3, Zenon DEF KeptOf
  <1>5. LiveOf(o, <<>>, b, m) = <<>>
    BY <1>1, <1>4 DEF LiveOf
  <1>6. OpenerFits(o, b)
    BY <1>0, <1>2 DEF OpenerFits
  <1> QED BY <1>0, <1>1, <1>3, <1>4, <1>5, <1>6, BalOfLines, OwnOfNothing, LiveFitsOfNothing, Zenon DEF LevelFits

\* The next branch of a conditional adds nothing to what is left of it.
NextBranchOf(b, l, a) ==
    /\ b.is = "if" /\ b.taken \in BOOLEAN
    /\ l.is \in {"elsif", "else"} /\ (l.is = "else" => l.here)
    /\ a.is = (IF l.is = "else" THEN "else" ELSE "if")
    /\ a.live = (l.here /\ ~b.taken) /\ a.taken = (l.here \/ b.taken)

\* What is left of a conditional is the same with its next branch.
LEMMA NextBranchFits ==
    ASSUME NEW d, NEW m \in BOOLEAN, NEW o \in Lines, NEW b, NEW c \in Seq(Lines), NEW l \in Lines, NEW a,
           LevelFits(d, o, c, b, m), NextBranchOf(b, l, a)
    PROVE  LevelFits(d, o, c \o <<l>>, a, m) /\ LiveOf(o, c \o <<l>>, a, m) = LiveOf(o, c, b, m)
  <1> USE DEF NextBranchOf
  <1> DEFINE q == Platform(m)
             r == Pass(q, c)
             x == <<l>>
             k == Chosen(o, r)
  <1>1. /\ Splits(q, c) /\ Splits("arch", k) /\ LiveFits(d, Pass("arch", k))
        /\ Bal(c) /\ Bal(r) /\ BranchFits(o, r, b) /\ OpenerFits(o, b)
    <2>1. KeptOf(o, c, b, m) = k
      BY DEF KeptOf
    <2> QED BY <2>1 DEF LevelFits, LiveOf
  <1>2. q \in Modes /\ r \in Seq(Lines) /\ x \in Seq(Lines)
    BY PlatformIsMode, PassIsText, JoinLaws
  <1>3. Pass(q, x) = x /\ Splits(q, x)
    <2>1. Left(q, l)
      BY DEF Left
    <2> HIDE DEF q
    <2> QED BY <1>2, <2>1, PassOfLine
  <1>4. Bal(x)
    <2>1. Opens(l) = 0 /\ l.is # "end"
      BY DEF Opens, Openers
    <2> QED BY <2>1, BalOfLines
  <1>5. Branch(l)
    BY DEF Branch
  <1>6. Chosen(o, r \o x) = k /\ BranchFits(o, r \o x, a)
    BY <1>1, <1>2, <1>5, KeptOfBranch
  <1>7. a.is \in {"if", "else"} /\ a.is # "class"
    OBVIOUS
  <1>8. OpenerFits(o, a)
    BY <1>1, <1>7 DEF OpenerFits
  <1>9. KeptOf(o, c, b, m) = k /\ LiveOf(o, c, b, m) = Pass("arch", k)
    BY DEF KeptOf, LiveOf
  <1> HIDE DEF q, x, r, k, NextBranchOf
  <1>10. Pass(q, c \o x) = r \o x /\ Splits(q, c \o x)
    <2>1. q \in Modes /\ x \in Seq(Lines) /\ Splits(q, c) /\ Splits(q, x)
      BY <1>1, <1>2, <1>3
    <2>2. Pass(q, c \o x) = Pass(q, c) \o Pass(q, x) /\ Splits(q, c \o x)
      BY <2>1, PassOfConcat
    <2>3. Pass(q, x) = x /\ Pass(q, c) = r
      BY <1>3 DEF r
    <2> QED BY <2>2, <2>3, Zenon
  <1>11. KeptOf(o, c \o x, a, m) = k /\ LiveOf(o, c \o x, a, m) = Pass("arch", k)
    BY <1>6, <1>7, <1>10, Zenon DEF KeptOf, LiveOf, q
  <1>12. Bal(c \o x) /\ Bal(r \o x)
    BY <1>1, <1>2, <1>4, BalOfConcat
  <1>13. LevelFits(d, o, c \o x, a, m) <=>
            /\ Splits(q, c \o x) /\ Splits("arch", k)
            /\ LiveFits(d, Pass("arch", k))
            /\ a.is # "class" => Bal(c \o x) /\ Bal(r \o x)
            /\ a.is \notin {"class", "if", "else"} => Own(r \o x) = {}
            /\ a.is \in {"if", "else"} => BranchFits(o, r \o x, a)
            /\ OpenerFits(o, a)
    BY <1>10, <1>11 DEF LevelFits, q
  <1>14. LevelFits(d, o, c \o x, a, m)
    BY <1>1, <1>6, <1>7, <1>8, <1>10, <1>12, <1>13
  <1> QED BY <1>9, <1>11, <1>14 DEF x

\* A here-document that is open: its lines are read as they are.
DocFits(d, o, c) ==
    /\ o.is = "doc" /\ \A i \in DOMAIN c : c[i].is = "prose"
    /\ \A q \in Modes : Splits(q, c) /\ Pass(q, c) = c
    /\ Bal(Plain(c))
    /\ c # <<>> => d = "cask"

LEMMA NewDocFits == \A d, o : o.is = "doc" => DocFits(d, o, <<>>)
  <1>1. \A q \in Modes : Splits(q, <<>>) /\ Pass(q, <<>>) = <<>>
    BY PassOfNothing
  <1>2. Bal(Plain(<<>>))
    BY LiveFitsOfNothing DEF LiveFits
  <1> QED BY <1>1, <1>2 DEF DocFits

\* A here-document with one more line of prose is still one the parser skips.
LEMMA ProseFits ==
    ASSUME NEW o, NEW c \in Seq(Lines), NEW l \in Lines, l.is = "prose", DocFits("cask", o, c)
    PROVE  DocFits("cask", o, c \o <<l>>)
  <1> DEFINE x == <<l>>
  <1>1. x \in Seq(Lines) /\ Len(x) = 1 /\ x[1] = l /\ DOMAIN x = {1}
    BY OneLine
  <1>2. \A q \in Modes : Left(q, l)
    BY DEF Left, Modes
  <1>3. \A q \in Modes : Splits(q, x) /\ Pass(q, x) = x
    BY <1>2, PassOfLine
  <1> HIDE DEF x
  <1>4. \A q \in Modes : Splits(q, c) /\ Pass(q, c) = c
    BY DEF DocFits
  <1>5. \A q \in Modes : Splits(q, c \o x) /\ Pass(q, c \o x) = c \o x
    <2> SUFFICES ASSUME NEW q \in Modes PROVE Splits(q, c \o x) /\ Pass(q, c \o x) = c \o x
      OBVIOUS
    <2>1. Pass(q, c \o x) = Pass(q, c) \o Pass(q, x) /\ Splits(q, c \o x)
      BY <1>1, <1>3, <1>4, PassOfConcat
    <2> QED BY <1>3, <1>4, <2>1, Zenon
  <1>6. c \o x \in Seq(Lines) /\ \A i \in DOMAIN (c \o x) : (c \o x)[i].is = "prose"
    <2>1. c \o x \in Seq(Lines) /\ Len(c \o x) = Len(c) + Len(x) /\ Len(c) \in Nat
          /\ (\A i \in 1..Len(c) : (c \o x)[i] = c[i]) /\ \A i \in 1..Len(x) : (c \o x)[Len(c) + i] = x[i]
      BY <1>1, JoinParts
    <2> DEFINE t == c \o x
               n == Len(c)
    <2>2. DOMAIN t = 1..(n + 1) /\ n \in Nat /\ (\A i \in 1..n : t[i] = c[i]) /\ t[n + 1] = l
      BY <1>1, <2>1
    <2>3. \A i \in 1..n : c[i].is = "prose"
      BY DEF DocFits
    <2> HIDE DEF t, n
    <2>4. \A i \in DOMAIN t : i \in 1..n \/ i = n + 1
      BY <2>2
    <2>5. \A i \in DOMAIN t : t[i].is = "prose"
      BY <2>2, <2>3, <2>4
    <2> QED BY <2>1, <2>5 DEF t
  <1>7. Bal(Plain(c \o x))
    <2> DEFINE y == [l EXCEPT !.is = "eos"]
    <2>1. y \in Lines /\ y.is = "eos"
      BY DEF Lines, LineKinds
    <2> HIDE DEF y
    <2>2. Plain(x) \in Seq(Lines) /\ Len(Plain(x)) = 1 /\ Plain(x)[1] = y
      <3>1. Plain(x) \in Seq(Lines) /\ Len(Plain(x)) = Len(x)
            /\ \A i \in 1..Len(x) : Plain(x)[i] = IF x[i].is = "prose" THEN [x[i] EXCEPT !.is = "eos"]
                                                  ELSE x[i]
        BY <1>1, PlainIsText
      <3>2. 1 \in 1..Len(x) /\ x[1].is = "prose" /\ y = [x[1] EXCEPT !.is = "eos"]
        BY <1>1 DEF y
      <3> QED BY <1>1, <3>1, <3>2
    <2>3. Plain(x) = <<y>>
      <3>1. <<y>> \in Seq(Lines) /\ Len(<<y>>) = 1 /\ <<y>>[1] = y
        BY <2>1
      <3> DEFINE u == Plain(x)
                 w == <<y>>
      <3> HIDE DEF u, w
      <3>2. \A i \in 1..Len(u) : u[i] = w[i]
        BY <2>2, <3>1 DEF u, w
      <3>3. u = w
        BY <2>2, <3>1, <3>2, SeqEqual DEF u, w
      <3> QED BY <3>3 DEF u, w
    <2>4. Bal(<<y>>)
      <3>1. Opens(y) = 0 /\ y.is # "end"
        BY <2>1 DEF Opens, Openers
      <3> QED BY <2>1, <3>1, BalOfLines
    <2>5. Plain(c \o x) = Plain(c) \o Plain(x)
      BY <1>1, PlainOfConcat
    <2>6. Bal(Plain(c)) /\ Plain(c) \in Seq(Lines) /\ Bal(Plain(x))
      BY <2>3, <2>4, PlainIsText DEF DocFits
    <2> QED BY <2>2, <2>5, <2>6, BalOfConcat
  <1> QED BY <1>5, <1>6, <1>7 DEF DocFits, x

-----------------------------------------------------------------------------
(* Here-documents and bottle blocks, once they are closed.                 *)

\* A here-document that is closed is read as it is.
LEMMA DocBlockFits ==
    \A d \in {"formula", "cask"} : \A m, whole \in BOOLEAN : \A o, e \in Lines : \A P \in Seq(Lines) :
       e.is = "eos" /\ DocFits(d, o, P) /\ (P # <<>> => ~whole) =>
          /\ ReadAs(d, Block(o, P, e), m, whole, Block(o, P, e))
          /\ NoLine(Block(o, P, e), Stanzas \cup {"bottle"})
  <1> SUFFICES ASSUME NEW d \in {"formula", "cask"}, NEW m \in BOOLEAN, NEW whole \in BOOLEAN,
                      NEW o \in Lines, NEW e \in Lines, NEW P \in Seq(Lines),
                      e.is = "eos", DocFits(d, o, P), P # <<>> => ~whole
               PROVE  /\ ReadAs(d, Block(o, P, e), m, whole, Block(o, P, e))
                      /\ NoLine(Block(o, P, e), Stanzas \cup {"bottle"})
    OBVIOUS
  <1> USE DEF ReadAs
  <1> DEFINE t == Block(o, P, e)
             x == <<o>>
             z == <<e>>
             y == Plain(P)
  <1>1. /\ o.is = "doc" /\ \A i \in DOMAIN P : P[i].is = "prose"
        /\ \A q \in Modes : Splits(q, P) /\ Pass(q, P) = P
        /\ Bal(y)
        /\ P # <<>> => d = "cask"
    BY DEF DocFits
  <1>2. x \in Seq(Lines) /\ z \in Seq(Lines) /\ y \in Seq(Lines) /\ t \in Seq(Lines)
    BY PlainIsText, BlockParts
  <1>3. \A q \in Modes : Left(q, o) /\ Left(q, e)
    BY <1>1 DEF Modes, Left
  <1>4. \A q \in Modes : Pass(q, t) = t /\ Splits(q, t)
    <2> SUFFICES ASSUME NEW q \in Modes PROVE Pass(q, t) = t /\ Splits(q, t)
      OBVIOUS
    <2>1. Pass(q, t) = Block(o, Pass(q, P), e) /\ Splits(q, t)
      BY <1>1, <1>3, PassOfPlainBlock
    <2>2. Pass(q, P) = P
      BY <1>1
    <2> QED BY <2>1, <2>2
  <1>5. Platform(m) \in Modes /\ "arch" \in Modes
    BY PlatformIsMode
  <1>6. Pass(Platform(m), t) = t /\ Pass("arch", t) = t /\ Splits(Platform(m), t) /\ Splits("arch", t)
    BY <1>4, <1>5
  <1>7. Bal(x) /\ Bal(z)
    <2>1. Opens(o) = 0 /\ o.is # "end" /\ Opens(e) = 0 /\ e.is # "end"
      BY <1>1 DEF Opens, Openers
    <2> QED BY <2>1, BalOfLines
  <1>8. Bal(Block(o, y, e))
    <2> HIDE DEF x, y, z
    <2>1. Bal(x \o y) /\ x \o y \in Seq(Lines)
      BY <1>1, <1>2, <1>7, BalOfConcat
    <2>2. Bal((x \o y) \o z)
      BY <1>2, <1>7, <2>1, BalOfConcat
    <2> QED BY <2>2 DEF Block, x, z
  <1>9. Plain(t) = Block(o, y, e)
    BY <1>1, PlainOfBlock
  <1>10. SplitsDocs(t)
    BY <1>1, DocsOfDoc
  <1>11. P = <<>> => y = <<>>
    BY NoLineOf, PlainOfPlain, JoinLaws
  <1>12. P = <<>> => NoLine(t, {"prose"})
    <2>1. o.is \notin {"prose"} /\ e.is \notin {"prose"}
      BY <1>1
    <2>2. NoLine(<<>>, {"prose"})
      BY NoLineOf
    <2>3. P = <<>> => NoLine(P, {"prose"})
      BY <2>2, Zenon
    <2> QED BY <2>1, <2>3, NoLineOfBlock
  <1>13. LiveFits(d, t)
    BY <1>1, <1>8, <1>9, <1>10, <1>12 DEF LiveFits
  <1>14. P = <<>> => Bal(t) /\ Own(t) = {}
    <2> SUFFICES ASSUME P = <<>> PROVE Bal(t) /\ Own(t) = {}
      OBVIOUS
    <2>1. Bal(t)
      BY <1>8, <1>11
    <2>2. x \o <<>> = x
      BY <1>2, JoinLaws
    <2>3. t = x \o z
      BY <2>2 DEF Block
    <2>4. Own(x) = {} /\ Own(z) = {}
      BY <1>1, OwnOfLine DEF Branch
    <2> HIDE DEF x, z
    <2>5. Own(x \o z) = Own(x) \cup {Len(x) + i : i \in Own(z)}
      BY <1>2, <1>7, OwnOfConcat
    <2> QED BY <2>1, <2>3, <2>4, <2>5
  <1>15. NoLine(t, Stanzas \cup {"bottle"})
    <2>1. o.is \notin Stanzas \cup {"bottle"} /\ e.is \notin Stanzas \cup {"bottle"}
      BY <1>1 DEF Stanzas
    <2>2. NoLine(P, Stanzas \cup {"bottle"})
      BY <1>1 DEF NoLine, Stanzas
    <2> QED BY <2>1, <2>2, NoLineOfBlock
  <1> HIDE DEF t
  <1>16. PieceFits(d, t, m, whole)
    BY <1>6, <1>13, <1>14, Zenon DEF PieceFits
  <1> QED BY <1>6, <1>15, <1>16 DEF t

\* Texts without a bottle block and digests, and those whose only ones are a bottle block.
Clean(ls) == NoLine(ls, {"bottle", "digest"})
BottleIn(ls, P, o, A, e, R) ==
    /\ ls = P \o (Block(o, A, e) \o R)
    /\ o.is = "bottle" /\ e.is = "end" /\ Clean(P) /\ Clean(R) /\ Bal(A)
Apart(ls) ==
    Clean(ls) \/ \E P, A, R \in Seq(Lines), o, e \in Lines : BottleIn(ls, P, o, A, e, R)

\* Two texts have no bottles and digests when neither has.
LEMMA CleanOf ==
    /\ Clean(<<>>)
    /\ \A l \in Lines : Clean(<<l>>) <=> l.is \notin {"bottle", "digest"}
    /\ \A a, b \in Seq(Lines) : Clean(a \o b) <=> Clean(a) /\ Clean(b)
    /\ \A o, e \in Lines : \A A \in Seq(Lines) :
          o.is \notin {"bottle", "digest"} /\ e.is \notin {"bottle", "digest"} =>
          (Clean(Block(o, A, e)) <=> Clean(A))
  BY NoLineOf, NoLineOfBlock, Zenon DEF Clean

\* The one bottle block of a text is still the one with texts that have none around it.
LEMMA ApartWithClean ==
    \A a, b \in Seq(Lines) : (Apart(a) /\ Clean(b)) \/ (Clean(a) /\ Apart(b)) => Apart(a \o b)
  <1> SUFFICES ASSUME NEW a \in Seq(Lines), NEW b \in Seq(Lines),
                      (Apart(a) /\ Clean(b)) \/ (Clean(a) /\ Apart(b))
               PROVE  Apart(a \o b)
    OBVIOUS
  <1>1. CASE Clean(a) /\ Clean(b)
    BY <1>1, CleanOf, Zenon DEF Apart
  <1>2. ASSUME NEW P \in Seq(Lines), NEW A \in Seq(Lines), NEW R \in Seq(Lines), NEW o \in Lines,
               NEW e \in Lines, BottleIn(a, P, o, A, e, R), Clean(b)
        PROVE  Apart(a \o b)
    <2> DEFINE B == Block(o, A, e)
    <2>1. B \in Seq(Lines) /\ B \o R \in Seq(Lines) /\ R \o b \in Seq(Lines)
      BY BlockParts, JoinLaws
    <2>2. a = P \o (B \o R)
      BY <1>2 DEF BottleIn
    <2> HIDE DEF B
    <2>3. Associates(P, B \o R, b) /\ Associates(B, R, b)
      BY <2>1, TextsAssociate
    <2>4. a \o b = P \o (B \o (R \o b))
      BY <2>2, <2>3, Zenon DEF Associates
    <2>5. Clean(R \o b)
      BY <1>2, CleanOf, Zenon DEF BottleIn
    <2>6. BottleIn(a \o b, P, o, A, e, R \o b)
      BY <1>2, <2>4, <2>5, Zenon DEF BottleIn, B
    <2> QED BY <2>1, <2>6, Zenon DEF Apart
  <1>3. ASSUME NEW P \in Seq(Lines), NEW A \in Seq(Lines), NEW R \in Seq(Lines), NEW o \in Lines,
               NEW e \in Lines, BottleIn(b, P, o, A, e, R), Clean(a)
        PROVE  Apart(a \o b)
    <2> DEFINE B == Block(o, A, e) \o R
    <2>1. B \in Seq(Lines) /\ a \o P \in Seq(Lines)
      BY BlockParts, JoinLaws
    <2>2. b = P \o B
      BY <1>3 DEF BottleIn
    <2> HIDE DEF B
    <2>3. Associates(a, P, B)
      BY <2>1, TextsAssociate
    <2>4. a \o b = (a \o P) \o B
      BY <2>2, <2>3, Zenon DEF Associates
    <2>5. Clean(a \o P)
      BY <1>3, CleanOf, Zenon DEF BottleIn
    <2>6. BottleIn(a \o b, a \o P, o, A, e, R)
      BY <1>3, <2>4, <2>5, Zenon DEF BottleIn, B
    <2> QED BY <2>1, <2>6, Zenon DEF Apart
  <1> QED BY <1>1, <1>2, <1>3, Zenon DEF Apart

\* A bottle block of its own is the one bottle block.
LEMMA ApartOfBlock ==
    \A o, e \in Lines : \A A \in Seq(Lines) :
       /\ o.is \notin {"bottle", "digest"} /\ e.is = "end" /\ Apart(A) => Apart(Block(o, A, e))
       /\ o.is = "bottle" /\ e.is = "end" /\ Bal(A) => Apart(Block(o, A, e))
  <1> SUFFICES ASSUME NEW o \in Lines, NEW e \in Lines, NEW A \in Seq(Lines), e.is = "end"
               PROVE  /\ o.is \notin {"bottle", "digest"} /\ Apart(A) => Apart(Block(o, A, e))
                      /\ o.is = "bottle" /\ Bal(A) => Apart(Block(o, A, e))
    OBVIOUS
  <1> DEFINE x == <<o>>
             z == <<e>>
             B == Block(o, A, e)
  <1>1. x \in Seq(Lines) /\ z \in Seq(Lines) /\ x \o A \in Seq(Lines) /\ B \in Seq(Lines)
    BY BlockParts
  <1>2. e.is \notin {"bottle", "digest"}
    OBVIOUS
  <1>3. Clean(z) /\ (o.is \notin {"bottle", "digest"} => Clean(x))
    BY <1>2, CleanOf, Zenon
  <1>4. B = (x \o A) \o z
    BY DEF Block
  <1> HIDE DEF x, z, B
  <1>5. o.is \notin {"bottle", "digest"} /\ Apart(A) => Apart(B)
    <2> SUFFICES ASSUME o.is \notin {"bottle", "digest"}, Apart(A) PROVE Apart(B)
      OBVIOUS
    <2>1. Apart(x \o A)
      BY <1>1, <1>3, ApartWithClean, Zenon
    <2>2. Apart((x \o A) \o z)
      BY <1>1, <1>3, <2>1, ApartWithClean, Zenon
    <2> QED BY <1>4, <2>2, Zenon
  <1>6. o.is = "bottle" /\ Bal(A) => Apart(B)
    <2> SUFFICES ASSUME o.is = "bottle", Bal(A) PROVE Apart(B)
      OBVIOUS
    <2>1. B \o <<>> = B /\ <<>> \o B = B /\ <<>> \in Seq(Lines)
      BY <1>1, JoinLaws
    <2>2. <<>> \o (B \o <<>>) = B
      BY <2>1, Zenon
    <2>3. BottleIn(B, <<>>, o, A, e, <<>>)
      BY <2>2, CleanOf, Zenon DEF BottleIn, B
    <2> QED BY <2>1, <2>3, Zenon DEF Apart
  <1> QED BY <1>5, <1>6 DEF B

\* The digests that are read are those of the one bottle block.
LEMMA DigestsOfApart ==
    \A o, e \in Lines : \A v \in Seq(Lines) :
       o.is = "class" /\ e.is = "end" /\ Apart(v) =>
          DigestsOf(BottleBlock(Block(o, v, e))) = All(v, "digest")
  <1> SUFFICES ASSUME NEW o \in Lines, NEW e \in Lines, NEW v \in Seq(Lines),
                      o.is = "class", e.is = "end", Apart(v)
               PROVE  DigestsOf(BottleBlock(Block(o, v, e))) = All(v, "digest")
    OBVIOUS
  <1> DEFINE t == Block(o, v, e)
             S == {i \in DOMAIN t : t[i].is = "bottle"}
  <1>1. /\ t \in Seq(Lines) /\ Len(t) = Len(v) + 2 /\ t[1] = o /\ t[Len(v) + 2] = e
        /\ \A i \in 1..Len(v) : t[i + 1] = v[i]
        /\ <<o>> \in Seq(Lines) /\ <<e>> \in Seq(Lines) /\ <<o>> \o v \in Seq(Lines)
        /\ Len(<<o>> \o v) = Len(v) + 1
    BY BlockParts
  <1>2. BottleBlock(t) = IF S = {} THEN <<>> ELSE BodyOf(Cut(t, Min(S), Len(t)), "bottle")
    BY DEF BottleBlock
  <1>3. CASE Clean(v)
    <2>1. Clean(t)
      <3>1. o.is \notin {"bottle", "digest"} /\ e.is \notin {"bottle", "digest"}
        OBVIOUS
      <3> QED BY <1>3, <3>1, CleanOf, Zenon
    <2>2. S = {}
      BY <2>1 DEF Clean, NoLine
    <2>3. DigestsOf(BottleBlock(t)) = {}
      BY <1>2, <2>2, AllOfNothing DEF DigestsOf, All
    <2>4. All(v, "digest") = {}
      BY <1>3, AllOfClean DEF Clean
    <2> QED BY <2>3, <2>4
  <1>4. ASSUME NEW P \in Seq(Lines), NEW A \in Seq(Lines), NEW R \in Seq(Lines), NEW x \in Lines,
               NEW y \in Lines, BottleIn(v, P, x, A, y, R)
        PROVE  DigestsOf(BottleBlock(t)) = All(v, "digest")
    <2> DEFINE B == Block(x, A, y)
               Q == <<o>> \o P
               W == R \o <<e>>
               u == B \o W
    <2>1. /\ v = P \o (B \o R) /\ x.is = "bottle" /\ y.is = "end" /\ Clean(P) /\ Clean(R) /\ Bal(A)
      BY <1>4 DEF BottleIn
    <2>2. B \in Seq(Lines) /\ B \o R \in Seq(Lines) /\ Q \in Seq(Lines) /\ W \in Seq(Lines) /\ u \in Seq(Lines)
      BY <1>1, BlockParts, JoinLaws
    <2>3. Len(Q) \in Nat /\ Len(A) \in Nat /\ Len(W) \in Nat
      BY <2>2
    <2>4. t = Q \o u
      <3> DEFINE a == <<o>>
                 c == <<e>>
      <3>1. a \in Seq(Lines) /\ c \in Seq(Lines)
        BY <1>1
      <3>2. t = (a \o v) \o c
        BY DEF Block
      <3> HIDE DEF a, c, B
      <3>3. Associates(a, P, B \o R) /\ Associates(a \o P, B \o R, c) /\ Associates(B, R, c)
        <4>1. a \o P \in Seq(Lines)
          BY <3>1, JoinLaws
        <4> QED BY <2>2, <3>1, <4>1, TextsAssociate
      <3>4. t = (a \o P) \o (B \o (R \o c))
        BY <2>1, <3>2, <3>3, Zenon DEF Associates
      <3> QED BY <3>4 DEF a, c
    <2>5. Clean(Q)
      <3>1. o.is \notin {"bottle", "digest"}
        OBVIOUS
      <3> QED BY <1>1, <2>1, <3>1, CleanOf, Zenon
    <2> HIDE DEF Q
    <2> HIDE DEF W, t
    <2>6. /\ Len(u) = Len(A) + 2 + Len(W) /\ u[1] = x /\ u # <<>>
          /\ MatchingEnd(u) = Len(A) + 2 /\ Inner(u) = A
      BY <2>1, <2>2, EndOfBlock
    <2> HIDE DEF B, u
    <2>7. /\ Len(t) = Len(Q) + Len(u) /\ (\A i \in 1..Len(Q) : t[i] = Q[i])
          /\ (\A i \in 1..Len(u) : t[Len(Q) + i] = u[i]) /\ Len(u) \in Nat
      BY <2>2, <2>4, JoinParts
    <2>8. DOMAIN t = 1..(Len(Q) + Len(u)) /\ DOMAIN Q = 1..Len(Q)
      BY <1>1, <2>2, <2>7
    <2>9. Len(Q) + 1 \in S
      <3>1. 1 \in 1..Len(u)
        BY <2>3, <2>6
      <3>2. t[Len(Q) + 1] = x
        BY <2>6, <2>7, <3>1
      <3>3. Len(Q) + 1 \in DOMAIN t
        BY <2>3, <2>7, <2>8, <3>1
      <3> QED BY <2>1, <3>2, <3>3
    <2>10. \A i \in S : i \in Nat /\ Len(Q) + 1 <= i
      <3> SUFFICES ASSUME NEW i \in S PROVE i \in Nat /\ Len(Q) + 1 <= i
        OBVIOUS
      <3>1. i \in 1..(Len(Q) + Len(u)) /\ t[i].is = "bottle"
        BY <2>8
      <3>2. i \in 1..Len(Q) => Q[i].is # "bottle"
        BY <2>5, <2>8 DEF Clean, NoLine
      <3>3. ~(i \in 1..Len(Q))
        BY <2>7, <3>1, <3>2
      <3> QED BY <2>3, <3>1, <3>3
    <2>11. Min(S) = Len(Q) + 1 /\ S # {}
      <3> HIDE DEF S
      <3>1. S \subseteq Nat
        BY <2>10
      <3> QED BY <2>9, <2>10, <3>1, FirstIs
    <2>12. Cut(t, Len(Q) + 1, Len(t)) = u
      <3>1. Len(t) \in 0..Len(t)
        BY <1>1
      <3>2. Cut(t, Len(Q) + 1, Len(t)) = SubSeq(t, Len(Q) + 1, Len(t))
        BY <1>1, <3>1, CutIs
      <3> QED BY <2>2, <2>4, <3>2, StartAndRestOf
    <2>13. BodyOf(u, "bottle") = A
      <3> DEFINE F == {i \in DOMAIN u : u[i].is = "bottle"}
      <3>1. DOMAIN u = 1..Len(u) /\ 1 \in 1..Len(u)
        BY <2>2, <2>3, <2>6
      <3>2. 1 \in F /\ F \subseteq Nat /\ \A i \in F : 1 <= i
        BY <2>1, <2>6, <3>1
      <3>3. BodyOf(u, "bottle") =
               IF FirstOf(F, 0) = 0 \/ MatchingEnd(Cut(u, FirstOf(F, 0), Len(u))) > Len(Cut(u, FirstOf(F, 0), Len(u)))
               THEN u ELSE Inner(Cut(u, FirstOf(F, 0), Len(u)))
        BY DEF BodyOf
      <3> HIDE DEF F
      <3>4. FirstOf(F, 0) = 1
        BY <3>2, FirstIs
      <3>5. Cut(u, 1, Len(u)) = u
        <4>1. Len(u) \in 0..Len(u)
          BY <2>7
        <4>2. Cut(u, 1, Len(u)) = SubSeq(u, 1, Len(u))
          BY <2>2, <4>1, CutIs
        <4>3. u \o <<>> = u /\ <<>> \in Seq(Lines)
          BY <2>2, JoinLaws
        <4>4. SubSeq(u \o <<>>, 1, Len(u)) = u
          BY <2>2, <4>3, StartAndRestOf
        <4> QED BY <4>2, <4>3, <4>4
      <3>6. ~(MatchingEnd(u) > Len(u))
        BY <2>3, <2>6
      <3> QED BY <2>6, <3>3, <3>4, <3>5, <3>6
    <2>14. BottleBlock(t) = A
      BY <1>2, <2>11, <2>12, <2>13
    <2>15. DigestsOf(BottleBlock(t)) = All(A, "digest")
      BY <2>14 DEF DigestsOf, All
    <2>16. All(v, "digest") = All(A, "digest")
      <3>1. All(P, "digest") = {} /\ All(R, "digest") = {}
        BY <2>1, AllOfClean DEF Clean
      <3>2. All(B, "digest") = All(A, "digest")
        <4>1. x.is # "digest" /\ y.is # "digest"
          BY <2>1
        <4> QED BY <4>1, AllOfBlock DEF B
      <3>3. All(B \o R, "digest") = All(B, "digest") \cup All(R, "digest")
        BY <2>2, AllOfConcat
      <3> DEFINE w == B \o R
      <3>a. w \in Seq(Lines)
        BY <2>2
      <3> HIDE DEF w
      <3>4. All(P \o w, "digest") = All(P, "digest") \cup All(w, "digest")
        BY <3>a, AllOfConcat
      <3> QED BY <2>1, <3>1, <3>2, <3>3, <3>4 DEF w
    <2> QED BY <2>15, <2>16
  <1> QED BY <1>3, <1>4 DEF Apart

-----------------------------------------------------------------------------
(* A class that is complete.                                               *)

\* What a complete class means, from what is left of its lines.
Collected(d, v) ==
    [dependencies |-> Nums(d, v, "dependency"), url |-> FirstOf(Nums(d, v, "url"), 0),
     version |-> FirstOf(Nums(d, v, "version"), 0), bottle |-> Nums(d, v, "digest")]

\* The passes leave the first line of a class, what is left of it, and its end.
LEMMA ClassIsRead ==
    ASSUME NEW o \in Lines, NEW e \in Lines, NEW c \in Seq(Lines), o.is = "class", e.is = "end",
           Splits("resolve", c), Splits("arch", Pass("resolve", c))
    PROVE  Pass("arch", Pass("resolve", Block(o, c, e))) = Block(o, Pass("arch", Pass("resolve", c)), e)
  <1>1. "resolve" \in Modes /\ "arch" \in Modes
    BY DEF Modes
  <1>2. Left("resolve", o) /\ Left("resolve", e) /\ Left("arch", o) /\ Left("arch", e)
    BY DEF Left
  <1>3. Pass("resolve", Block(o, c, e)) = Block(o, Pass("resolve", c), e)
    BY <1>1, <1>2, PassOfPlainBlock
  <1> DEFINE r == Pass("resolve", c)
  <1>4. r \in Seq(Lines)
    BY <1>1, PassIsText
  <1> HIDE DEF r
  <1>5. Pass("arch", Block(o, r, e)) = Block(o, Pass("arch", r), e)
    BY <1>1, <1>2, <1>4, PassOfPlainBlock DEF r
  <1> QED BY <1>3, <1>5 DEF r

\* The body of a class is what it holds.
LEMMA BodyOfClass ==
    ASSUME NEW o \in Lines, NEW e \in Lines, NEW A \in Seq(Lines), o.is = "class", e.is = "end", Bal(A)
    PROVE  BodyOf(Block(o, A, e), "class") = A
  <1> DEFINE u == Block(o, A, e)
             F == {i \in DOMAIN u : u[i].is = "class"}
  <1>1. u \in Seq(Lines) /\ <<>> \in Seq(Lines) /\ Len(A) \in Nat
    BY BlockParts, JoinLaws
  <1>2. u \o <<>> = u
    BY <1>1, JoinLaws
  <1>3. LET t == u \o <<>> IN
        /\ t[1] = o /\ Len(t) = Len(A) + 2 + Len(<<>>) /\ MatchingEnd(t) = Len(A) + 2 /\ Inner(t) = A
    <2> DEFINE R == <<>>
    <2>1. R \in Seq(Lines)
      OBVIOUS
    <2> HIDE DEF R, u
    <2>2. LET t == Block(o, A, e) \o R IN
          /\ t[1] = o /\ Len(t) = Len(A) + 2 + Len(R) /\ MatchingEnd(t) = Len(A) + 2 /\ Inner(t) = A
      BY <2>1, EndOfBlock
    <2> QED BY <2>2 DEF R, u
  <1>4. Len(<<>>) = 0
    OBVIOUS
  <1> HIDE DEF u
  <1>5. u[1] = o /\ Len(u) = Len(A) + 2 /\ MatchingEnd(u) = Len(A) + 2 /\ Inner(u) = A
    BY <1>1, <1>2, <1>3, <1>4
  <1>6. 1 \in F /\ F \subseteq Nat /\ \A i \in F : 1 <= i
    <2>1. DOMAIN u = 1..Len(u) /\ 1 \in 1..Len(u)
      BY <1>1, <1>5
    <2> QED BY <1>5, <2>1
  <1>7. BodyOf(u, "class") =
           IF FirstOf(F, 0) = 0 \/ MatchingEnd(Cut(u, FirstOf(F, 0), Len(u))) > Len(Cut(u, FirstOf(F, 0), Len(u)))
           THEN u ELSE Inner(Cut(u, FirstOf(F, 0), Len(u)))
    BY DEF BodyOf
  <1> HIDE DEF F
  <1>8. FirstOf(F, 0) = 1
    BY <1>6, FirstIs
  <1>9. Cut(u, 1, Len(u)) = u
    <2>1. Len(u) \in 0..Len(u)
      BY <1>1
    <2>2. Cut(u, 1, Len(u)) = SubSeq(u, 1, Len(u))
      BY <1>1, <2>1, CutIs
    <2>3. SubSeq(u \o <<>>, 1, Len(u)) = u
      BY <1>1, StartAndRestOf
    <2> QED BY <1>2, <2>2, <2>3
  <1>10. ~(MatchingEnd(u) > Len(u))
    BY <1>1, <1>5
  <1>11. BodyOf(u, "class") = A
    BY <1>5, <1>7, <1>8, <1>9, <1>10
  <1> QED BY <1>11 DEF u

ClassStands(d, o, c, e, b) ==
    /\ b.is = "class" /\ e.is = "end"
    /\ LevelFits(d, o, c, b, FALSE) /\ Apart(LiveOf(o, c, b, FALSE))
ClassReads(d, o, c, e, b) == Parsed(d, Block(o, c, e)) = Collected(d, LiveOf(o, c, b, FALSE))

\* The parser collects what is left of the class when it is complete.
LEMMA ClassMeans ==
    ASSUME NEW d \in {"formula", "cask"}, NEW o \in Lines, NEW e \in Lines, NEW c \in Seq(Lines), NEW b,
           ClassStands(d, o, c, e, b)
    PROVE  ClassReads(d, o, c, e, b)
  <1> USE DEF ClassStands, ClassReads
  <1> DEFINE r == Pass("resolve", c)
             v == Pass("arch", r)
             t == Block(o, c, e)
             live == Block(o, v, e)
             read == IF d = "cask" THEN WithoutDocs(live) ELSE live
             A == Plain(v)
  <1>1. o.is = "class" /\ b.live
    BY DEF LevelFits, OpenerFits
  <1>2. KeptOf(o, c, b, FALSE) = r /\ LiveOf(o, c, b, FALSE) = v /\ Platform(FALSE) = "resolve"
    BY <1>1 DEF KeptOf, LiveOf, Goes, Platform
  <1>3. Splits("resolve", c) /\ Splits("arch", r) /\ LiveFits(d, v) /\ Apart(v)
    BY <1>2 DEF LevelFits
  <1>4. r \in Seq(Lines) /\ v \in Seq(Lines) /\ A \in Seq(Lines)
    BY PassIsText, PlainIsText DEF Modes
  <1>5. ResolveArch(ResolveOn(t)) = live
    <2>1. Pass("arch", Pass("resolve", t)) = live
      BY <1>1, <1>3, ClassIsRead
    <2>2. Pass("arch", Pass("resolve", t)) = ResolveArch(ResolveOn(t))
      BY DEF Pass
    <2> QED BY <2>1, <2>2
  <1>6. live \in Seq(Lines)
    BY <1>4, BlockParts
  <1>7. Plain(live) = Block(o, A, e)
    BY <1>1, <1>4, PlainOfBlock
  <1>8. read = Plain(live)
    <2>1. CASE d = "cask"
      <3>1. SplitsDocs(live)
        <4> DEFINE x == <<o>>
                   z == <<e>>
        <4>1. x \in Seq(Lines) /\ z \in Seq(Lines) /\ SplitsDocs(x) /\ SplitsDocs(z)
          BY <1>1, JoinLaws, DocsOfLine
        <4> HIDE DEF x, z, v
        <4>2. x \o v \in Seq(Lines) /\ SplitsDocs(x \o v)
          BY <1>3, <1>4, <4>1, DocsOfConcat, JoinLaws DEF LiveFits
        <4>3. SplitsDocs((x \o v) \o z)
          BY <4>1, <4>2, DocsOfConcat
        <4> QED BY <4>3 DEF Block, x, z
      <3> HIDE DEF live
      <3>2. WithoutDocs(live \o <<>>) = Plain(live) \o WithoutDocs(<<>>) /\ <<>> \in Seq(Lines)
        BY <3>1, JoinLaws DEF SplitsDocs
      <3>3. WithoutDocs(<<>>) = <<>>
        <4>1. WithoutDocs(<<>>) \in Seq(Lines) /\ Len(WithoutDocs(<<>>)) = Len(<<>>)
          BY WithoutDocsIs, JoinLaws
        <4> QED BY <4>1
      <3>4. live \o <<>> = live /\ Plain(live) \o <<>> = Plain(live)
        BY <1>6, PlainIsText, JoinLaws
      <3> QED BY <2>1, <3>2, <3>3, <3>4
    <2>2. CASE d = "formula"
      <3>1. NoLine(v, {"prose"})
        BY <1>3, <2>2 DEF LiveFits
      <3>2. A = v
        BY <1>4, <3>1, PlainOfPlain
      <3> QED BY <1>7, <2>2, <3>2
    <2> QED BY <2>1, <2>2
  <1>9. BodyOf(read, "class") = A
    <2>1. Bal(A)
      BY <1>3 DEF LiveFits
    <2> HIDE DEF A, read
    <2>2. BodyOf(Block(o, A, e), "class") = A
      BY <1>1, <1>4, <2>1, BodyOfClass
    <2> QED BY <1>7, <1>8, <2>2
  <1>10. \A kind \in Stanzas : All(live, kind) = All(v, kind)
    <2>1. \A kind \in Stanzas : o.is # kind /\ e.is # kind
      BY <1>1 DEF Stanzas
    <2> QED BY <1>4, <2>1, AllOfBlock
  <1>11. DigestsOf(BottleBlock(live)) = All(v, "digest")
    BY <1>1, <1>3, <1>4, DigestsOfApart
  <1>12. Parsed(d, t) =
            [dependencies |-> Top(A, "dependency"),
             url |-> UrlOf(d, live, A),
             version |-> VersionOf(live),
             bottle |-> DigestsOf(BottleBlock(live))]
    BY <1>5, <1>9 DEF Parsed, Top
  <1>13. "url" \in Stanzas /\ "version" \in Stanzas
    BY DEF Stanzas
  <1> HIDE DEF live, v, t, A
  <1>14. VersionOf(live) = FirstOf(Nums(d, v, "version"), 0)
    <2>1. Nums(d, v, "version") = All(v, "version")
      BY DEF Nums, Wide
    <2> QED BY <1>10, <1>13, <2>1 DEF VersionOf, All
  <1>15. UrlOf(d, live, A) = FirstOf(Nums(d, v, "url"), 0)
    <2>1. CASE d = "cask"
      <3>1. Nums(d, v, "url") = All(v, "url")
        BY <2>1 DEF Nums, Wide
      <3> QED BY <1>10, <1>13, <2>1, <3>1 DEF UrlOf, All
    <2>2. CASE d = "formula"
      <3>1. Nums(d, v, "url") = Top(A, "url")
        BY <2>2 DEF Nums, Wide, A
      <3> QED BY <2>2, <3>1 DEF UrlOf, Top
    <2> QED BY <2>1, <2>2
  <1>16. Nums(d, v, "dependency") = Top(A, "dependency") /\ Nums(d, v, "digest") = All(v, "digest")
    BY DEF Nums, Wide, A
  <1>17. Parsed(d, t) = Collected(d, v)
    BY <1>11, <1>12, <1>14, <1>15, <1>16 DEF Collected
  <1> QED BY <1>2, <1>17 DEF t, v
=============================================================================
