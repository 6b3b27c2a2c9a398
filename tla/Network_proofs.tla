--------------------------- MODULE Network_proofs ---------------------------
(***************************************************************************)
(* Proofs about the components that ask servers, for any constants their   *)
(* assumptions allow, and about their sum.                                 *)
(*                                                                         *)
(* Of each component: an inductive invariant (TokenInv, ApiInv, TapInv,    *)
(* ChunkInv, IndexInv), a lemma that it holds at the start, one that every *)
(* step keeps it, and what follows from it.  The recursive functions of    *)
(* the chunks are reasoned about by induction over sets of numbers: a set  *)
(* of naturals with 0 in it and with each of its members the next one too  *)
(* is Nat.                                                                 *)
(***************************************************************************)
EXTENDS MCNetwork, FiniteSetTheorems, SequenceTheorems, TLAPS

-----------------------------------------------------------------------------
(* Induction over the numbers, by sets of them.                            *)

LEMMA LeastNatural ==
    ASSUME NEW S, S \subseteq Nat, S # {}
    PROVE  \E x \in S : \A y \in S : x <= y
  <1> DEFINE Less == {p \in Nat \X Nat : p[1] < p[2]}
  <1>1. IsWellFoundedOn(Less, Nat)
    BY NatLessThanWellFounded DEF OpToRel
  <1> HIDE DEF Less
  <1>2. PICK x \in S : \A y \in S : ~(<<y, x>> \in Less)
    BY <1>1, WFMin, Zenon
  <1>3. \A y \in S : ~(y < x)
    BY <1>2 DEF Less
  <1> QED BY <1>3

LEMMA AllNaturals ==
    ASSUME NEW S, S \subseteq Nat, 0 \in S, \A i \in S : i + 1 \in S
    PROVE  S = Nat
  <1> SUFFICES ASSUME Nat \ S # {} PROVE FALSE
    OBVIOUS
  <1>1. PICK x \in Nat \ S : \A y \in Nat \ S : x <= y
    BY LeastNatural
  <1>2. x # 0 /\ x - 1 \in Nat /\ (x - 1) + 1 = x
    BY <1>1
  <1>3. x - 1 \in S
    BY <1>1, <1>2
  <1> QED BY <1>1, <1>2, <1>3

-----------------------------------------------------------------------------
(* The tokens of the registry.  A request that met no fault holds a token  *)
(* the server accepts, or none; a round that ends without an answer used   *)
(* up a token of its scope, and a scope has no more tokens than a request  *)
(* has rounds.                                                             *)

\* The tokens of a scope that are younger than the cache lets them get are accepted.
FreshAccepted ==
    \A s \in Scopes : \A i \in 1..MaxTokens : aged[s] < i /\ i <= issued[s] => <<s, i>> \in accepted

\* A chunk asks without a token only where all tokens of its scope are too old, and in
\* each of its rounds so far one of them got so.
RoundsFit(f) ==
    /\ fetch[f].pc # "resent"
    /\ fetch[f].attempt <= issued[ChallengeOf[f]]
    /\ (fetch[f].pc = "sent" /\ fetch[f].token[2] = 0) \/ fetch[f].pc \in {"challenge", "issue"} =>
          fetch[f].attempt <= aged[ChallengeOf[f]]

\* The URL of a chunk tells its scope, as those of the registry's blobs do.  The chunks of
\* another server that wants a token never send one: the token a refusal brings is cached
\* under the scope the challenge names, and the next round looks under the URL's.
Told(f) == f \in ChunkFetches => ScopeOf[f] # NoScope

ChunksTellScope == \A f \in ChunkFetches : ScopeOf[f] # NoScope

Untroubled(f) ==
    /\ FreshAccepted
    /\ Told(f) => fetch[f].pc # "failed"
    /\ fetch[f].pc \in {"sent", "resent"} /\ fetch[f].token[2] # 0 => fetch[f].token \in accepted
    /\ fetch[f].pc = "resent" => fetch[f].token[2] # 0
    /\ f \in ChunkFetches /\ Told(f) => RoundsFit(f)

TokenInv == TokenTypeOK /\ \A f \in Fetches \ trouble : Untroubled(f)

LEMMA FetchTypes ==
    ASSUME TokenTypeOK, NEW f \in Fetches
    PROVE  /\ fetch[f].pc \in FetchSteps /\ fetch[f].attempt \in 0..MaxChunkRetries
           /\ fetch[f].token \in Scopes \X (0..MaxTokens)
           /\ fetch[f].refused \subseteq Token
           /\ ChallengeOf[f] \in Scopes
           /\ MaxTokens \in Nat \ {0} /\ MaxChunkRetries \in Nat \ {0}
           /\ MaxTokens <= MaxChunkRetries
  BY TokenAssumption DEF TokenTypeOK

LEMMA TokenStarts == TokenInit => TokenInv
  <1> SUFFICES ASSUME TokenInit PROVE TokenInv
    OBVIOUS
  <1>1. MaxTokens \in Nat \ {0} /\ MaxChunkRetries \in Nat \ {0}
    BY TokenAssumption
  <1>2. \A f \in Fetches : NoToken(f) \in Scopes \X (0..MaxTokens)
    BY <1>1, TokenAssumption DEF NoToken
  <1>3. TokenTypeOK
    BY <1>1, <1>2 DEF TokenInit, TokenTypeOK, FetchSteps
  <1>4. \A f \in Fetches : Untroubled(f)
    BY <1>1, TokenAssumption DEF TokenInit, Untroubled, FreshAccepted, RoundsFit
  <1> QED BY <1>3, <1>4 DEF TokenInv

\* A token the cache hands out is fresh.
LEMMA LookupFits ==
    ASSUME TokenTypeOK, NEW s \in Scopes
    PROVE  /\ Lookup(s) \in Scopes \X (0..MaxTokens) /\ Lookup(s)[1] = s
           /\ Lookup(s)[2] # 0 => /\ aged[s] < Lookup(s)[2] /\ Lookup(s)[2] = issued[s]
                                  /\ FreshAccepted => Lookup(s) \in accepted
           /\ Lookup(s)[2] = 0 => aged[s] = issued[s]
  <1>1. MaxTokens \in Nat /\ issued[s] \in 0..MaxTokens /\ aged[s] \in 0..MaxTokens
        /\ aged[s] <= issued[s]
    BY TokenAssumption DEF TokenTypeOK
  <1>2. CASE issued[s] > aged[s]
    BY <1>1, <1>2 DEF Lookup, FreshAccepted
  <1>3. CASE ~(issued[s] > aged[s])
    BY <1>1, <1>3 DEF Lookup
  <1> QED BY <1>2, <1>3

\* A step of f leaves the others as they are, where no token is dropped or gets too old.
LEMMA FetchStep ==
    ASSUME TokenInv, NEW f \in Fetches, TokenTypeOK',
           \A g \in Fetches : g # f => fetch'[g] = fetch[g],
           trouble' = trouble \/ trouble' = trouble \cup {f},
           aged' = aged, accepted \subseteq accepted',
           \A s \in Scopes : issued[s] <= issued'[s],
           FreshAccepted => FreshAccepted',
           f \notin trouble' => Untroubled(f)'
    PROVE  TokenInv'
  <1> SUFFICES ASSUME NEW g \in Fetches, g # f, g \notin trouble' PROVE Untroubled(g)'
    BY DEF TokenInv
  <1>1. Untroubled(g) /\ fetch'[g] = fetch[g]
    BY DEF TokenInv
  <1>2. ChallengeOf[g] \in Scopes /\ issued[ChallengeOf[g]] <= issued'[ChallengeOf[g]]
        /\ issued[ChallengeOf[g]] \in Nat /\ issued'[ChallengeOf[g]] \in Nat
        /\ fetch[g].attempt \in Nat
    BY TokenAssumption DEF TokenInv, TokenTypeOK
  <1> QED BY <1>1, <1>2 DEF Untroubled, RoundsFit

FetchTypes0 == [pc : FetchSteps, attempt : 0..MaxChunkRetries,
                token : Scopes \X (0..MaxTokens), refused : SUBSET Token]

LEMMA ToType ==
    ASSUME TokenTypeOK, NEW f \in Fetches, NEW step \in FetchSteps, To(f, step)
    PROVE  /\ fetch' \in [Fetches -> FetchTypes0]
           /\ fetch'[f] = [fetch[f] EXCEPT !.pc = step]
           /\ \A g \in Fetches : g # f => fetch'[g] = fetch[g]
  BY DEF TokenTypeOK, To, FetchTypes0

LEMMA AgainType ==
    ASSUME TokenTypeOK, NEW f \in Fetches, Again(f)
    PROVE  /\ fetch' \in [Fetches -> FetchTypes0]
           /\ GivesUpAt(f) => fetch'[f] = [fetch[f] EXCEPT !.pc = "failed"]
           /\ ~GivesUpAt(f) => fetch'[f] = [fetch[f] EXCEPT !.pc = "new", !.attempt = @ + 1]
           /\ \A g \in Fetches : g # f => fetch'[g] = fetch[g]
  <1>1. fetch \in [Fetches -> FetchTypes0] /\ fetch[f].attempt \in 0..MaxChunkRetries
        /\ MaxChunkRetries \in Nat
    BY FetchTypes DEF TokenTypeOK, FetchTypes0
  <1>2. CASE GivesUpAt(f)
    <2>1. fetch' = [fetch EXCEPT ![f] = [fetch[f] EXCEPT !.pc = "failed"]]
      BY <1>1, <1>2 DEF Again, FetchTypes0
    <2> QED BY <1>1, <1>2, <2>1 DEF FetchTypes0, FetchSteps
  <1>3. CASE ~GivesUpAt(f)
    <2>1. fetch' = [fetch EXCEPT ![f] = [fetch[f] EXCEPT !.pc = "new", !.attempt = @ + 1]]
      BY <1>1, <1>3 DEF Again, FetchTypes0
    <2>2. fetch[f].attempt + 1 \in 0..MaxChunkRetries
      BY <1>1, <1>3 DEF GivesUpAt
    <2>3. [fetch[f] EXCEPT !.pc = "new", !.attempt = @ + 1] \in FetchTypes0
      BY <1>1, <2>2 DEF FetchTypes0, FetchSteps
    <2>4. /\ fetch' \in [Fetches -> FetchTypes0]
          /\ fetch'[f] = [fetch[f] EXCEPT !.pc = "new", !.attempt = @ + 1]
          /\ \A g \in Fetches : g # f => fetch'[g] = fetch[g]
      BY <1>1, <2>1, <2>3
    <2> QED BY <1>3, <2>4
  <1> QED BY <1>2, <1>3

-----------------------------------------------------------------------------
(* The steps of a request.                                                 *)

LEMMA SendKeeps ==
    ASSUME TokenInv, NEW f \in Fetches, Send(f)
    PROVE  TokenInv'
  <1> DEFINE t == IF ScopeOf[f] = NoScope THEN NoToken(f) ELSE Lookup(ScopeOf[f])
  <1>1. TokenTypeOK /\ fetch \in [Fetches -> FetchTypes0] /\ fetch[f].attempt \in Nat
    BY FetchTypes DEF TokenInv, TokenTypeOK, FetchTypes0
  <1>2. /\ t \in Scopes \X (0..MaxTokens)
        /\ FreshAccepted /\ t[2] # 0 => t \in accepted
        /\ ScopeOf[f] # NoScope /\ t[2] = 0 => aged[ChallengeOf[f]] = issued[ChallengeOf[f]]
    <2>1. CASE ScopeOf[f] = NoScope
      BY <2>1, FetchTypes, <1>1 DEF NoToken
    <2>2. CASE ScopeOf[f] # NoScope
      <3>1. ScopeOf[f] \in Scopes /\ ChallengeOf[f] = ScopeOf[f]
        BY <2>2, TokenAssumption
      <3> QED BY <1>1, <2>2, <3>1, LookupFits
    <2> QED BY <2>1, <2>2
  <1> HIDE DEF t
  <1>3. /\ fetch' = [fetch EXCEPT ![f] = [fetch[f] EXCEPT !.pc = "sent", !.token = t]]
        /\ fetch[f].pc = "new" /\ UNCHANGED <<issued, aged, accepted, trouble>>
    BY <1>1 DEF Send, FetchTypes0, t
  <1>4. fetch'[f].pc = "sent" /\ fetch'[f].token = t /\ fetch'[f].attempt = fetch[f].attempt
    BY <1>1, <1>3 DEF FetchTypes0
  <1>5. TokenTypeOK'
    <2>1. [fetch[f] EXCEPT !.pc = "sent", !.token = t] \in FetchTypes0
      BY <1>1, <1>2 DEF FetchTypes0, FetchSteps
    <2>2. fetch' \in [Fetches -> FetchTypes0]
      BY <1>1, <1>3, <2>1
    <2> QED BY <1>1, <1>3, <2>2 DEF TokenTypeOK, FetchTypes0
  <1>6. f \notin trouble' => Untroubled(f)'
    <2> SUFFICES ASSUME f \notin trouble PROVE Untroubled(f)'
      BY <1>3
    <2>1. Untroubled(f)
      BY DEF TokenInv
    <2>2. f \in ChunkFetches /\ Told(f) => RoundsFit(f)'
      BY <1>2, <1>3, <1>4, <2>1 DEF Told, Untroubled, RoundsFit
    <2> QED BY <1>2, <1>3, <1>4, <2>1, <2>2 DEF Untroubled, FreshAccepted
  <1> QED BY <1>3, <1>5, <1>6, <1>1, FetchStep DEF FreshAccepted, TokenTypeOK

\* A request that goes to another step, with the same token.
LEMMA GoesKeeps ==
    ASSUME TokenInv, NEW f \in Fetches, NEW step \in FetchSteps,
           To(f, step), UNCHANGED <<issued, aged, accepted>>,
           trouble' = trouble \/ trouble' = trouble \cup {f},
           f \notin trouble' =>
              /\ step \in {"ok", "challenge", "issue"}
              /\ step \in {"challenge", "issue"} /\ f \in ChunkFetches /\ Told(f) =>
                    fetch[f].attempt <= aged[ChallengeOf[f]]
    PROVE  TokenInv'
  <1>1. TokenTypeOK
    BY DEF TokenInv
  <1>2. /\ fetch' \in [Fetches -> FetchTypes0]
        /\ fetch'[f] = [fetch[f] EXCEPT !.pc = step]
        /\ \A g \in Fetches : g # f => fetch'[g] = fetch[g]
    BY <1>1, ToType
  <1>3. TokenTypeOK'
    BY <1>1, <1>2 DEF TokenTypeOK, FetchTypes0
  <1>4. fetch \in [Fetches -> FetchTypes0]
    BY <1>1 DEF TokenTypeOK, FetchTypes0
  <1>5. f \notin trouble' => Untroubled(f)'
    BY <1>2, <1>4 DEF TokenInv, Untroubled, RoundsFit, FreshAccepted, FetchTypes0
  <1>6. \A s \in Scopes : issued[s] <= issued'[s]
    BY <1>1, TokenAssumption DEF TokenTypeOK
  <1> QED BY <1>2, <1>3, <1>5, <1>6, FetchStep DEF FreshAccepted

LEMMA SucceedKeeps ==
    ASSUME TokenInv, NEW f \in Fetches, Succeed(f)
    PROVE  TokenInv'
  BY GoesKeeps DEF Succeed, FetchSteps

\* A token that is refused was none at all.
LEMMA RefuseKeeps ==
    ASSUME TokenInv, NEW f \in Fetches, Refuse(f)
    PROVE  TokenInv'
  <1>1. TokenTypeOK /\ fetch \in [Fetches -> FetchTypes0]
    BY DEF TokenInv, TokenTypeOK, FetchTypes0
  <1>2. fetch' = [fetch EXCEPT ![f] = [fetch[f] EXCEPT
                     !.pc = "challenge", !.refused = @ \cup ({fetch[f].token} \cap Token)]]
    BY <1>1 DEF Refuse, FetchTypes0
  <1>3. TokenTypeOK'
    BY <1>1, <1>2 DEF Refuse, TokenTypeOK, FetchTypes0, FetchSteps
  <1>4. fetch'[f].pc = "challenge" /\ fetch'[f].attempt = fetch[f].attempt
    BY <1>1, <1>2 DEF FetchTypes0
  <1>5. f \notin trouble' => Untroubled(f)'
    <2> SUFFICES ASSUME f \notin trouble PROVE Untroubled(f)'
      BY DEF Refuse
    <2>1. Untroubled(f) /\ fetch[f].token[2] = 0
      BY DEF TokenInv, Untroubled, Refuse
    <2> QED BY <1>4, <2>1 DEF Untroubled, RoundsFit, FreshAccepted, Refuse
  <1>6. \A s \in Scopes : issued[s] <= issued'[s]
    BY <1>1, TokenAssumption DEF TokenTypeOK, Refuse
  <1> QED BY <1>1, <1>2, <1>3, <1>5, <1>6, FetchStep DEF FreshAccepted, Refuse

LEMMA RefuseAgainKeeps ==
    ASSUME TokenInv, NEW f \in Fetches, RefuseAgain(f)
    PROVE  TokenInv'
  <1>1. f \in trouble
    BY DEF TokenInv, Untroubled, RefuseAgain
  <1> QED BY <1>1, GoesKeeps DEF RefuseAgain, FetchSteps

\* With a fresh token the request goes out again; a chunk that has used up a token for
\* each round so far has a round left.
LEMMA UseTokenKeeps ==
    ASSUME TokenInv, NEW f \in Fetches, NEW t \in Scopes \X (1..MaxTokens),
           t[1] = ChallengeOf[f], aged[t[1]] < t[2], t[2] <= issued'[t[1]],
           fetch[f].pc \in {"challenge", "issue"},
           UseToken(f, t), aged' = aged, trouble' = trouble, accepted \subseteq accepted',
           FreshAccepted => FreshAccepted' /\ t \in accepted',
           issued' \in [Scopes -> 0..MaxTokens], accepted' \subseteq Token,
           \A s \in Scopes : issued[s] <= issued'[s]
    PROVE  TokenInv'
  <1>1. TokenTypeOK /\ fetch \in [Fetches -> FetchTypes0] /\ fetch[f] \in FetchTypes0
    BY DEF TokenInv, TokenTypeOK, FetchTypes0
  <1>2. \A s \in Scopes : aged'[s] <= issued'[s]
    BY <1>1, TokenAssumption DEF TokenTypeOK
  <1>3. CASE f \in ChunkFetches
    <2>1. Again(f)
      BY <1>3 DEF UseToken
    <2>2. fetch' \in [Fetches -> FetchTypes0] /\ \A g \in Fetches : g # f => fetch'[g] = fetch[g]
      BY <1>1, <2>1, AgainType
    <2>3. TokenTypeOK'
      BY <1>1, <1>2, <2>2 DEF TokenTypeOK, FetchTypes0
    <2>4. f \notin trouble' => Untroubled(f)'
      <3> SUFFICES ASSUME f \notin trouble, Told(f) PROVE Untroubled(f)'
        <4>1. fetch'[f].pc \in {"failed", "new"}
          BY <1>1, <2>1, AgainType DEF FetchTypes0
        <4> QED BY <4>1 DEF TokenInv, Untroubled
      <3>1. Untroubled(f) /\ RoundsFit(f) /\ fetch[f].attempt <= aged[ChallengeOf[f]]
        BY <1>3 DEF TokenInv, Untroubled, RoundsFit
      <3>2. /\ fetch[f].attempt \in Nat /\ aged[ChallengeOf[f]] \in Nat
            /\ issued'[ChallengeOf[f]] \in 0..MaxTokens
            /\ MaxTokens \in Nat /\ MaxTokens <= MaxChunkRetries /\ MaxChunkRetries \in Nat
        BY <1>1, FetchTypes DEF TokenTypeOK
      <3>3. fetch[f].attempt + 1 <= t[2] /\ t[2] <= MaxTokens
        BY <3>1, <3>2
      <3>4. ~GivesUpAt(f)
        BY <3>2, <3>3 DEF GivesUpAt
      <3>5. fetch'[f].pc = "new" /\ fetch'[f].attempt = fetch[f].attempt + 1
        BY <1>1, <2>1, <3>4, AgainType DEF FetchTypes0
      <3>6. RoundsFit(f)'
        BY <3>2, <3>3, <3>5 DEF RoundsFit
      <3> QED BY <3>1, <3>5, <3>6 DEF Untroubled
    <2> QED BY <2>2, <2>3, <2>4, FetchStep
  <1>4. CASE f \notin ChunkFetches
    <2>1. fetch' = [fetch EXCEPT ![f] = [fetch[f] EXCEPT !.pc = "resent", !.token = t]]
      BY <1>1, <1>4 DEF UseToken, FetchTypes0
    <2>0. t \in Scopes \X (0..MaxTokens)
      BY <1>1, FetchTypes
    <2>9. [fetch[f] EXCEPT !.pc = "resent", !.token = t] \in FetchTypes0
      BY <1>1, <2>0 DEF FetchTypes0, FetchSteps
    <2>2. TokenTypeOK'
      BY <1>1, <1>2, <2>1, <2>9 DEF TokenTypeOK, FetchTypes0
    <2>3. fetch'[f].pc = "resent" /\ fetch'[f].token = t
      BY <1>1, <2>1 DEF FetchTypes0
    <2>4. f \notin trouble' => Untroubled(f)'
      BY <2>3, <1>4, TokenAssumption DEF TokenInv, Untroubled
    <2> QED BY <1>1, <2>1, <2>2, <2>4, FetchStep
  <1> QED BY <1>3, <1>4

LEMMA ChallengedKeeps ==
    ASSUME TokenInv, NEW f \in Fetches, Challenged(f)
    PROVE  TokenInv'
  <1> DEFINE t == Lookup(ChallengeOf[f])
  <1>1. TokenTypeOK /\ ChallengeOf[f] \in Scopes
    BY FetchTypes DEF TokenInv
  <1>2. /\ t \in Scopes \X (0..MaxTokens) /\ t[1] = ChallengeOf[f]
        /\ t[2] # 0 => /\ aged[ChallengeOf[f]] < t[2] /\ t[2] = issued[ChallengeOf[f]]
                       /\ FreshAccepted => t \in accepted
    BY <1>1, LookupFits
  <1>3. fetch[f].pc = "challenge" /\ UNCHANGED <<issued, aged, accepted, trouble>>
        /\ IF t[2] # 0 THEN UseToken(f, t) ELSE To(f, "issue")
    BY DEF Challenged
  <1>4. /\ issued \in [Scopes -> 0..MaxTokens] /\ accepted \subseteq Token
        /\ \A s \in Scopes : issued[s] \in Nat
        /\ MaxTokens \in Nat
    BY <1>1, TokenAssumption DEF TokenTypeOK
  <1> HIDE DEF t
  <1>5. CASE t[2] # 0
    <2>1. t \in Scopes \X (1..MaxTokens)
      BY <1>2, <1>4, <1>5
    <2> QED BY <1>2, <1>3, <1>4, <1>5, <2>1, UseTokenKeeps DEF FreshAccepted
  <1>6. CASE t[2] = 0
    BY <1>3, <1>6, GoesKeeps DEF FetchSteps, TokenInv, Untroubled, RoundsFit
  <1> QED BY <1>5, <1>6

LEMMA IssueKeeps ==
    ASSUME TokenInv, NEW f \in Fetches, Issue(f)
    PROVE  TokenInv'
  <1> DEFINE s == ChallengeOf[f]
             t == <<s, issued[s] + 1>>
  <1>1. TokenTypeOK /\ s \in Scopes /\ MaxTokens \in Nat
    BY FetchTypes DEF TokenInv
  <1>2. /\ fetch[f].pc = "issue" /\ issued[s] < MaxTokens
        /\ issued' = [issued EXCEPT ![s] = @ + 1]
        /\ accepted' = accepted \cup {t} /\ UseToken(f, t) /\ UNCHANGED <<aged, trouble>>
    BY DEF Issue
  <1>3. /\ issued \in [Scopes -> 0..MaxTokens] /\ aged \in [Scopes -> 0..MaxTokens]
        /\ accepted \subseteq Token /\ \A z \in Scopes : aged[z] <= issued[z]
    BY <1>1 DEF TokenTypeOK
  <1>4. /\ t \in Scopes \X (1..MaxTokens) /\ t[1] = s /\ t[2] = issued[s] + 1
        /\ aged[s] < t[2] /\ issued'[s] = t[2]
        /\ issued' \in [Scopes -> 0..MaxTokens] /\ accepted' \subseteq Token
        /\ \A z \in Scopes : issued[z] <= issued'[z]
    BY <1>1, <1>2, <1>3 DEF Token
  <1>5. FreshAccepted => FreshAccepted' /\ t \in accepted'
    <2> SUFFICES ASSUME FreshAccepted, NEW z \in Scopes, NEW i \in 1..MaxTokens,
                        aged[z] < i, i <= issued'[z]
                 PROVE  <<z, i>> \in accepted'
      BY <1>2 DEF FreshAccepted
    <2>1. CASE i <= issued[z]
      BY <1>2, <2>1 DEF FreshAccepted
    <2>2. CASE ~(i <= issued[z])
      <3>1. z = s /\ i = issued[s] + 1
        BY <1>1, <1>2, <1>3, <2>2
      <3> QED BY <1>2, <3>1
    <2> QED BY <2>1, <2>2
  <1>6. aged[t[1]] < t[2] /\ t[2] <= issued'[t[1]]
    BY <1>1, <1>3, <1>4
  <1> HIDE DEF t
  <1> QED BY <1>2, <1>4, <1>5, <1>6, UseTokenKeeps

LEMMA IssueFailsKeeps ==
    ASSUME TokenInv, NEW f \in Fetches, IssueFails(f)
    PROVE  TokenInv'
  BY GoesKeeps DEF IssueFails, FetchSteps

\* Whatever a request in trouble does leaves the others as they are.
LEMMA TroubledKeeps ==
    ASSUME TokenInv, NEW f \in Fetches, UNCHANGED <<issued, aged, accepted>>,
           trouble' = trouble \cup {f}, Again(f) \/ To(f, "failed")
    PROVE  TokenInv'
  <1>1. TokenTypeOK
    BY DEF TokenInv
  <1>2. fetch' \in [Fetches -> FetchTypes0] /\ \A g \in Fetches : g # f => fetch'[g] = fetch[g]
    BY <1>1, AgainType, ToType DEF FetchSteps
  <1>3. TokenTypeOK'
    BY <1>1, <1>2 DEF TokenTypeOK, FetchTypes0
  <1>4. \A s \in Scopes : issued[s] <= issued'[s]
    BY <1>1, TokenAssumption DEF TokenTypeOK
  <1> QED BY <1>2, <1>3, <1>4, FetchStep DEF FreshAccepted

-----------------------------------------------------------------------------
(* Time, and the server.                                                   *)

LEMMA AgeKeeps ==
    ASSUME TokenInv, NEW s \in Scopes, Age(s)
    PROVE  TokenInv'
  <1>1. TokenTypeOK /\ MaxTokens \in Nat
    BY TokenAssumption DEF TokenInv
  <1>2. /\ aged[s] < issued[s] /\ aged' = [aged EXCEPT ![s] = @ + 1]
        /\ UNCHANGED <<issued, accepted, fetch, trouble>>
    BY DEF Age
  <1>3. TokenTypeOK' /\ \A z \in Scopes : aged[z] \in Nat /\ aged'[z] \in Nat /\ aged[z] <= aged'[z]
    BY <1>1, <1>2 DEF TokenTypeOK
  <1> SUFFICES ASSUME NEW f \in Fetches \ trouble PROVE Untroubled(f)'
    BY <1>2, <1>3 DEF TokenInv
  <1>4. Untroubled(f) /\ ChallengeOf[f] \in Scopes /\ fetch[f].attempt \in Nat
    BY <1>1, FetchTypes DEF TokenInv
  <1>5. FreshAccepted'
    BY <1>1, <1>2, <1>3, <1>4 DEF Untroubled, FreshAccepted, TokenTypeOK
  <1>6. RoundsFit(f) => RoundsFit(f)'
    BY <1>2, <1>3, <1>4 DEF RoundsFit
  <1> QED BY <1>2, <1>4, <1>5, <1>6 DEF Untroubled

LEMMA ExpireKeeps ==
    ASSUME TokenInv, Expire
    PROVE  TokenInv'
  <1>1. TokenTypeOK /\ MaxTokens \in Nat
    BY TokenAssumption DEF TokenInv
  <1>2. PICK t \in accepted :
          /\ t[2] <= aged[t[1]]
          /\ \A f \in Fetches : fetch[f].pc \in {"sent", "resent"} => fetch[f].token # t
          /\ accepted' = accepted \ {t}
    BY DEF Expire
  <1>3. UNCHANGED <<issued, aged, fetch, trouble>>
    BY DEF Expire
  <1>4. TokenTypeOK'
    BY <1>1, <1>2, <1>3 DEF TokenTypeOK
  <1>5. FreshAccepted => FreshAccepted'
    <2> SUFFICES ASSUME NEW s \in Scopes, NEW i \in 1..MaxTokens, aged[s] < i, <<s, i>> = t
                 PROVE  FALSE
      BY <1>2, <1>3 DEF FreshAccepted
    <2>1. aged[s] \in Nat
      BY <1>1 DEF TokenTypeOK
    <2> QED BY <1>1, <1>2, <2>1
  <1> QED BY <1>2, <1>3, <1>4, <1>5 DEF TokenInv, Untroubled, RoundsFit

LEMMA TokenStepsKeep == TokenInv /\ [TokenNext]_tokenVars => TokenInv'
  <1> SUFFICES ASSUME TokenInv, [TokenNext]_tokenVars PROVE TokenInv'
    OBVIOUS
  <1>1. CASE UNCHANGED tokenVars
    BY <1>1 DEF tokenVars, TokenInv, TokenTypeOK, Untroubled, FreshAccepted, RoundsFit
  <1>2. ASSUME NEW f \in Fetches, FetchNext(f) PROVE TokenInv'
    BY <1>2, SendKeeps, SucceedKeeps, RefuseKeeps, RefuseAgainKeeps, ChallengedKeeps,
       IssueKeeps, IssueFailsKeeps, TroubledKeeps DEF FetchNext, BadStatus, NoAnswer
  <1>3. ASSUME Revoke PROVE TokenInv'
    <2>1. trouble' = Fetches /\ accepted' \subseteq accepted /\ UNCHANGED <<issued, aged, fetch>>
      BY <1>3 DEF Revoke
    <2> QED BY <2>1 DEF TokenInv, TokenTypeOK
  <1> QED BY <1>1, <1>2, <1>3, AgeKeeps, ExpireKeeps DEF TokenNext

-----------------------------------------------------------------------------
(* The API client.  A row's tag is the version of its body, but for what a *)
(* proxy garbled; a body a request got was the server's meanwhile.         *)

\* A row of a document the server versions.
Versioned(row) ==
    \/ row = NoRow
    \/ row.body \in 1..MaxVersion /\ row.tag = row.body
    \/ row.body = Garbled /\ row.tag \in {NoTag, DateOnly}

RequestFits(c) ==
    LET r == request[c] IN
    /\ r.at # "idle" => r.name # Index
    /\ r.url = Index /\ r.at # "idle" => r.name \in FormulaNames
    /\ r.url = RubyFile => r.name = RubyFile
    /\ r.at = "sent" => world[r.url] \in r.during
    /\ r.at = "sent" /\ r.url # RubyFile => Versioned(r.seen)
    /\ r.at = "body" => Versioned(r.got) /\ r.got # NoRow
    /\ r.at = "body" /\ r.got.body # Garbled => r.got.body \in r.during

ApiInv ==
    /\ ApiTypeOK
    /\ \A u \in Urls \ {RubyFile} : Versioned(apiCache[u])
    /\ \A c \in Clients : RequestFits(c)

RequestTypes == [at : {"idle", "get", "sent", "body"}, name : Urls,
                 url : Urls, seen : Row, got : Row,
                 wanted : 0..MaxVersion, during : SUBSET (0..MaxVersion)]

OutcomeTypes == [kind : Outcomes, body : Body]

LEMMA ApiTypes ==
    ASSUME ApiTypeOK
    PROVE  /\ world \in [Urls -> 0..MaxVersion] /\ apiCache \in [Urls -> Row]
           /\ indexOf \in [Clients -> BOOLEAN]
           /\ request \in [Clients -> RequestTypes]
           /\ outcome \in [Clients -> OutcomeTypes]
  BY DEF ApiTypeOK, RequestTypes, OutcomeTypes

LEMMA ApiNumbers ==
    /\ MaxVersion \in Nat \ {0} /\ Garbled = MaxVersion + 1 /\ DateOnly = MaxVersion + 1
    /\ NoTag = MaxVersion + 2 /\ NoRow \in Row /\ NoRow.body = 0 /\ NoRow.tag = NoTag
    /\ Body = 0..(MaxVersion + 1) /\ Tag = 1..(MaxVersion + 2)
  BY ApiAssumption DEF Garbled, DateOnly, NoTag, NoRow, Row, Body, Tag

LEMMA ApiNames ==
    /\ Index \in Urls /\ RubyFile \in Urls /\ FormulaNames \subseteq Urls
    /\ Index \notin FormulaNames /\ RubyFile \notin FormulaNames /\ Index # RubyFile
    /\ \A u \in Urls : u \in FormulaNames \/ u = Index \/ u = RubyFile
    /\ CanonicalOf \in [FormulaNames -> FormulaNames]
  BY ApiAssumption DEF Urls

LEMMA NoRequestFits ==
    /\ NoRequest \in RequestTypes /\ NoRequest.at = "idle" /\ NoRequest.url = Index
    /\ NoRequest.seen = NoRow /\ NoRequest.got = NoRow
  BY ApiNumbers, ApiNames DEF NoRequest, RequestTypes

LEMMA ApiStarts == ApiInit => ApiInv
  <1> SUFFICES ASSUME ApiInit PROVE ApiInv
    OBVIOUS
  <1>1. Start \in [Urls -> 0..MaxVersion]
    BY ApiAssumption
  <1>2. ApiTypeOK
    BY <1>1, NoRequestFits, ApiNumbers DEF ApiInit, ApiTypeOK, RequestTypes, Outcomes
  <1> QED BY <1>2, NoRequestFits, ApiNames DEF ApiInit, ApiInv, Versioned, RequestFits

\* A step of client c, in which the server's documents stay.
LEMMA ClientStep ==
    ASSUME ApiInv, NEW c \in Clients, NEW r \in RequestTypes, NEW o \in OutcomeTypes,
           request' = [request EXCEPT ![c] = r],
           outcome' = outcome \/ outcome' = [outcome EXCEPT ![c] = o],
           world' = world, indexOf' \in [Clients -> BOOLEAN],
           apiCache' = apiCache \/ (\E u \in Urls, row \in Row :
               /\ apiCache' = [apiCache EXCEPT ![u] = row]
               /\ u # RubyFile => Versioned(row)),
           RequestFits(c)'
    PROVE  ApiInv'
  <1>1. ApiTypeOK'
    <2>1. request' \in [Clients -> RequestTypes] /\ outcome' \in [Clients -> OutcomeTypes]
      BY ApiTypes DEF ApiInv
    <2>2. apiCache' \in [Urls -> Row] /\ world' \in [Urls -> 0..MaxVersion]
      BY ApiTypes DEF ApiInv
    <2> QED BY <2>1, <2>2 DEF ApiTypeOK, RequestTypes, OutcomeTypes
  <1>2. \A d \in Clients : d # c => request'[d] = request[d]
    BY ApiTypes DEF ApiInv
  <1>3. \A d \in Clients : RequestFits(d)'
    BY <1>2 DEF ApiInv, RequestFits, Versioned
  <1>4. \A u \in Urls \ {RubyFile} : Versioned(apiCache'[u])
    BY ApiTypes DEF ApiInv
  <1> QED BY <1>1, <1>3, <1>4 DEF ApiInv, Versioned

\* A call that ends.
LEMMA EndKeepsApi ==
    ASSUME ApiInv, NEW c \in Clients, NEW kind \in Outcomes, NEW body \in Body,
           End(c, kind, body),
           world' = world, indexOf' \in [Clients -> BOOLEAN],
           apiCache' = apiCache \/ (\E u \in Urls, row \in Row :
               /\ apiCache' = [apiCache EXCEPT ![u] = row]
               /\ u # RubyFile => Versioned(row))
    PROVE  ApiInv'
  <1>1. request' = [request EXCEPT ![c] = NoRequest]
        /\ outcome' = [outcome EXCEPT ![c] = [kind |-> kind, body |-> body]]
    BY DEF End
  <1>2. [kind |-> kind, body |-> body] \in OutcomeTypes
    BY DEF OutcomeTypes
  <1>3. request'[c] = NoRequest
    BY <1>1, ApiTypes DEF ApiInv
  <1>4. RequestFits(c)'
    BY <1>3, NoRequestFits, ApiNames DEF RequestFits
  <1> QED BY <1>1, <1>2, <1>4, NoRequestFits, ClientStep

\* A call that starts, or goes on with another document.
LEMMA AsksKeeps ==
    ASSUME ApiInv, NEW c \in Clients, NEW r \in RequestTypes, NEW o \in OutcomeTypes,
           r.at = "get", r.name # Index, r.url = Index => r.name \in FormulaNames,
           r.url = RubyFile => r.name = RubyFile,
           request' = [request EXCEPT ![c] = r],
           outcome' = outcome \/ outcome' = [outcome EXCEPT ![c] = o],
           world' = world, indexOf' \in [Clients -> BOOLEAN],
           apiCache' = apiCache \/ (\E u \in Urls, row \in Row :
               /\ apiCache' = [apiCache EXCEPT ![u] = row]
               /\ u # RubyFile => Versioned(row))
    PROVE  ApiInv'
  <1>1. request'[c] = r
    BY ApiTypes DEF ApiInv
  <1>2. RequestFits(c)'
    BY <1>1 DEF RequestFits
  <1> QED BY <1>2, ClientStep

LEMMA NothingYet == [kind |-> "none", body |-> 0] \in OutcomeTypes
  BY ApiNumbers DEF OutcomeTypes, Outcomes

Asking(name, u) == [NoRequest EXCEPT !.at = "get", !.name = name, !.url = u]
AskingFor(name, u, v) == [NoRequest EXCEPT !.at = "get", !.name = name, !.url = u, !.wanted = v]

LEMMA AskTypes ==
    ASSUME NEW u \in Urls, NEW name \in Urls
    PROVE  /\ Asking(name, u) \in RequestTypes /\ Asking(name, u).at = "get"
           /\ Asking(name, u).name = name /\ Asking(name, u).url = u
  BY NoRequestFits DEF RequestTypes, Asking

LEMMA AskForTypes ==
    ASSUME NEW u \in Urls, NEW name \in Urls, NEW v \in 0..MaxVersion
    PROVE  /\ AskingFor(name, u, v) \in RequestTypes /\ AskingFor(name, u, v).at = "get"
           /\ AskingFor(name, u, v).name = name /\ AskingFor(name, u, v).url = u
  BY NoRequestFits DEF RequestTypes, AskingFor

LEMMA GetFormulaKeeps ==
    ASSUME ApiInv, NEW c \in Clients, NEW name \in FormulaNames, GetFormula(c, name)
    PROVE  ApiInv'
  <1>1. name \in Urls /\ name # Index /\ name # RubyFile
    BY ApiNames
  <1>2. indexOf' \in [Clients -> BOOLEAN] /\ UNCHANGED <<world, apiCache>>
    BY ApiTypes DEF ApiInv, GetFormula
  <1>3. request' = [request EXCEPT ![c] = Asking(name, name)]
        /\ outcome' = [outcome EXCEPT ![c] = [kind |-> "none", body |-> 0]]
    BY DEF GetFormula, Asking
  <1> QED BY <1>1, <1>2, <1>3, AskTypes, NothingYet, AsksKeeps

LEMMA GetRubyFileKeeps ==
    ASSUME ApiInv, NEW c \in Clients, NEW v \in 0..MaxVersion, GetRubyFile(c, v)
    PROVE  ApiInv'
  <1> DEFINE r == AskingFor(RubyFile, RubyFile, v)
  <1>1. indexOf' \in [Clients -> BOOLEAN] /\ UNCHANGED <<world, apiCache>>
    BY ApiTypes DEF ApiInv, GetRubyFile
  <1>2. request' = [request EXCEPT ![c] = r]
        /\ outcome' = [outcome EXCEPT ![c] = [kind |-> "none", body |-> 0]]
    BY DEF GetRubyFile, AskingFor
  <1>3. r \in RequestTypes /\ r.at = "get" /\ r.name = RubyFile /\ r.url = RubyFile
    BY ApiNames, AskForTypes
  <1> HIDE DEF r
  <1> QED BY <1>1, <1>2, <1>3, ApiNames, NothingYet, AsksKeeps

LEMMA ResolveAliasKeeps ==
    ASSUME ApiInv, NEW c \in Clients, request[c].name \in FormulaNames, ResolveAlias(c),
           world' = world, indexOf' \in [Clients -> BOOLEAN],
           apiCache' = apiCache \/ (\E u \in Urls, row \in Row :
               /\ apiCache' = [apiCache EXCEPT ![u] = row]
               /\ u # RubyFile => Versioned(row))
    PROVE  ApiInv'
  <1> DEFINE name == request[c].name
  <1>1. CASE CanonicalOf[name] # name
    <2> DEFINE r == Asking(name, CanonicalOf[name])
    <2>1. CanonicalOf[name] \in FormulaNames /\ CanonicalOf[name] \in Urls /\ name \in Urls
          /\ name # Index /\ CanonicalOf[name] # RubyFile
          /\ CanonicalOf[name] # Index
      BY ApiNames
    <2>2. r \in RequestTypes /\ r.at = "get" /\ r.name = name /\ r.url = CanonicalOf[name]
      BY <2>1, AskTypes
    <2>3. request' = [request EXCEPT ![c] = r] /\ outcome' = outcome
      BY <1>1 DEF ResolveAlias, Asking
    <2> HIDE DEF r
    <2> QED BY <2>1, <2>2, <2>3, NothingYet, AsksKeeps
  <1>2. CASE CanonicalOf[name] = name
    <2>1. End(c, "missing", 0)
      BY <1>2 DEF ResolveAlias
    <2> QED BY <2>1, EndKeepsApi, ApiNumbers DEF Outcomes
  <1> QED BY <1>1, <1>2

LEMMA ParseKeeps ==
    ASSUME ApiInv, NEW c \in Clients, NEW body \in Body, request[c].at # "idle", Parse(c, body),
           world' = world, LoadIndex(c, body),
           apiCache' = apiCache \/ (\E u \in Urls, row \in Row :
               /\ apiCache' = [apiCache EXCEPT ![u] = row]
               /\ u # RubyFile => Versioned(row))
    PROVE  ApiInv'
  <1>1. indexOf' \in [Clients -> BOOLEAN]
    BY ApiTypes DEF ApiInv, LoadIndex
  <1>2. CASE request[c].url = Index /\ body # Garbled
    <2>1. request[c].name \in FormulaNames
      BY <1>2 DEF ApiInv, RequestFits
    <2> QED BY <1>1, <1>2, <2>1, ResolveAliasKeeps DEF Parse
  <1>3. CASE request[c].url # Index \/ body = Garbled
    <2>1. \E kind \in Outcomes, b \in Body : End(c, kind, b)
      BY <1>3, ApiNumbers DEF Parse, Outcomes
    <2> QED BY <1>1, <2>1, EndKeepsApi
  <1> QED BY <1>2, <1>3

LEMMA GetKeeps ==
    ASSUME ApiInv, NEW c \in Clients, Get(c)
    PROVE  ApiInv'
  <1> DEFINE row == apiCache[request[c].url]
  <1>1. /\ request[c] \in RequestTypes /\ request[c].url \in Urls /\ row \in Row
        /\ world[request[c].url] \in 0..MaxVersion
        /\ indexOf' \in [Clients -> BOOLEAN] /\ UNCHANGED <<world, apiCache>>
    BY ApiTypes DEF ApiInv, RequestTypes, Get
  <1>2. CASE request[c].url = RubyFile /\ row # NoRow
    <2>1. \E kind \in Outcomes : End(c, kind, row.body)
      BY <1>2 DEF Get, Outcomes
    <2>2. row.body \in Body
      BY <1>1 DEF Row
    <2> QED BY <1>1, <2>1, <2>2, EndKeepsApi
  <1>3. CASE ~(request[c].url = RubyFile /\ row # NoRow)
    <2> DEFINE r == [request[c] EXCEPT !.at = "sent", !.seen = row,
                                       !.during = {world[request[c].url]}]
    <2>1. request' = [request EXCEPT ![c] = r] /\ outcome' = outcome
      BY <1>1, <1>3 DEF Get, RequestTypes
    <2>2. /\ r \in RequestTypes /\ r.at = "sent" /\ r.url = request[c].url
          /\ r.name = request[c].name /\ r.seen = row /\ r.during = {world[r.url]}
      BY <1>1 DEF RequestTypes
    <2> HIDE DEF r
    <2>3. request'[c] = r /\ request[c].at = "get"
      BY <2>1, ApiTypes DEF ApiInv, Get
    <2>4. r.url # RubyFile => Versioned(row)
      BY <1>1, <2>2 DEF ApiInv
    <2>5. RequestFits(c)'
      BY <1>1, <2>2, <2>3, <2>4 DEF RequestFits, ApiInv, Versioned
    <2> QED BY <1>1, <2>1, <2>2, <2>5, NothingYet, ClientStep
  <1> QED BY <1>2, <1>3

LEMMA AnswerNotModifiedKeeps ==
    ASSUME ApiInv, NEW c \in Clients, AnswerNotModified(c)
    PROVE  ApiInv'
  <1>1. request[c].seen.body \in Body
    BY ApiTypes DEF ApiInv, RequestTypes, Row
  <1> QED BY <1>1, ParseKeeps DEF AnswerNotModified

\* The head of an answer with a body.
LEMMA HeadKeeps ==
    ASSUME ApiInv, NEW c \in Clients, NEW row \in Row, request[c].at = "sent",
           request' = [request EXCEPT ![c].at = "body", ![c].seen = NoRow, ![c].got = row],
           UNCHANGED <<world, apiCache, indexOf, outcome>>,
           Versioned(row), row # NoRow,
           row.body # Garbled => row.body = world[request[c].url]
    PROVE  ApiInv'
  <1> DEFINE r == [request[c] EXCEPT !.at = "body", !.seen = NoRow, !.got = row]
  <1>1. request[c] \in RequestTypes /\ indexOf' \in [Clients -> BOOLEAN]
    BY ApiTypes DEF ApiInv
  <1>2. request' = [request EXCEPT ![c] = r]
    BY <1>1, ApiTypes DEF RequestTypes, ApiInv
  <1>3. /\ r \in RequestTypes /\ r.at = "body" /\ r.url = request[c].url
        /\ r.name = request[c].name /\ r.got = row /\ r.during = request[c].during
    BY <1>1, ApiNumbers DEF RequestTypes
  <1> HIDE DEF r
  <1>4. request'[c] = r
    BY <1>2, ApiTypes DEF ApiInv
  <1>5. RequestFits(c)'
    BY <1>3, <1>4 DEF RequestFits, ApiInv, Versioned
  <1> QED BY <1>1, <1>2, <1>3, <1>5, NothingYet, ClientStep

LEMMA AnswerBodyKeeps ==
    ASSUME ApiInv, NEW c \in Clients, AnswerBody(c)
    PROVE  ApiInv'
  <1> DEFINE v   == world[request[c].url]
             row == [body |-> v, tag |-> v]
  <1>1. v \in 1..MaxVersion
    BY ApiTypes, ApiNumbers DEF ApiInv, RequestTypes, AnswerBody
  <1>2. row \in Row /\ row.body = v /\ row.tag = v /\ row # NoRow
    BY <1>1, ApiNumbers DEF Row
  <1>3. Versioned(row)
    BY <1>1, <1>2 DEF Versioned
  <1>4. request' = [request EXCEPT ![c].at = "body", ![c].seen = NoRow, ![c].got = row]
        /\ request[c].at = "sent" /\ UNCHANGED <<world, apiCache, indexOf, outcome>>
    BY DEF AnswerBody
  <1> HIDE DEF row
  <1> QED BY <1>2, <1>3, <1>4, HeadKeeps

LEMMA AnswerGarbledKeeps ==
    ASSUME ApiInv, NEW c \in Clients, AnswerGarbled(c)
    PROVE  ApiInv'
  <1>1. PICK t \in {NoTag, DateOnly} :
          request' = [request EXCEPT ![c].at = "body", ![c].seen = NoRow,
                                     ![c].got = [body |-> Garbled, tag |-> t]]
    BY DEF AnswerGarbled
  <1> DEFINE row == [body |-> Garbled, tag |-> t]
  <1>2. row \in Row /\ row.body = Garbled /\ row.tag = t /\ row # NoRow
    BY <1>1, ApiNumbers DEF Row
  <1>3. Versioned(row)
    BY <1>2 DEF Versioned
  <1>4. request[c].at = "sent" /\ UNCHANGED <<world, apiCache, indexOf, outcome>>
    BY DEF AnswerGarbled
  <1>5. request' = [request EXCEPT ![c].at = "body", ![c].seen = NoRow, ![c].got = row]
    BY <1>1
  <1> HIDE DEF row
  <1> QED BY <1>2, <1>3, <1>4, <1>5, HeadKeeps

LEMMA AnswerMissingKeeps ==
    ASSUME ApiInv, NEW c \in Clients, AnswerMissing(c)
    PROVE  ApiInv'
  <1> DEFINE u == request[c].url
             r == Asking(u, Index)
  <1>1. /\ indexOf' \in [Clients -> BOOLEAN] /\ u \in Urls /\ request[c].at = "sent"
        /\ UNCHANGED <<world, apiCache>>
    BY ApiTypes DEF ApiInv, RequestTypes, AnswerMissing
  <1>2. CASE u # request[c].name \/ u = RubyFile
    <2>1. \E kind \in Outcomes : End(c, kind, 0)
      BY <1>2 DEF AnswerMissing, Outcomes
    <2> QED BY <1>1, <2>1, EndKeepsApi, ApiNumbers
  <1>3. CASE u = request[c].name /\ u # RubyFile
    <2>1. u \in FormulaNames
      BY <1>1, <1>3, ApiNames DEF ApiInv, RequestFits
    <2>2. CASE indexOf[c]
      <3>1. ResolveAlias(c)
        BY <1>3, <2>2 DEF AnswerMissing
      <3> QED BY <1>1, <1>3, <2>1, <3>1, ResolveAliasKeeps
    <2>3. CASE ~indexOf[c]
      <3>1. request' = [request EXCEPT ![c] = r] /\ outcome' = outcome
        BY <1>3, <2>3 DEF AnswerMissing, Asking
      <3>2. r \in RequestTypes /\ r.at = "get" /\ r.name = u /\ r.url = Index
        BY <2>1, ApiNames, AskTypes
      <3> HIDE DEF r
      <3> QED BY <1>1, <2>1, <3>1, <3>2, ApiNames, NothingYet, AsksKeeps
    <2> QED BY <2>2, <2>3
  <1> QED BY <1>2, <1>3

LEMMA AnswerErrorKeeps ==
    ASSUME ApiInv, NEW c \in Clients, AnswerError(c)
    PROVE  ApiInv'
  <1>1. \E kind \in Outcomes : End(c, kind, 0)
    BY DEF AnswerError, Outcomes
  <1>2. indexOf' \in [Clients -> BOOLEAN]
    BY ApiTypes DEF ApiInv, AnswerError
  <1> QED BY <1>1, <1>2, EndKeepsApi, ApiNumbers DEF AnswerError

LEMMA StoreBodyKeeps ==
    ASSUME ApiInv, NEW c \in Clients, StoreBody(c)
    PROVE  ApiInv'
  <1>1. request[c].url \in Urls /\ request[c].got \in Row /\ request[c].got.body \in Body
    BY ApiTypes DEF ApiInv, RequestTypes, Row
  <1>2. Versioned(request[c].got)
    BY DEF ApiInv, RequestFits, StoreBody
  <1>3. apiCache' = apiCache \/ (\E u \in Urls, row \in Row :
               /\ apiCache' = [apiCache EXCEPT ![u] = row]
               /\ u # RubyFile => Versioned(row))
    BY <1>1, <1>2 DEF StoreBody, Put
  <1> QED BY <1>1, <1>3, ParseKeeps DEF StoreBody

LEMMA StoreRubyKeeps ==
    ASSUME ApiInv, NEW c \in Clients, StoreRuby(c)
    PROVE  ApiInv'
  <1> DEFINE row == [request[c].got EXCEPT !.tag = NoTag]
  <1>1. request[c].got \in Row /\ request[c].got.body \in Body /\ row \in Row
        /\ indexOf' \in [Clients -> BOOLEAN]
    BY ApiTypes, ApiNumbers DEF ApiInv, RequestTypes, Row, StoreRuby
  <1>2. apiCache' = apiCache \/ apiCache' = [apiCache EXCEPT ![RubyFile] = row]
    BY DEF StoreRuby, Put
  <1>3. \E kind \in Outcomes : End(c, kind, request[c].got.body)
    BY DEF StoreRuby, Outcomes
  <1> HIDE DEF row
  <1> QED BY <1>1, <1>2, <1>3, ApiNames, EndKeepsApi DEF StoreRuby

LEMMA ClearCacheKeeps ==
    ASSUME ApiInv, NEW c \in Clients, ClearCache(c)
    PROVE  ApiInv'
  <1>1. ApiTypeOK'
    BY ApiTypes, ApiNumbers DEF ApiInv, ClearCache, ApiTypeOK, RequestTypes, OutcomeTypes
  <1> QED BY <1>1 DEF ApiInv, ClearCache, Versioned, RequestFits

LEMMA PublishKeeps ==
    ASSUME ApiInv, NEW u \in Published, Publish(u)
    PROVE  ApiInv'
  <1>1. u \in Urls /\ world \in [Urls -> 0..MaxVersion] /\ world[u] + 1 \in 0..MaxVersion
        /\ world' = [world EXCEPT ![u] = @ + 1]
    BY ApiTypes, ApiAssumption, ApiNumbers DEF ApiInv, Publish
  <1>2. world' \in [Urls -> 0..MaxVersion] /\ world'[u] = world[u] + 1
        /\ \A w \in Urls : w # u => world'[w] = world[w]
    BY <1>1
  <1>3. request \in [Clients -> RequestTypes]
    BY ApiTypes DEF ApiInv
  <1>4. ASSUME NEW c \in Clients
        PROVE  /\ request'[c] \in RequestTypes /\ request'[c].at = request[c].at
               /\ request'[c].url = request[c].url /\ request'[c].name = request[c].name
               /\ request'[c].seen = request[c].seen /\ request'[c].got = request[c].got
               /\ request[c].during \subseteq request'[c].during
               /\ request[c].at = "sent" /\ request[c].url = u => world[u] + 1 \in request'[c].during
    <2>1. CASE request[c].at \in {"sent", "body"} /\ request[c].url = u
      <3>1. request'[c] = [request[c] EXCEPT !.during = @ \cup {world[u] + 1}]
        BY <2>1 DEF Publish
      <3> QED BY <1>1, <1>3, <3>1 DEF RequestTypes
    <2>2. CASE ~(request[c].at \in {"sent", "body"} /\ request[c].url = u)
      <3>1. request'[c] = request[c]
        BY <2>2 DEF Publish
      <3> QED BY <1>3, <2>2, <3>1
    <2> QED BY <2>1, <2>2
  <1>5. request' \in [Clients -> RequestTypes]
    <2>1. request' = [c \in Clients |-> request'[c]]
      BY DEF Publish
    <2> QED BY <1>4, <2>1
  <1>6. ApiTypeOK'
    BY <1>2, <1>5 DEF ApiInv, Publish, ApiTypeOK, RequestTypes
  <1>7. \A c \in Clients : RequestFits(c)'
    <2> TAKE c \in Clients
    <2>1. request[c].url \in Urls /\ RequestFits(c)
      BY <1>3 DEF RequestTypes, ApiInv
    <2> QED BY <1>2, <1>4, <2>1 DEF RequestFits, Versioned
  <1> QED BY <1>6, <1>7 DEF ApiInv, Publish, Versioned

LEMMA ApiStepsKeep == ApiInv /\ [ApiNext]_apiVars => ApiInv'
  <1> SUFFICES ASSUME ApiInv, [ApiNext]_apiVars PROVE ApiInv'
    OBVIOUS
  <1>1. CASE UNCHANGED apiVars
    BY <1>1 DEF apiVars, ApiInv, ApiTypeOK, RequestFits, Versioned
  <1>2. ASSUME NEW c \in Clients, NEW name \in FormulaNames, GetFormula(c, name) PROVE ApiInv'
    BY <1>2, GetFormulaKeeps
  <1>3. ASSUME NEW c \in Clients, NEW v \in 0..world[RubyFile], GetRubyFile(c, v) PROVE ApiInv'
    <2>1. v \in 0..MaxVersion
      BY ApiTypes, ApiNames, ApiNumbers DEF ApiInv
    <2> QED BY <1>3, <2>1, GetRubyFileKeeps
  <1>4. ASSUME NEW c \in Clients, ApiStep(c) PROVE ApiInv'
    BY <1>4, GetKeeps, AnswerNotModifiedKeeps, AnswerBodyKeeps, AnswerGarbledKeeps,
       AnswerMissingKeeps, AnswerErrorKeeps, StoreBodyKeeps, StoreRubyKeeps DEF ApiStep
  <1> QED BY <1>1, <1>2, <1>3, <1>4, ClearCacheKeeps, PublishKeeps DEF ApiNext

-----------------------------------------------------------------------------
(* What the steps of a call return and store.                              *)

\* A call that ends with a formula or with something else it took from a body.
LEMMA ParseEnds ==
    ASSUME ApiInv, NEW c \in Clients, NEW body \in Body, Parse(c, body),
           request[c].at # "idle", request'[c].at = "idle"
    PROVE  /\ outcome'[c].kind = "formula" => outcome'[c].body = body /\ body # Garbled
           /\ outcome'[c].kind = "unparsable" => body = Garbled
  <1>0. outcome \in [Clients -> OutcomeTypes] /\ request \in [Clients -> RequestTypes]
    BY ApiTypes DEF ApiInv
  <1>1. \A kind, b : End(c, kind, b) => outcome'[c].kind = kind /\ outcome'[c].body = b
    BY <1>0 DEF End
  <1>2. CASE request[c].url = Index
    <2>1. ResolveAlias(c) => CanonicalOf[request[c].name] = request[c].name
      <3> SUFFICES ASSUME ResolveAlias(c), CanonicalOf[request[c].name] # request[c].name
                   PROVE  FALSE
        OBVIOUS
      <3>1. request' = [request EXCEPT ![c] = Asking(request[c].name, CanonicalOf[request[c].name])]
        BY DEF ResolveAlias, Asking
      <3>2. request'[c].at = "get"
        BY <1>0, <3>1 DEF Asking, NoRequest
      <3> QED BY <3>2
    <2>2. End(c, "missing", 0)
      BY <1>2, <2>1 DEF Parse, ResolveAlias
    <2> QED BY <1>1, <2>2
  <1>3. CASE request[c].url # Index
    <2>1. End(c, IF body = Garbled THEN "unparsable" ELSE "formula", body)
      BY <1>3 DEF Parse
    <2> QED BY <1>1, <2>1
  <1> QED BY <1>2, <1>3

LEMMA AnswersHold ==
    ASSUME ApiInv, NEW c \in Clients, ApiStep(c),
           request[c].at # "idle", request'[c].at = "idle"
    PROVE  /\ outcome'[c].kind = "formula" => outcome'[c].body \in request[c].during
           /\ outcome'[c].kind = "unparsable" =>
                 request[c].got.body = Garbled \/ request[c].seen.tag = DateOnly
  <1>0. /\ outcome \in [Clients -> OutcomeTypes] /\ request \in [Clients -> RequestTypes]
        /\ request[c] \in RequestTypes /\ RequestFits(c)
        /\ request[c].seen \in Row /\ request[c].got \in Row
        /\ request[c].url \in Urls /\ world[request[c].url] \in 0..MaxVersion
    BY ApiTypes DEF ApiInv, RequestTypes
  <1>1. \A kind, b : End(c, kind, b) => outcome'[c].kind = kind
    BY <1>0 DEF End
  <1>2. CASE Get(c)
    <2>1. \E b : End(c, "file", b) \/ End(c, "checksum", b)
      <3>1. request'[c].at # "sent"
        OBVIOUS
      <3>2. request' = [request EXCEPT ![c].at = "sent",
                                       ![c].seen = apiCache[request[c].url],
                                       ![c].during = {world[request[c].url]}]
               => request'[c].at = "sent"
        BY <1>0 DEF RequestTypes
      <3> QED BY <1>2, <3>1, <3>2 DEF Get
    <2> QED BY <1>1, <2>1
  <1>3. CASE AnswerNotModified(c)
    <2>1. /\ request[c].at = "sent" /\ request[c].url # RubyFile /\ request[c].seen # NoRow
          /\ request[c].seen.tag \in {world[request[c].url], DateOnly}
          /\ Parse(c, request[c].seen.body)
      BY <1>3 DEF AnswerNotModified, NotModified
    <2>2. /\ outcome'[c].kind = "formula" =>
                outcome'[c].body = request[c].seen.body /\ request[c].seen.body # Garbled
          /\ outcome'[c].kind = "unparsable" => request[c].seen.body = Garbled
      <3>1. request[c].seen.body \in Body
        BY <1>0 DEF Row
      <3> QED BY <2>1, <3>1, ParseEnds
    <2>3. Versioned(request[c].seen) /\ world[request[c].url] \in request[c].during
      BY <1>0, <2>1 DEF RequestFits
    <2> QED BY <1>0, <2>1, <2>2, <2>3, ApiNumbers DEF Versioned
  <1>4. CASE AnswerBody(c) \/ AnswerGarbled(c)
    <2>1. request'[c].at = "body"
      BY <1>0, <1>4 DEF AnswerBody, AnswerGarbled, RequestTypes
    <2> QED BY <2>1
  <1>5. CASE AnswerMissing(c)
    <2>1. ResolveAlias(c) => \/ End(c, "missing", 0)
                             \/ request' = [request EXCEPT ![c] =
                                   Asking(request[c].name, CanonicalOf[request[c].name])]
      BY DEF ResolveAlias, Asking
    <2>2. \A r : request' = [request EXCEPT ![c] = r] => request'[c] = r
      BY <1>0
    <2>3. \A name, u : Asking(name, u).at = "get"
      BY DEF Asking, NoRequest
    <2>4. \/ End(c, "missing", 0) \/ End(c, "error", 0)
          \/ ResolveAlias(c)
          \/ request' = [request EXCEPT ![c] = Asking(request[c].url, Index)]
      BY <1>5 DEF AnswerMissing, Asking
    <2> QED BY <1>1, <2>1, <2>2, <2>3, <2>4
  <1>6. CASE AnswerError(c)
    BY <1>1, <1>6 DEF AnswerError
  <1>7. CASE StoreBody(c)
    <2>1. request[c].got.body \in Body /\ Parse(c, request[c].got.body) /\ request[c].at = "body"
      BY <1>0, <1>7 DEF StoreBody, Row
    <2> QED BY <1>0, <2>1, ParseEnds DEF RequestFits
  <1>8. CASE StoreRuby(c)
    BY <1>1, <1>8 DEF StoreRuby
  <1> QED BY <1>2, <1>3, <1>4, <1>5, <1>6, <1>7, <1>8 DEF ApiStep

\* What a step of c does to the other requests, and to the ruby file's row.
LEMMA OthersKeepAsking ==
    ASSUME ApiInv, NEW c \in Clients, ApiStep(c), NEW d \in Clients, d # c
    PROVE  request'[d] = request[d]
  <1>1. request \in [Clients -> RequestTypes]
    BY ApiTypes DEF ApiInv
  <1>2. \A kind, b : End(c, kind, b) => request'[d] = request[d]
    BY <1>1 DEF End
  <1>3. ResolveAlias(c) => request'[d] = request[d]
    BY <1>1, <1>2 DEF ResolveAlias
  <1>4. \A b : Parse(c, b) => request'[d] = request[d]
    BY <1>2, <1>3 DEF Parse
  <1> QED BY <1>1, <1>2, <1>3, <1>4
          DEF ApiStep, Get, AnswerNotModified, AnswerBody, AnswerGarbled, AnswerMissing,
              AnswerError, StoreBody, StoreRuby

LEMMA RubyRowChecked ==
    ASSUME ApiInv, NEW c \in Clients, ApiStep(c)
    PROVE  \/ apiCache'[RubyFile] = apiCache[RubyFile]
           \/ /\ request[c].at = "body" /\ request[c].url = RubyFile
              /\ Wanted(c, apiCache'[RubyFile].body)
  <1>0. /\ apiCache \in [Urls -> Row] /\ RubyFile \in Urls
        /\ request[c].got \in Row
    BY ApiTypes, ApiNames DEF ApiInv, RequestTypes
  <1>1. CASE StoreBody(c)
    BY <1>0, <1>1 DEF StoreBody, Put
  <1>2. CASE StoreRuby(c)
    <2> DEFINE row == [request[c].got EXCEPT !.tag = NoTag]
    <2>1. row.body = request[c].got.body
      BY <1>0 DEF Row
    <2>2. CASE ~Wanted(c, request[c].got.body)
      BY <1>2, <2>2 DEF StoreRuby
    <2>3. CASE Wanted(c, request[c].got.body)
      <3>1. apiCache' = apiCache \/ apiCache' = [apiCache EXCEPT ![RubyFile] = row]
        BY <1>2, <2>3 DEF StoreRuby, Put
      <3>2. apiCache'[RubyFile] = apiCache[RubyFile] \/ apiCache'[RubyFile] = row
        BY <1>0, <3>1
      <3> HIDE DEF row
      <3> QED BY <1>2, <2>1, <2>3, <3>2 DEF StoreRuby
    <2> QED BY <2>2, <2>3
  <1>3. CASE ~StoreBody(c) /\ ~StoreRuby(c)
    BY <1>3 DEF ApiStep, Get, AnswerNotModified, AnswerBody, AnswerGarbled, AnswerMissing,
                AnswerError
  <1> QED BY <1>1, <1>2, <1>3

LEMMA ApiAnswersHold ==
    ASSUME ApiInv, ApiNext
    PROVE  ReturnsCurrent /\ GarbledRowsHeal /\ RubyRowsAreChecked
  <1>0. request \in [Clients -> RequestTypes] /\ outcome \in [Clients -> OutcomeTypes]
        /\ apiCache \in [Urls -> Row] /\ RubyFile \in Urls
    BY ApiTypes, ApiNames DEF ApiInv
  <1>1. ASSUME NEW c \in Clients, ApiStep(c)
        PROVE  ReturnsCurrent /\ GarbledRowsHeal /\ RubyRowsAreChecked
    <2>1. \A d \in Clients : request[d].at # "idle" /\ request'[d].at = "idle" => d = c
      BY <1>1, OthersKeepAsking
    <2> QED BY <1>1, <2>1, AnswersHold, RubyRowChecked
            DEF ReturnsCurrent, GarbledRowsHeal, RubyRowsAreChecked, Ends
  <1>2. ASSUME NEW c \in Clients, NEW name \in FormulaNames, GetFormula(c, name)
        PROVE  ReturnsCurrent /\ GarbledRowsHeal /\ RubyRowsAreChecked
    <2>1. \A d \in Clients : ~(request[d].at # "idle" /\ request'[d].at = "idle")
      BY <1>0, <1>2 DEF GetFormula
    <2> QED BY <1>2, <2>1 DEF ReturnsCurrent, GarbledRowsHeal, RubyRowsAreChecked, Ends, GetFormula
  <1>3. ASSUME NEW c \in Clients, NEW v, GetRubyFile(c, v)
        PROVE  ReturnsCurrent /\ GarbledRowsHeal /\ RubyRowsAreChecked
    <2>1. \A d \in Clients : ~(request[d].at # "idle" /\ request'[d].at = "idle")
      BY <1>0, <1>3 DEF GetRubyFile
    <2> QED BY <1>3, <2>1 DEF ReturnsCurrent, GarbledRowsHeal, RubyRowsAreChecked, Ends, GetRubyFile
  <1>4. ASSUME NEW c \in Clients, ClearCache(c)
        PROVE  ReturnsCurrent /\ GarbledRowsHeal /\ RubyRowsAreChecked
    <2>1. request' = request /\ apiCache'[RubyFile] = NoRow
      BY <1>0, <1>4 DEF ClearCache
    <2> QED BY <2>1 DEF ReturnsCurrent, GarbledRowsHeal, RubyRowsAreChecked, Ends
  <1>5. ASSUME NEW u \in Published, Publish(u)
        PROVE  ReturnsCurrent /\ GarbledRowsHeal /\ RubyRowsAreChecked
    <2>1. \A d \in Clients : request'[d].at = request[d].at
      BY <1>0, <1>5 DEF Publish, RequestTypes
    <2> QED BY <1>5, <2>1 DEF ReturnsCurrent, GarbledRowsHeal, RubyRowsAreChecked, Ends, Publish
  <1> QED BY <1>1, <1>2, <1>3, <1>4, <1>5 DEF ApiNext

LEMMA CachedAnswersStep ==
    ASSUME ApiInv, [ApiNext]_apiVars
    PROVE  [ReturnsCurrent /\ GarbledRowsHeal /\ RubyRowsAreChecked]_apiVars
  BY ApiAnswersHold

-----------------------------------------------------------------------------
(* Where a tap's file is looked for.  While it is looked for, every place  *)
(* that was passed does not have it, or its answer was a fault.            *)

\* The places whose answer was taken.
Passed == {c \in Places : /\ c[1] <= LookedBranches /\ c[2] <= LookedPaths
                          /\ c[1] < branch \/ (c[1] = branch /\ c[2] <= taken)}

AnswersFit ==
    \A p \in 1..TapPaths :
       /\ heard[p] # "none" => p <= asked
       /\ heard[p] = "found" => <<branch, p>> \in present
       /\ heard[p] = "missing" => <<branch, p>> \notin present
       /\ heard[p] \in {"status", "send"} => <<branch, p>> \in disturbed

SearchFits ==
    /\ branch <= LookedBranches /\ asked <= LookedPaths
    /\ \A c \in Passed : c \in present => c \in disturbed
    /\ seen \subseteq {"missing"} => \A c \in Passed : c \notin present
    /\ seen \cap {"status", "send"} # {} => disturbed # {}
    /\ branch > 1 \/ taken > 0 => seen # {}

TapInv == /\ TapLookupTypeOK /\ AnswersFit /\ TapAnswerIsFirst
          /\ Looking => SearchFits

LEMMA TapNumbers ==
    /\ TapBranches \in Nat \ {0} /\ TapPaths \in Nat \ {0} /\ AheadLimit \in Nat \ {0}
    /\ LookupFaults \subseteq {"status", "send", "body"}
    /\ Places = (1..TapBranches) \X (1..TapPaths)
  BY TapLookupAssumption DEF Places

LEMMA NoPlaces ==
    /\ <<"none">> \notin Places /\ <<"missing">> \notin Places /\ <<"failed">> \notin Places
    /\ <<"none">> # <<"missing">> /\ <<"none">> # <<"failed">> /\ <<"missing">> # <<"failed">>
  BY TapNumbers

LEMMA Looked ==
    /\ LookedBranches \in 1..TapBranches /\ LookedPaths \in 1..TapPaths
    /\ LookedBranches \in Nat \ {0} /\ LookedPaths \in Nat \ {0}
  BY TapNumbers DEF LookedBranches, LookedPaths

LEMMA TapStarts == TapLookupInit => TapInv
  <1> SUFFICES ASSUME TapLookupInit PROVE TapInv
    OBVIOUS
  <1>1. TapLookupTypeOK
    BY TapNumbers DEF TapLookupInit, TapLookupTypeOK, NothingHeard, Heard
  <1>2. AnswersFit
    BY DEF TapLookupInit, AnswersFit, NothingHeard
  <1>3. <<"none">> \notin Places /\ <<"missing">> \notin Places
    BY TapNumbers
  <1>4. TapAnswerIsFirst
    BY <1>3 DEF TapLookupInit, TapAnswerIsFirst
  <1>5. Passed = {}
    BY TapNumbers DEF Passed, TapLookupInit
  <1> QED BY <1>1, <1>2, <1>4, <1>5, Looked DEF TapInv, SearchFits, TapLookupInit

LEMMA TapTypes ==
    ASSUME TapLookupTypeOK
    PROVE  /\ branch \in 1..TapBranches /\ asked \in 0..TapPaths /\ taken \in 0..asked
           /\ taken \in Nat /\ asked \in Nat /\ branch \in Nat
           /\ heard \in [1..TapPaths -> Heard]
           /\ TapPaths \in Nat /\ TapBranches \in Nat
  BY TapNumbers DEF TapLookupTypeOK

LEMMA AskKeeps ==
    ASSUME TapInv, Ask
    PROVE  TapInv'
  <1>1. TapLookupTypeOK /\ AnswersFit /\ SearchFits /\ TapAnswerIsFirst
    BY DEF TapInv, Ask
  <1>2. asked' = asked + 1 /\ asked < LookedPaths
        /\ UNCHANGED <<plain, present, branch, heard, taken, seen, answer, disturbed>>
    BY DEF Ask
  <1>3. TapLookupTypeOK'
    BY <1>1, <1>2, TapTypes, Looked DEF TapLookupTypeOK, Heard
  <1>4. AnswersFit'
    BY <1>1, <1>2, TapTypes DEF AnswersFit
  <1>5. SearchFits'
    BY <1>1, <1>2, TapTypes, Looked DEF SearchFits, Passed, LookedBranches, LookedPaths
  <1>6. TapAnswerIsFirst'
    BY <1>1, <1>2 DEF TapAnswerIsFirst, LookedBranches, LookedPaths
  <1> QED BY <1>3, <1>4, <1>5, <1>6 DEF TapInv

LEMMA HearKeeps ==
    ASSUME TapInv, NEW p \in 1..TapPaths, Hear(p)
    PROVE  TapInv'
  <1>1. TapLookupTypeOK /\ AnswersFit /\ SearchFits /\ TapAnswerIsFirst /\ Looking
    BY DEF TapInv, Hear
  <1>2. /\ p <= asked /\ <<branch, p>> \in Places
        /\ UNCHANGED <<plain, present, branch, asked, taken, seen, answer>>
    BY <1>1, TapTypes, TapNumbers DEF Hear
  <1>3. \E h \in {"found", "missing", "status", "send"} :
          /\ heard' = [heard EXCEPT ![p] = h]
          /\ h = "found" => <<branch, p>> \in present
          /\ h = "missing" => <<branch, p>> \notin present
          /\ h \in {"found", "missing"} => disturbed' = disturbed
          /\ h \in {"status", "send"} => disturbed' = disturbed \cup {<<branch, p>>}
    <2>1. CASE UNCHANGED disturbed /\
               heard' = [heard EXCEPT ![p] = IF <<branch, p>> \in present THEN "found" ELSE "missing"]
      BY <2>1
    <2>2. CASE \E f \in LookupFaults \ {"body"} :
                  /\ heard' = [heard EXCEPT ![p] = f]
                  /\ disturbed' = disturbed \cup {<<branch, p>>}
      BY <2>2, TapNumbers
    <2> QED BY <2>1, <2>2 DEF Hear
  <1>4. /\ disturbed' \subseteq Places /\ disturbed \subseteq disturbed'
        /\ \A q \in 1..TapPaths : q # p => heard'[q] = heard[q]
    BY <1>1, <1>2, <1>3, TapTypes DEF TapLookupTypeOK
  <1>5. TapLookupTypeOK'
    BY <1>1, <1>2, <1>3, <1>4 DEF TapLookupTypeOK, Heard
  <1>6. AnswersFit'
    BY <1>1, <1>2, <1>3, <1>4, TapTypes DEF AnswersFit
  <1>7. SearchFits'
    BY <1>1, <1>2, <1>4 DEF SearchFits, Passed, LookedBranches, LookedPaths
  <1>8. TapAnswerIsFirst'
    BY <1>1, <1>2, TapNumbers DEF TapAnswerIsFirst, Looking
  <1> QED BY <1>5, <1>6, <1>7, <1>8 DEF TapInv

LEMMA TakeKeeps ==
    ASSUME TapInv, TakeInOrder
    PROVE  TapInv'
  <1> DEFINE p == taken + 1
  <1>1. TapLookupTypeOK /\ AnswersFit /\ SearchFits /\ TapAnswerIsFirst /\ Looking
    BY DEF TapInv, TakeInOrder, TakePath
  <1>2. /\ taken < asked /\ heard[p] # "none" /\ taken' = p
        /\ UNCHANGED <<plain, present, branch, asked, heard>>
    BY DEF TakeInOrder, TakePath
  <1>3. /\ p \in 1..TapPaths /\ p <= asked /\ p <= LookedPaths /\ <<branch, p>> \in Places
        /\ heard[p] \in Heard /\ branch <= LookedBranches
    BY <1>1, <1>2, TapTypes, TapNumbers, Looked DEF SearchFits
  <1>4. Passed' = Passed \cup {<<branch, p>>}
    <2>1. \A c \in Places : c[1] \in Nat /\ c[2] \in Nat /\ c = <<c[1], c[2]>>
      BY TapNumbers
    <2>2. \A c \in Places : c = <<branch, p>> <=> (c[1] = branch /\ c[2] = p)
      BY <2>1
    <2>3. \A c \in Places : c[2] <= p <=> (c[2] <= taken \/ c[2] = p)
      BY <1>1, <2>1, TapTypes
    <2> QED BY <1>2, <1>3, <2>2, <2>3 DEF Passed, LookedBranches, LookedPaths
  <1>5. CASE heard[p] = "found"
    <2>1. /\ seen' = seen
          /\ \/ answer' = <<branch, p>> /\ disturbed' = disturbed
             \/ answer' = <<"failed">> /\ disturbed' = disturbed \cup {<<branch, p>>}
      BY <1>5 DEF TakeInOrder, TakePath
    <2>2. <<branch, p>> \in present
      BY <1>1, <1>3, <1>5 DEF AnswersFit
    <2>3. TapLookupTypeOK' /\ AnswersFit'
      BY <1>1, <1>2, <1>3, <2>1, TapTypes DEF TapLookupTypeOK, AnswersFit
    <2>4. ~Looking'
      BY <1>3, <2>1, NoPlaces DEF Looking
    <2>5. CASE answer' = <<branch, p>> /\ disturbed' = disturbed
      <3>1. \A c \in Places :
               c[1] <= LookedBranches /\ c[2] <= LookedPaths /\ Before(c, <<branch, p>>) =>
                  c \in Passed
        <4> TAKE c \in Places
        <4>1. c[1] \in Nat /\ c[2] \in Nat
          BY TapNumbers
        <4>2. Before(c, <<branch, p>>) <=> c[1] < branch \/ (c[1] = branch /\ c[2] < p)
          BY DEF Before
        <4>3. c[2] < p => c[2] <= taken
          BY <4>1, <1>1, TapTypes
        <4> HIDE DEF p
        <4>4. c \in Places
          OBVIOUS
        <4> QED BY <4>2, <4>3, <4>4, Zenon DEF Passed
      <3>2. answer' # <<"missing">> /\ answer' # <<"failed">>
        BY <1>3, <2>5, NoPlaces
      <3>3. TapAnswerIsFirst'
        BY <1>1, <1>2, <1>3, <2>2, <2>5, <3>1, <3>2
           DEF TapAnswerIsFirst, SearchFits, LookedBranches, LookedPaths, TapLookupTypeOK
      <3> QED BY <2>3, <2>4, <3>3 DEF TapInv
    <2>6. CASE answer' = <<"failed">> /\ disturbed' = disturbed \cup {<<branch, p>>}
      <3>1. answer' \notin Places /\ answer' # <<"missing">>
        BY <2>6, TapNumbers
      <3>2. TapAnswerIsFirst'
        BY <2>6, <3>1 DEF TapAnswerIsFirst
      <3> QED BY <2>3, <2>4, <3>2 DEF TapInv
    <2> QED BY <2>1, <2>5, <2>6
  <1>6. CASE heard[p] # "found"
    <2>1. seen' = seen \cup {heard[p]} /\ UNCHANGED <<answer, disturbed>>
      BY <1>6 DEF TakeInOrder, TakePath
    <2>2. /\ heard[p] \in {"missing", "status", "send"}
          /\ heard[p] = "missing" => <<branch, p>> \notin present
          /\ heard[p] # "missing" => <<branch, p>> \in disturbed
      BY <1>1, <1>2, <1>3, <1>6 DEF AnswersFit, Heard
    <2>3. TapLookupTypeOK' /\ AnswersFit'
      <3>0. taken' \in 0..asked'
        BY <1>1, <1>2, <1>3, TapTypes
      <3>1. seen' \subseteq {"missing", "status", "send"} /\ taken' \in 0..asked'
        BY <1>1, <2>1, <2>2, <3>0 DEF TapLookupTypeOK
      <3>2. TapLookupTypeOK'
        BY <1>1, <1>2, <2>1, <3>1 DEF TapLookupTypeOK
      <3> QED BY <1>1, <1>2, <2>1, <3>2 DEF AnswersFit
    <2>4. TapAnswerIsFirst'
      BY <1>1, <1>2, <2>1 DEF TapAnswerIsFirst, LookedBranches, LookedPaths
    <2>5. SearchFits'
      BY <1>1, <1>2, <1>3, <1>4, <2>1, <2>2 DEF SearchFits, LookedBranches, LookedPaths
    <2> QED BY <2>3, <2>4, <2>5 DEF TapInv
  <1> QED BY <1>5, <1>6

LEMMA BranchEndsKeeps ==
    ASSUME TapInv, BranchEnds
    PROVE  TapInv'
  <1>1. TapLookupTypeOK /\ AnswersFit /\ SearchFits /\ TapAnswerIsFirst /\ Looking
    BY DEF TapInv, BranchEnds
  <1>2. taken = LookedPaths /\ UNCHANGED <<plain, present, seen, disturbed>>
    BY DEF BranchEnds
  <1>3. CASE branch < LookedBranches
    <2>1. branch' = branch + 1 /\ asked' = 0 /\ taken' = 0 /\ heard' = NothingHeard
          /\ answer' = answer
      BY <1>3 DEF BranchEnds
    <2>2. TapLookupTypeOK'
      BY <1>1, <1>2, <1>3, <2>1, TapTypes, Looked DEF TapLookupTypeOK, NothingHeard, Heard
    <2>3. AnswersFit'
      BY <2>1 DEF AnswersFit, NothingHeard
    <2>4. Passed' = Passed
      <3>1. \A c \in Places : c[1] \in 1..TapBranches /\ c[2] \in 1..TapPaths
        BY TapNumbers
      <3>2. \A c \in Places : c[2] <= LookedPaths =>
              ((c[1] < branch \/ (c[1] = branch /\ c[2] <= taken))
               <=> (c[1] < branch + 1 \/ (c[1] = branch + 1 /\ c[2] <= 0)))
        BY <3>1, <1>1, <1>2, TapTypes
      <3> QED BY <1>2, <2>1, <3>2 DEF Passed, LookedBranches, LookedPaths
    <2>5. SearchFits'
      <3>1. seen # {}
        BY <1>1, <1>2, Looked DEF SearchFits
      <3>2. branch' <= LookedBranches' /\ asked' <= LookedPaths'
        BY <1>1, <1>2, <1>3, <2>1, TapTypes, Looked DEF LookedBranches, LookedPaths
      <3> QED BY <1>1, <1>2, <2>4, <3>1, <3>2 DEF SearchFits
    <2>6. TapAnswerIsFirst'
      BY <1>1, <1>2, <2>1 DEF TapAnswerIsFirst, LookedBranches, LookedPaths
    <2> QED BY <2>2, <2>3, <2>5, <2>6 DEF TapInv
  <1>4. CASE ~(branch < LookedBranches)
    <2>1. /\ UNCHANGED <<branch, asked, taken, heard>>
          /\ answer' = IF seen = {"missing"} THEN <<"missing">> ELSE <<"failed">>
      BY <1>4 DEF BranchEnds
    <2>2. TapLookupTypeOK' /\ AnswersFit'
      BY <1>1, <1>2, <2>1, TapTypes DEF TapLookupTypeOK, AnswersFit
    <2>3. answer' \notin Places /\ ~Looking'
      BY <2>1, TapNumbers DEF Looking
    <2>4. \A c \in Places : c[1] <= LookedBranches /\ c[2] <= LookedPaths => c \in Passed
      <3>1. branch = LookedBranches
        BY <1>1, <1>4, TapTypes, Looked DEF SearchFits
      <3> QED BY <1>2, <3>1, TapNumbers, Looked DEF Passed
    <2>5. seen # {} /\ seen \subseteq {"missing", "status", "send"}
      BY <1>1, <1>2, Looked DEF SearchFits, TapLookupTypeOK
    <2>6. TapAnswerIsFirst'
      <3>1. CASE seen = {"missing"}
        BY <1>1, <1>2, <2>1, <2>3, <2>4, <3>1
           DEF TapAnswerIsFirst, SearchFits, TapLookupTypeOK, LookedBranches, LookedPaths
      <3>2. CASE seen # {"missing"}
        <4>1. disturbed # {} /\ answer' = <<"failed">>
          BY <1>1, <2>1, <2>5, <3>2 DEF SearchFits
        <4> QED BY <1>2, <2>3, <4>1 DEF TapAnswerIsFirst
      <3> QED BY <3>1, <3>2
    <2> QED BY <2>2, <2>3, <2>6 DEF TapInv
  <1> QED BY <1>3, <1>4

LEMMA TapStepsKeep == TapInv /\ [TapLookupNext]_lookupVars => TapInv'
  <1> SUFFICES ASSUME TapInv, [TapLookupNext]_lookupVars PROVE TapInv'
    OBVIOUS
  <1>1. CASE UNCHANGED lookupVars
    BY <1>1 DEF lookupVars, TapInv, TapLookupTypeOK, AnswersFit, TapAnswerIsFirst, SearchFits,
                Passed, Looking, LookedBranches, LookedPaths
  <1> QED BY <1>1, AskKeeps, HearKeeps, TakeKeeps, BranchEndsKeeps DEF TapLookupNext

-----------------------------------------------------------------------------
(* The cut of a file into ranges.                                          *)

CutAt(size, o) == IF size - o < ChunkSize(size) THEN size - o ELSE ChunkSize(size)

Cuts(size, f, o) ==
    IF o >= size THEN <<>>
    ELSE <<[offset |-> o, size |-> CutAt(size, o)]>> \o f[o + CutAt(size, o)]

From(size) == CHOOSE f : f = [o \in 0..size |-> Cuts(size, f, o)]

LEMMA RangesAreCuts ==
    ASSUME NEW size \in FileSizes
    PROVE  ChunkRanges(size) = From(size)[0]
  BY DEF ChunkRanges, From, Cuts, CutAt

LEMMA ChunkNumbers ==
    ASSUME NEW size \in FileSizes
    PROVE  /\ size \in Nat \ {0} /\ MinChunk \in Nat \ {0} /\ MaxChunk \in Nat \ {0}
           /\ TargetChunks \in Nat \ {0} /\ ChunkSize(size) \in 1..MaxChunk
  <1>1. /\ size \in Nat \ {0} /\ MinChunk \in Nat \ {0} /\ MaxChunk \in Nat \ {0}
        /\ MinChunk <= MaxChunk /\ TargetChunks \in Nat \ {0}
    BY ChunkedAssumption
  <1>2. size \div TargetChunks \in Int
    BY <1>1
  <1> QED BY <1>1, <1>2 DEF ChunkSize, Clamp

LEMMA CutFits ==
    ASSUME NEW size \in FileSizes, NEW o \in 0..size, o < size
    PROVE  /\ CutAt(size, o) \in 1..MaxChunk /\ o + CutAt(size, o) \in 0..size
           /\ CutAt(size, o) \in Nat \ {0}
  BY ChunkNumbers DEF CutAt

\* The recursion has a solution: from the end of the file to its beginning.
LEMMA CutsExist ==
    ASSUME NEW size \in FileSizes
    PROVE  \E f : f = [o \in 0..size |-> Cuts(size, f, o)]
  <1> DEFINE S == {k \in Nat : k <= size =>
                      \E f : f = [o \in (size - k)..size |-> Cuts(size, f, o)]}
  <1>0. size \in Nat
    BY ChunkNumbers
  <1>1. 0 \in S
    <2> DEFINE f == [o \in size..size |-> <<>>]
    <2>1. f = [o \in (size - 0)..size |-> Cuts(size, f, o)]
      BY <1>0 DEF Cuts
    <2> QED BY <2>1
  <1>2. ASSUME NEW k \in S PROVE k + 1 \in S
    <2> SUFFICES ASSUME k + 1 <= size
                 PROVE  \E f : f = [o \in (size - (k + 1))..size |-> Cuts(size, f, o)]
      OBVIOUS
    <2>1. k \in Nat /\ k <= size
      BY <1>0
    <2>2. PICK f : f = [o \in (size - k)..size |-> Cuts(size, f, o)]
      BY <2>1
    <2> DEFINE o1 == size - (k + 1)
               h == [o \in o1..size |-> IF o = o1 THEN Cuts(size, f, o) ELSE f[o]]
    <2>3. o1 \in 0..size /\ o1 < size
      BY <1>0, <2>1
    <2>4. ASSUME NEW o \in o1..size PROVE h[o] = Cuts(size, h, o)
      <3>1. o \in 0..size /\ (o = o1 \/ o \in (size - k)..size)
        BY <1>0, <2>1
      <3>2. h[o] = Cuts(size, f, o)
        BY <2>2, <3>1
      <3>3. CASE o < size
        <4>1. o + CutAt(size, o) \in (size - k)..size /\ o + CutAt(size, o) # o1
          BY <3>1, <3>3, CutFits, <1>0, <2>1
        <4>2. h[o + CutAt(size, o)] = f[o + CutAt(size, o)]
          BY <4>1, <1>0, <2>1
        <4> HIDE DEF h, o1
        <4> QED BY <3>2, <4>2 DEF Cuts
      <3>4. CASE ~(o < size)
        <4>1. o >= size
          BY <3>1, <3>4, <1>0
        <4> HIDE DEF h, o1
        <4> QED BY <3>2, <4>1 DEF Cuts
      <3> QED BY <3>3, <3>4
    <2>5. h = [o \in o1..size |-> Cuts(size, h, o)]
      <3>1. h = [o \in o1..size |-> h[o]]
        OBVIOUS
      <3> HIDE DEF h, o1
      <3> QED BY <2>4, <3>1
    <2> HIDE DEF h
    <2> QED BY <2>5
  <1>3. S = Nat
    <2> HIDE DEF S
    <2>1. S \subseteq Nat
      BY DEF S
    <2> QED BY <1>1, <1>2, <2>1, AllNaturals
  <1>4. \E f : f = [o \in (size - size)..size |-> Cuts(size, f, o)]
    BY <1>0, <1>3
  <1> QED BY <1>0, <1>4

LEMMA FromIsCuts ==
    ASSUME NEW size \in FileSizes
    PROVE  From(size) = [o \in 0..size |-> Cuts(size, From(size), o)]
  <1> DEFINE Solves(f) == f = [o \in 0..size |-> Cuts(size, f, o)]
  <1>1. \E f : Solves(f)
    BY CutsExist
  <1>2. Solves(CHOOSE f : Solves(f))
    <2> HIDE DEF Solves
    <2> QED BY <1>1
  <1> QED BY <1>2, Zenon DEF From

LEMMA FromAt ==
    ASSUME NEW size \in FileSizes, NEW o \in 0..size
    PROVE  From(size)[o] = Cuts(size, From(size), o)
  <1> DEFINE g == From(size)
  <1>1. g = [p \in 0..size |-> Cuts(size, g, p)]
    BY FromIsCuts
  <1> HIDE DEF g
  <1>2. g[o] = Cuts(size, g, o)
    BY <1>1
  <1> QED BY <1>2 DEF g

\* Ranges that follow each other from o to the end of the file.
Tile(size, o, s) ==
    /\ s \in Seq([offset : 0..size, size : 1..MaxChunk])
    /\ s # <<>> <=> o < size
    /\ s # <<>> => s[1].offset = o /\ s[Len(s)].offset + s[Len(s)].size = size
    /\ \A i \in 1..Len(s) - 1 : s[i + 1].offset = s[i].offset + s[i].size

LEMMA FromTiles ==
    ASSUME NEW size \in FileSizes
    PROVE  \A o \in 0..size : Tile(size, o, From(size)[o])
  <1> DEFINE S == {k \in Nat : k <= size =>
                     \A o \in (size - k)..size : Tile(size, o, From(size)[o])}
  <1>0. size \in Nat \ {0}
    BY ChunkNumbers
  <1>1. 0 \in S
    <2> SUFFICES Tile(size, size, From(size)[size])
      BY <1>0
    <2>1. From(size)[size] = <<>>
      <3>1. size \in 0..size /\ size >= size
        BY <1>0
      <3> QED BY <3>1, FromAt DEF Cuts
    <2> QED BY <2>1, <1>0 DEF Tile
  <1>2. ASSUME NEW k \in S PROVE k + 1 \in S
    <2> SUFFICES ASSUME k + 1 <= size,
                        NEW o \in (size - (k + 1))..size
                 PROVE  Tile(size, o, From(size)[o])
      OBVIOUS
    <2>1. k \in Nat /\ k <= size /\ \A p \in (size - k)..size : Tile(size, p, From(size)[p])
      BY <1>0
    <2>2. CASE o \in (size - k)..size
      BY <2>1, <2>2
    <2>3. CASE o = size - (k + 1)
      <3> DEFINE c == CutAt(size, o)
                 e == [offset |-> o, size |-> c]
                 r == From(size)[o + c]
      <3>1. o \in 0..size /\ o < size
        BY <1>0, <2>1, <2>3
      <3>2. c \in 1..MaxChunk /\ o + c \in (size - k)..size /\ o + c \in 0..size /\ c \in Nat
        BY <1>0, <2>1, <2>3, <3>1, CutFits
      <3>3. From(size)[o] = <<e>> \o r
        <4>1. ~(o >= size)
          BY <1>0, <3>1
        <4> QED BY <3>1, <4>1, FromAt DEF Cuts
      <3>4. Tile(size, o + c, r)
        BY <2>1, <3>2
      <3>5. e \in [offset : 0..size, size : 1..MaxChunk] /\ e.offset = o /\ e.size = c
        BY <3>1, <3>2
      <3> HIDE DEF c, e, r
      <3> DEFINE s == <<e>> \o r
      <3>6. /\ s \in Seq([offset : 0..size, size : 1..MaxChunk]) /\ s # <<>>
            /\ Len(s) = Len(r) + 1 /\ Len(r) \in Nat
            /\ s[1] = e /\ \A i \in 1..Len(r) : s[i + 1] = r[i]
        BY <3>4, <3>5 DEF Tile
      <3> HIDE DEF s
      <3>7. s[Len(s)].offset + s[Len(s)].size = size
        <4>1. CASE r = <<>>
          <5>0. ~(o + c < size)
            BY <3>4, <4>1 DEF Tile
          <5>1. o + c = size
            BY <3>1, <3>2, <5>0, <1>0
          <5>2. Len(s) = 1 /\ s[Len(s)] = e
            BY <3>6, <4>1
          <5> QED BY <3>5, <5>1, <5>2
        <4>2. CASE r # <<>>
          <5>1. r \in Seq([offset : 0..size, size : 1..MaxChunk]) /\ Len(r) \in 1..Len(r)
                /\ r[Len(r)].offset + r[Len(r)].size = size
            BY <3>4, <4>2 DEF Tile
          <5>2. s[Len(s)] = r[Len(r)]
            BY <3>6, <5>1
          <5> QED BY <5>1, <5>2
        <4> QED BY <4>1, <4>2
      <3>8. ASSUME NEW i \in 1..Len(s) - 1 PROVE s[i + 1].offset = s[i].offset + s[i].size
        <4>1. i \in 1..Len(r) /\ r # <<>> /\ s[i + 1] = r[i]
          BY <3>6
        <4>2. CASE i = 1
          BY <3>4, <3>5, <3>6, <4>1, <4>2 DEF Tile
        <4>3. CASE i # 1
          <5>0. i - 1 \in 1..Len(r) - 1 /\ i - 1 \in 1..Len(r) /\ (i - 1) + 1 = i
            BY <3>6, <4>1, <4>3
          <5>1. i - 1 \in 1..Len(r) - 1 /\ (i - 1) + 1 = i /\ s[(i - 1) + 1] = r[i - 1]
            BY <3>6, <5>0
          <5>2. r[(i - 1) + 1].offset = r[i - 1].offset + r[i - 1].size
            BY <3>4, <5>1 DEF Tile
          <5> QED BY <4>1, <5>1, <5>2
        <4> QED BY <4>2, <4>3
      <3>9. Tile(size, o, s)
        BY <3>1, <3>5, <3>6, <3>7, <3>8 DEF Tile
      <3> QED BY <3>3, <3>9 DEF s
    <2> QED BY <1>0, <2>1, <2>2, <2>3
  <1>3. S = Nat
    <2> HIDE DEF S
    <2>1. S \subseteq Nat
      BY DEF S
    <2> QED BY <1>1, <1>2, <2>1, AllNaturals
  <1>4. \A o \in (size - size)..size : Tile(size, o, From(size)[o])
    BY <1>0, <1>3
  <1> QED BY <1>0, <1>4

\* calculate_chunk_ranges: the ranges follow each other from the first byte to the last.
LEMMA RangesTile ==
    ASSUME NEW size \in FileSizes
    PROVE  Tile(size, 0, ChunkRanges(size)) /\ ChunkRanges(size) # <<>>
  <1>1. Tile(size, 0, ChunkRanges(size)) /\ 0 < size
    BY RangesAreCuts, FromTiles, ChunkNumbers
  <1> QED BY <1>1 DEF Tile

\* The ranges of the file that is fetched.
Ranges == ChunkRanges(fileSize)
RangeEnd(i) == Ranges[i].offset + Ranges[i].size

LEMMA RangeTypes ==
    ASSUME fileSize \in FileSizes
    PROVE  /\ fileSize \in Nat \ {0} /\ Len(Ranges) \in Nat \ {0}
           /\ Ranges \in Seq([offset : 0..fileSize, size : 1..MaxChunk])
           /\ \A i \in 1..Len(Ranges) :
                 /\ Ranges[i] \in [offset : 0..fileSize, size : 1..MaxChunk]
                 /\ Ranges[i].offset \in Nat /\ Ranges[i].size \in Nat \ {0}
                 /\ RangeEnd(i) \in Nat /\ Ranges[i].offset < RangeEnd(i)
           /\ Ranges[1].offset = 0 /\ RangeEnd(Len(Ranges)) = fileSize
           /\ \A i \in 1..Len(Ranges) - 1 : Ranges[i + 1].offset = RangeEnd(i)
  <1>1. fileSize \in Nat \ {0} /\ MaxChunk \in Nat \ {0}
    BY ChunkNumbers
  <1>2. Tile(fileSize, 0, Ranges) /\ Ranges # <<>>
    BY RangesTile DEF Ranges
  <1>3. Ranges \in Seq([offset : 0..fileSize, size : 1..MaxChunk]) /\ Len(Ranges) \in Nat \ {0}
    BY <1>2 DEF Tile
  <1>4. \A i \in 1..Len(Ranges) : Ranges[i] \in [offset : 0..fileSize, size : 1..MaxChunk]
    BY <1>3, ElementOfSeq
  <1>5. \A i \in 1..Len(Ranges) : Ranges[i].offset \in Nat /\ Ranges[i].size \in Nat \ {0}
    BY <1>1, <1>4
  <1>6. \A i \in 1..Len(Ranges) : RangeEnd(i) \in Nat /\ Ranges[i].offset < RangeEnd(i)
    BY <1>5 DEF RangeEnd
  <1> QED BY <1>1, <1>2, <1>3, <1>4, <1>5, <1>6 DEF Tile, RangeEnd

LEMMA RangesApart ==
    ASSUME fileSize \in FileSizes,
           NEW i \in 1..Len(Ranges), NEW j \in 1..Len(Ranges), i < j
    PROVE  RangeEnd(i) <= Ranges[j].offset
  <1> DEFINE S == {k \in Nat : i + k + 1 <= Len(Ranges) =>
                                 RangeEnd(i) <= Ranges[i + k + 1].offset}
  <1>0. Len(Ranges) \in Nat /\ i \in Nat /\ j \in Nat
    BY RangeTypes
  <1>1. 0 \in S
    <2>1. i + 1 <= Len(Ranges) => Ranges[i + 1].offset = RangeEnd(i)
      BY <1>0, RangeTypes
    <2>2. RangeEnd(i) \in Nat /\ i + 0 + 1 = i + 1
      BY <1>0, RangeTypes
    <2> QED BY <2>1, <2>2
  <1>2. ASSUME NEW k \in S PROVE k + 1 \in S
    <2> SUFFICES ASSUME i + (k + 1) + 1 <= Len(Ranges)
                 PROVE  RangeEnd(i) <= Ranges[i + (k + 1) + 1].offset
      OBVIOUS
    <2> DEFINE p == i + k + 1
    <2>1. /\ k \in Nat /\ p \in 1..Len(Ranges) - 1 /\ p \in 1..Len(Ranges)
          /\ i + (k + 1) + 1 = p + 1 /\ p + 1 \in 1..Len(Ranges)
      BY <1>0
    <2>2. RangeEnd(i) <= Ranges[p].offset
      BY <1>0, <2>1
    <2> HIDE DEF p
    <2>3. Ranges[p + 1].offset = RangeEnd(p) /\ Ranges[p].offset < RangeEnd(p)
          /\ RangeEnd(i) \in Nat /\ RangeEnd(p) \in Nat /\ Ranges[p].offset \in Nat
      BY <2>1, RangeTypes
    <2> QED BY <2>1, <2>2, <2>3
  <1>3. S = Nat
    <2> HIDE DEF S
    <2>1. S \subseteq Nat
      BY DEF S
    <2> QED BY <1>1, <1>2, <2>1, AllNaturals
  <1>4. j - i - 1 \in Nat /\ i + (j - i - 1) + 1 = j
    BY <1>0
  <1>5. j - i - 1 \in S
    BY <1>3, <1>4
  <1> QED BY <1>0, <1>4, <1>5

\* Of two ranges one ends before the other begins: a unit is in one of them.
LEMMA OneRange ==
    ASSUME fileSize \in FileSizes, NEW u \in Nat,
           NEW i \in 1..Len(Ranges), NEW j \in 1..Len(Ranges),
           Ranges[i].offset <= u, u < RangeEnd(i), Ranges[j].offset <= u, u < RangeEnd(j)
    PROVE  i = j
  <1>1. Len(Ranges) \in Nat /\ i \in Nat /\ j \in Nat /\ RangeEnd(i) \in Nat /\ RangeEnd(j) \in Nat
        /\ Ranges[i].offset \in Nat /\ Ranges[j].offset \in Nat
    BY RangeTypes
  <1>2. ~(i < j) /\ ~(j < i)
    BY <1>1, RangesApart
  <1> QED BY <1>1, <1>2

LEMMA RangesDiffer ==
    ASSUME fileSize \in FileSizes,
           NEW i \in 1..Len(Ranges), NEW j \in 1..Len(Ranges), Ranges[i].offset = Ranges[j].offset
    PROVE  i = j
  <1>1. /\ Ranges[i].offset \in Nat /\ Ranges[i].offset < RangeEnd(i)
        /\ Ranges[j].offset < RangeEnd(j)
    BY RangeTypes
  <1> QED BY <1>1, OneRange

LEMMA SomeRange ==
    ASSUME fileSize \in FileSizes, NEW u \in 0..fileSize - 1
    PROVE  \E i \in 1..Len(Ranges) : Ranges[i].offset <= u /\ u < RangeEnd(i)
  <1> DEFINE S == {i \in 1..Len(Ranges) : u < RangeEnd(i)}
  <1>1. fileSize \in Nat \ {0} /\ Len(Ranges) \in Nat \ {0} /\ RangeEnd(Len(Ranges)) = fileSize
    BY RangeTypes
  <1>2. S \subseteq Nat /\ Len(Ranges) \in S
    BY <1>1
  <1>3. PICK i \in S : \A j \in S : i <= j
    BY <1>2, LeastNatural
  <1>4. i \in 1..Len(Ranges) /\ u < RangeEnd(i)
    OBVIOUS
  <1>5. CASE i = 1
    BY <1>1, <1>4, <1>5, RangeTypes
  <1>6. CASE i # 1
    <2>1. i - 1 \in 1..Len(Ranges) - 1 /\ i - 1 \in 1..Len(Ranges) /\ (i - 1) + 1 = i
      BY <1>1, <1>4, <1>6
    <2>2. i - 1 \notin S
      BY <1>1, <1>3, <1>4
    <2>3. RangeEnd(i - 1) <= u
      <3>1. ~(u < RangeEnd(i - 1)) /\ RangeEnd(i - 1) \in Nat /\ u \in Nat
        BY <1>1, <2>1, <2>2, RangeTypes
      <3> QED BY <3>1
    <2>4. Ranges[i].offset = RangeEnd(i - 1)
      <3>1. Ranges[(i - 1) + 1].offset = RangeEnd(i - 1)
        BY <2>1, RangeTypes
      <3> QED BY <2>1, <3>1
    <2> QED BY <1>4, <2>3, <2>4
  <1> QED BY <1>5, <1>6

LEMMA RangeWithin ==
    ASSUME fileSize \in FileSizes, NEW i \in 1..Len(Ranges)
    PROVE  RangeEnd(i) <= fileSize /\ RangeEnd(i) \in Nat
  <1>1. Len(Ranges) \in Nat \ {0} /\ Len(Ranges) \in 1..Len(Ranges) /\ fileSize \in Nat
        /\ RangeEnd(Len(Ranges)) = fileSize /\ RangeEnd(i) \in Nat
        /\ Ranges[Len(Ranges)].offset < RangeEnd(Len(Ranges)) /\ Ranges[Len(Ranges)].offset \in Nat
    BY RangeTypes
  <1>2. i = Len(Ranges) \/ i < Len(Ranges)
    BY <1>1
  <1> QED BY <1>1, <1>2, RangesApart

-----------------------------------------------------------------------------
(* The rounds of hashing.                                                  *)

NextIn(chunks, s) == {c \in chunks : c.offset = Len(s)}

Hash(chunks, f, k) ==
    IF k = 0 THEN hashed
    ELSE IF NextIn(chunks, f[k - 1]) = {} THEN f[k - 1]
    ELSE f[k - 1] \o (CHOOSE c \in NextIn(chunks, f[k - 1]) : TRUE).data

Rounds(chunks) == CHOOSE f : f = [k \in 0..Cardinality(chunks) |-> Hash(chunks, f, k)]

LEMMA HashingIsRounds ==
    ASSUME NEW chunks
    PROVE  Hashing(chunks) = Rounds(chunks)[Cardinality(chunks)]
  BY DEF Hashing, Rounds, Hash, NextIn

LEMMA RoundsExist ==
    ASSUME NEW chunks, IsFiniteSet(chunks)
    PROVE  \E f : f = [k \in 0..Cardinality(chunks) |-> Hash(chunks, f, k)]
  <1> DEFINE S == {j \in Nat : \E f : f = [k \in 0..j |-> Hash(chunks, f, k)]}
  <1>1. 0 \in S
    <2> DEFINE f == [k \in 0..0 |-> hashed]
    <2>1. f = [k \in 0..0 |-> Hash(chunks, f, k)]
      BY DEF Hash
    <2> QED BY <2>1
  <1>2. ASSUME NEW j \in S PROVE j + 1 \in S
    <2>1. j \in Nat
      OBVIOUS
    <2>2. PICK f : f = [k \in 0..j |-> Hash(chunks, f, k)]
      OBVIOUS
    <2> DEFINE h == [k \in 0..(j + 1) |-> IF k = j + 1 THEN Hash(chunks, f, k) ELSE f[k]]
    <2>3. ASSUME NEW k \in 0..(j + 1) PROVE h[k] = Hash(chunks, h, k)
      <3>1. k = j + 1 \/ k \in 0..j
        BY <2>1
      <3>2. h[k] = Hash(chunks, f, k)
        BY <2>2, <3>1
      <3>3. CASE k = 0
        <4> HIDE DEF h
        <4> QED BY <3>2, <3>3 DEF Hash
      <3>4. CASE k # 0
        <4>1. k - 1 \in 0..j /\ k - 1 \in 0..(j + 1) /\ k - 1 # j + 1
          BY <2>1, <3>4
        <4>2. h[k - 1] = f[k - 1]
          BY <4>1
        <4> HIDE DEF h
        <4> QED BY <3>2, <3>4, <4>2 DEF Hash
      <3> QED BY <3>3, <3>4
    <2>4. h = [k \in 0..(j + 1) |-> Hash(chunks, h, k)]
      <3>1. h = [k \in 0..(j + 1) |-> h[k]]
        OBVIOUS
      <3> HIDE DEF h
      <3> QED BY <2>3, <3>1
    <2> HIDE DEF h
    <2> QED BY <2>1, <2>4
  <1>3. S = Nat
    <2> HIDE DEF S
    <2>1. S \subseteq Nat
      BY DEF S
    <2> QED BY <1>1, <1>2, <2>1, AllNaturals
  <1>4. Cardinality(chunks) \in Nat
    BY FS_CardinalityType
  <1> QED BY <1>3, <1>4

LEMMA RoundAt ==
    ASSUME NEW chunks, IsFiniteSet(chunks), NEW k \in 0..Cardinality(chunks)
    PROVE  Rounds(chunks)[k] = Hash(chunks, Rounds(chunks), k)
  <1> DEFINE Solves(f) == f = [j \in 0..Cardinality(chunks) |-> Hash(chunks, f, j)]
             g == Rounds(chunks)
  <1>1. \E f : Solves(f)
    BY RoundsExist
  <1>2. Solves(CHOOSE f : Solves(f))
    <2> HIDE DEF Solves
    <2> QED BY <1>1
  <1>3. Solves(g)
    BY <1>2, Zenon DEF Rounds
  <1> HIDE DEF g
  <1>4. g[k] = Hash(chunks, g, k)
    BY <1>3
  <1> QED BY <1>4 DEF g

\* What holds of what was hashed, and is kept by a chunk that is next, holds at the end.
LEMMA HashingIn ==
    ASSUME NEW chunks, IsFiniteSet(chunks), NEW P, hashed \in P,
           \A s \in P : \A c \in NextIn(chunks, s) : s \o c.data \in P
    PROVE  \A k \in 0..Cardinality(chunks) : Rounds(chunks)[k] \in P
  <1> DEFINE S == {j \in Nat : j <= Cardinality(chunks) => Rounds(chunks)[j] \in P}
  <1>0. Cardinality(chunks) \in Nat
    BY FS_CardinalityType
  <1>1. 0 \in S
    <2>1. 0 \in 0..Cardinality(chunks)
      BY <1>0
    <2>2. Rounds(chunks)[0] = hashed
      BY <2>1, RoundAt DEF Hash
    <2> QED BY <2>2
  <1>2. ASSUME NEW j \in S PROVE j + 1 \in S
    <2> SUFFICES ASSUME j + 1 <= Cardinality(chunks) PROVE Rounds(chunks)[j + 1] \in P
      OBVIOUS
    <2> DEFINE s == Rounds(chunks)[j]
    <2>1. j \in Nat /\ j <= Cardinality(chunks) /\ s \in P /\ j + 1 \in 0..Cardinality(chunks)
          /\ (j + 1) - 1 = j /\ j + 1 # 0
      BY <1>0
    <2>2. Rounds(chunks)[j + 1] = IF NextIn(chunks, s) = {} THEN s
                                  ELSE s \o (CHOOSE c \in NextIn(chunks, s) : TRUE).data
      <3>1. Rounds(chunks)[j + 1] = Hash(chunks, Rounds(chunks), j + 1)
        BY <2>1, RoundAt
      <3>2. Rounds(chunks)[(j + 1) - 1] = s
        BY <2>1
      <3> QED BY <2>1, <3>1, <3>2 DEF Hash
    <2> HIDE DEF s
    <2>3. CASE NextIn(chunks, s) = {}
      BY <2>1, <2>2, <2>3
    <2>4. CASE NextIn(chunks, s) # {}
      <3>1. (CHOOSE c \in NextIn(chunks, s) : TRUE) \in NextIn(chunks, s)
        BY <2>4
      <3> QED BY <2>1, <2>2, <2>4, <3>1
    <2> QED BY <2>3, <2>4
  <1>3. S = Nat
    <2> HIDE DEF S
    <2>1. S \subseteq Nat
      BY DEF S
    <2> QED BY <1>1, <1>2, <2>1, AllNaturals
  <1> QED BY <1>0, <1>3

\* As many rounds as there are chunks are enough: no chunk is next at the end.
LEMMA HashingEnds ==
    ASSUME NEW chunks, IsFiniteSet(chunks), NEW D, hashed \in Seq(D),
           \A c \in chunks : c.offset \in Nat /\ c.data \in Seq(D) /\ Len(c.data) # 0
    PROVE  NextIn(chunks, Hashing(chunks)) = {}
  <1> DEFINE R(k) == Rounds(chunks)[k]
             A(k) == {c \in chunks : c.offset < Len(R(k))}
             S == {k \in Nat : k <= Cardinality(chunks) =>
                      NextIn(chunks, R(k)) = {} \/ Cardinality(A(k)) >= k}
  <1>0. Cardinality(chunks) \in Nat
    BY FS_CardinalityType
  <1>a. \A k \in 0..Cardinality(chunks) : R(k) \in Seq(D)
    <2>1. \A s \in Seq(D) : \A c \in NextIn(chunks, s) : s \o c.data \in Seq(D)
      BY DEF NextIn
    <2> QED BY <2>1, HashingIn
  <1>b. \A k : IsFiniteSet(A(k)) /\ Cardinality(A(k)) \in Nat
    <2> TAKE k
    <2>1. A(k) \subseteq chunks
      OBVIOUS
    <2> HIDE DEF A
    <2> QED BY <2>1, FS_Subset, FS_CardinalityType
  <1>1. 0 \in S
    <2>1. Cardinality(A(0)) >= 0
      <3>1. Cardinality(A(0)) \in Nat
        BY <1>b
      <3> HIDE DEF A
      <3> QED BY <3>1
    <2> HIDE DEF A, R
    <2> QED BY <2>1
  <1>2. ASSUME NEW k \in S PROVE k + 1 \in S
    <2> SUFFICES ASSUME k + 1 <= Cardinality(chunks), NextIn(chunks, R(k + 1)) # {}
                 PROVE  Cardinality(A(k + 1)) >= k + 1
      OBVIOUS
    <2>1. k \in Nat /\ k <= Cardinality(chunks) /\ k \in 0..Cardinality(chunks)
          /\ k + 1 \in 0..Cardinality(chunks) /\ (k + 1) - 1 = k /\ k + 1 # 0
      BY <1>0
    <2>2. R(k + 1) = IF NextIn(chunks, R(k)) = {} THEN R(k)
                     ELSE R(k) \o (CHOOSE c \in NextIn(chunks, R(k)) : TRUE).data
      <3>1. Rounds(chunks)[k + 1] = Hash(chunks, Rounds(chunks), k + 1)
        BY <2>1, RoundAt
      <3> QED BY <2>1, <3>1 DEF Hash
    <2> DEFINE c == CHOOSE c \in NextIn(chunks, R(k)) : TRUE
    <2>3. NextIn(chunks, R(k)) # {}
      BY <2>2
    <2>4. c \in NextIn(chunks, R(k))
      BY <2>3
    <2>5. R(k + 1) = R(k) \o c.data /\ R(k) \in Seq(D)
      BY <1>a, <2>1, <2>2, <2>3
    <2>6. Cardinality(A(k)) >= k
      BY <2>1, <2>3
    <2> HIDE DEF c, R
    <2>7. c \in chunks /\ c.offset = Len(R(k)) /\ Len(R(k + 1)) = Len(R(k)) + Len(c.data)
          /\ Len(c.data) \in Nat \ {0} /\ Len(R(k)) \in Nat
      BY <2>4, <2>5 DEF NextIn
    <2>8. c \notin A(k) /\ A(k) \cup {c} \subseteq A(k + 1)
      BY <2>7
    <2> HIDE DEF A
    <2>9. Cardinality(A(k) \cup {c}) = Cardinality(A(k)) + 1
      BY <1>b, <2>8, FS_AddElement
    <2>10. Cardinality(A(k) \cup {c}) <= Cardinality(A(k + 1))
      BY <1>b, <2>8, FS_Subset
    <2> QED BY <1>b, <2>1, <2>6, <2>9, <2>10
  <1>3. S = Nat
    <2> HIDE DEF S
    <2>1. S \subseteq Nat
      BY DEF S
    <2> QED BY <1>1, <1>2, <2>1, AllNaturals
  <1> DEFINE e == Cardinality(chunks)
  <1>4. NextIn(chunks, R(e)) = {} \/ Cardinality(A(e)) >= e
    <2>1. e \in S /\ e <= Cardinality(chunks)
      <3> HIDE DEF S
      <3> QED BY <1>0, <1>3
    <2> HIDE DEF A, R
    <2> QED BY <2>1
  <1>5. Cardinality(A(e)) >= e => NextIn(chunks, R(e)) = {}
    <2> SUFFICES ASSUME Cardinality(A(e)) >= e PROVE NextIn(chunks, R(e)) = {}
      OBVIOUS
    <2>1. A(e) \subseteq chunks
      OBVIOUS
    <2>2. A(e) = chunks
      <3> HIDE DEF A
      <3>1. Cardinality(A(e)) <= e
        BY <2>1, FS_Subset
      <3>2. Cardinality(A(e)) = e
        BY <1>0, <1>b, <3>1
      <3> QED BY <2>1, <3>2, FS_Subset
    <2>3. Len(R(e)) \in Nat
      <3>1. R(e) \in Seq(D)
        BY <1>0, <1>a
      <3> HIDE DEF R
      <3> QED BY <3>1
    <2> HIDE DEF R
    <2> QED BY <2>2, <2>3 DEF NextIn
  <1> QED BY <1>4, <1>5, HashingIsRounds

-----------------------------------------------------------------------------
(* Chunks.  Of the ranges that were spawned, each is fetched, buffered or  *)
(* hashed, and only one of them; the hash stands where a range begins.     *)

Bytes01 == {"right", "wrong"}
ChunkOf(i, bytes) == [offset |-> Ranges[i].offset, data |-> [j \in 1..Ranges[i].size |-> bytes]]
Spawned == Len(Ranges) - Len(unspawned)

\* A place where a range begins or the file ends.
AtRange(l) == l = fileSize \/ \E i \in 1..Len(Ranges) : Ranges[i].offset = l

UnspawnedFit ==
    /\ unspawned \in Seq([offset : 0..fileSize, size : 1..MaxChunk])
    /\ Len(unspawned) <= Len(Ranges)
    /\ \A j \in 1..Len(unspawned) : unspawned[j] = Ranges[Spawned + j]

\* What was hashed is the beginning of the file.
HashFits ==
    /\ hashed \in Seq(Bytes01) /\ Len(hashed) <= fileSize
    /\ \A j \in 1..Len(hashed) : hashed[j] = blobFile[j - 1]

LoopFits ==
    /\ UnspawnedFit
    /\ fetching \subseteq {Ranges[i] : i \in 1..Spawned}
    /\ fetching = {} => unspawned = <<>>
    /\ IsFiniteSet(buffered)
    /\ \A c \in buffered : \E i \in 1..Spawned, b \in Bytes01 :
          /\ c = ChunkOf(i, b)
          /\ \A u \in Ranges[i].offset .. RangeEnd(i) - 1 : blobFile[u] = b
    /\ AtRange(Len(hashed))
    /\ \A i \in 1..Len(Ranges) : Ranges[i].offset < Len(hashed) => i <= Spawned
    /\ \A i \in 1..Spawned : \/ Ranges[i].offset < Len(hashed)
                             \/ Ranges[i] \in fetching
                             \/ \E c \in buffered : c.offset = Ranges[i].offset
    /\ \A r \in fetching : /\ Len(hashed) <= r.offset
                           /\ \A c \in buffered : c.offset # r.offset
    /\ \A c \in buffered : Len(hashed) < c.offset
    /\ \A c, d \in buffered : c.offset = d.offset => c = d

ChunkInv ==
    /\ ChunkedTypeOK /\ HashFits
    /\ phase = "loop" => LoopFits
    /\ CommitIsExact

LEMMA ChunkTypes ==
    ASSUME ChunkedTypeOK
    PROVE  /\ fileSize \in FileSizes /\ fileSize \in Nat \ {0}
           /\ blobFile \in [0..fileSize-1 -> {"hole", "right", "wrong"}]
           /\ hashed \in Seq(Bytes01) /\ Len(hashed) \in Nat
  BY ChunkNumbers DEF ChunkedTypeOK, Bytes01

LEMMA ChunkFacts ==
    ASSUME fileSize \in FileSizes, NEW i \in 1..Len(Ranges), NEW b \in Bytes01
    PROVE  /\ ChunkOf(i, b).offset = Ranges[i].offset
           /\ ChunkOf(i, b).data \in Seq(Bytes01) /\ Len(ChunkOf(i, b).data) = Ranges[i].size
           /\ Len(ChunkOf(i, b).data) # 0 /\ ChunkOf(i, b).offset \in Nat
           /\ \A j \in 1..Ranges[i].size : ChunkOf(i, b).data[j] = b
  <1>1. Ranges[i].size \in Nat \ {0} /\ Ranges[i].offset \in Nat
    BY RangeTypes
  <1> QED BY <1>1 DEF ChunkOf

LEMMA SpawnedFits ==
    ASSUME fileSize \in FileSizes, UnspawnedFit
    PROVE  /\ Spawned \in 0..Len(Ranges) /\ Spawned \in Nat /\ Len(unspawned) \in Nat
           /\ 1..Spawned \subseteq 1..Len(Ranges)
           /\ unspawned = <<>> <=> Spawned = Len(Ranges)
  <1>1. Len(Ranges) \in Nat /\ Len(unspawned) \in Nat /\ Len(unspawned) <= Len(Ranges)
        /\ unspawned \in Seq([offset : 0..fileSize, size : 1..MaxChunk])
    BY RangeTypes DEF UnspawnedFit
  <1>2. unspawned = <<>> <=> Len(unspawned) = 0
    BY <1>1
  <1> QED BY <1>1, <1>2 DEF Spawned

LEMMA TailOf ==
    ASSUME NEW S, NEW s \in Seq(S), NEW m \in Nat \ {0}
    PROVE  /\ SubSeq(s, m, Len(s)) \in Seq(S)
           /\ Len(SubSeq(s, m, Len(s))) = IF m <= Len(s) THEN Len(s) - m + 1 ELSE 0
           /\ \A i \in 1..Len(SubSeq(s, m, Len(s))) : SubSeq(s, m, Len(s))[i] = s[m + i - 1]
  <1>1. Len(s) \in Nat /\ Len(s) \in Int /\ m \in Int
    OBVIOUS
  <1>2. \A i \in m..Len(s) : s[i] \in S
    <2> TAKE i \in m..Len(s)
    <2>1. i \in 1..Len(s)
      BY <1>1
    <2> QED BY <2>1, ElementOfSeq
  <1>3. /\ SubSeq(s, m, Len(s)) \in Seq(S)
        /\ Len(SubSeq(s, m, Len(s))) = IF m <= Len(s) THEN Len(s) - m + 1 ELSE 0
        /\ \A i \in 1 .. Len(s) - m + 1 : SubSeq(s, m, Len(s))[i] = s[m + i - 1]
    BY <1>1, <1>2, SubSeqProperties
  <1>4. \A i \in 1..Len(SubSeq(s, m, Len(s))) : i \in 1 .. Len(s) - m + 1
    BY <1>1, <1>3
  <1> QED BY <1>3, <1>4

\* A task that ends lets the next range go.
LEMMA SpawnStep ==
    ASSUME fileSize \in FileSizes, UnspawnedFit, UNCHANGED fileSize,
           unspawned' = SubSeq(unspawned, 2, Len(unspawned))
    PROVE  /\ UnspawnedFit'
           /\ \/ /\ unspawned = <<>> /\ unspawned' = <<>> /\ Spawned' = Spawned
                 /\ {unspawned[i] : i \in {1} \cap DOMAIN unspawned} = {}
              \/ /\ unspawned # <<>> /\ Spawned' = Spawned + 1
                 /\ Spawned + 1 \in 1..Len(Ranges)
                 /\ {unspawned[i] : i \in {1} \cap DOMAIN unspawned} = {Ranges[Spawned + 1]}
  <1>0. Ranges' = Ranges
    BY DEF Ranges
  <1>1. /\ Spawned \in Nat /\ Len(Ranges) \in Nat /\ Len(unspawned) \in Nat
        /\ Len(unspawned) <= Len(Ranges) /\ Spawned = Len(Ranges) - Len(unspawned)
        /\ unspawned \in Seq([offset : 0..fileSize, size : 1..MaxChunk])
        /\ \A j \in 1..Len(unspawned) : unspawned[j] = Ranges[Spawned + j]
    BY SpawnedFits, RangeTypes DEF UnspawnedFit, Spawned
  <1>2. CASE unspawned = <<>>
    <2>1. unspawned' = <<>> /\ DOMAIN unspawned = {}
      BY <1>2
    <2>2. Spawned' = Spawned
      BY <1>0, <1>2, <2>1 DEF Spawned
    <2>3. UnspawnedFit'
      BY <1>0, <1>2, <2>1, <2>2 DEF UnspawnedFit
    <2> QED BY <1>2, <2>1, <2>2, <2>3
  <1>3. CASE unspawned # <<>>
    <2> DEFINE R == [offset : 0..fileSize, size : 1..MaxChunk]
    <2>0. unspawned \in Seq(R) /\ Len(unspawned) \in Nat \ {0}
      <3>1. Len(unspawned) # 0
        BY <1>1, <1>3
      <3> QED BY <1>1, <3>1
    <2> HIDE DEF R
    <2>a. /\ unspawned' \in Seq(R)
          /\ Len(unspawned') = Len(unspawned) - 1
          /\ \A j \in 1..Len(unspawned') : unspawned'[j] = unspawned[2 + j - 1]
      <3>1. /\ unspawned' \in Seq(R)
            /\ Len(unspawned') = IF 2 <= Len(unspawned) THEN Len(unspawned) - 2 + 1 ELSE 0
            /\ \A j \in 1..Len(unspawned') : unspawned'[j] = unspawned[2 + j - 1]
        <4>1. 2 \in Nat \ {0}
          OBVIOUS
        <4>2. unspawned' = SubSeq(unspawned, 2, Len(unspawned))
          OBVIOUS
        <4> HIDE DEF R
        <4> QED BY <2>0, <4>1, <4>2, TailOf
      <3>a. \A n \in Nat \ {0} : (IF 2 <= n THEN n - 2 + 1 ELSE 0) = n - 1
        OBVIOUS
      <3>2. (IF 2 <= Len(unspawned) THEN Len(unspawned) - 2 + 1 ELSE 0) = Len(unspawned) - 1
        BY <2>0, <3>a, Zenon
      <3> QED BY <3>1, <3>2
    <2>b. DOMAIN unspawned = 1..Len(unspawned)
      BY <2>0
    <2>c. \A j \in 1..Len(unspawned') : 2 + j - 1 = j + 1
      BY <2>0, <2>a
    <2>1. /\ Len(unspawned) \in Nat \ {0} /\ Len(unspawned') = Len(unspawned) - 1
          /\ unspawned' \in Seq([offset : 0..fileSize, size : 1..MaxChunk])
          /\ \A j \in 1..Len(unspawned') : unspawned'[j] = unspawned[j + 1]
          /\ DOMAIN unspawned = 1..Len(unspawned)
      BY <2>0, <2>a, <2>b, <2>c DEF R
    <2>2. Spawned' = Spawned + 1 /\ Spawned + 1 \in 1..Len(Ranges)
      <3>1. Spawned' = Len(Ranges) - Len(unspawned')
        BY <1>0 DEF Spawned
      <3> QED BY <1>1, <2>1, <3>1
    <2>3. UnspawnedFit'
      <3> SUFFICES ASSUME NEW j \in 1..Len(unspawned') PROVE unspawned'[j] = Ranges[Spawned' + j]
        BY <1>0, <1>1, <2>1 DEF UnspawnedFit
      <3>1. j + 1 \in 1..Len(unspawned) /\ Spawned + (j + 1) = Spawned' + j
        BY <1>1, <2>1, <2>2
      <3>2. unspawned[j + 1] = Ranges[Spawned + (j + 1)]
        BY <1>1, <3>1
      <3> QED BY <2>1, <3>1, <3>2
    <2>4. unspawned[1] = Ranges[Spawned + 1] /\ {1} \cap DOMAIN unspawned = {1}
      <3>1. 1 \in 1..Len(unspawned)
        BY <2>1
      <3>2. unspawned[1] = Ranges[Spawned + 1]
        BY <1>1, <3>1
      <3> QED BY <2>1, <3>1, <3>2
    <2>5. {unspawned[i] : i \in {1} \cap DOMAIN unspawned} = {Ranges[Spawned + 1]}
      BY <2>4
    <2> QED BY <1>3, <2>2, <2>3, <2>5
  <1> QED BY <1>2, <1>3

LEMMA ChunkStarts == ChunkedInit => ChunkInv
  <1> SUFFICES ASSUME ChunkedInit PROVE ChunkInv
    OBVIOUS
  <1> DEFINE first == IF Len(Ranges) < TargetChunks THEN Len(Ranges) ELSE TargetChunks
  <1>1. /\ fileSize \in FileSizes /\ fileSize \in Nat \ {0}
        /\ fetching = {Ranges[i] : i \in 1..first}
        /\ unspawned = SubSeq(Ranges, first + 1, Len(Ranges))
        /\ buffered = {} /\ hashed = <<>> /\ phase = "loop"
        /\ blobFile = [u \in 0..fileSize-1 |-> "hole"]
    BY ChunkNumbers DEF ChunkedInit, Ranges
  <1>2. /\ Len(Ranges) \in Nat \ {0} /\ TargetChunks \in Nat \ {0}
        /\ first \in 1..Len(Ranges)
        /\ Ranges \in Seq([offset : 0..fileSize, size : 1..MaxChunk])
        /\ Ranges[1].offset = 0 /\ 1 \in 1..Len(Ranges)
    <2>1. /\ Len(Ranges) \in Nat \ {0} /\ Ranges[1].offset = 0
          /\ Ranges \in Seq([offset : 0..fileSize, size : 1..MaxChunk])
      BY <1>1, RangeTypes
    <2>2. TargetChunks \in Nat \ {0}
      BY <1>1, ChunkNumbers
    <2>3. 1 \in 1..Len(Ranges) /\ first \in 1..Len(Ranges)
      BY <2>1, <2>2
    <2> QED BY <2>1, <2>2, <2>3
  <1> HIDE DEF first
  <1>3. /\ Len(unspawned) = Len(Ranges) - first
        /\ unspawned \in Seq([offset : 0..fileSize, size : 1..MaxChunk])
        /\ \A j \in 1..Len(unspawned) : unspawned[j] = Ranges[first + j]
    <2>1. first + 1 \in Nat \ {0}
      BY <1>2
    <2>2. /\ unspawned \in Seq([offset : 0..fileSize, size : 1..MaxChunk])
          /\ Len(unspawned) = IF first + 1 <= Len(Ranges) THEN Len(Ranges) - (first + 1) + 1 ELSE 0
          /\ \A j \in 1..Len(unspawned) : unspawned[j] = Ranges[first + 1 + j - 1]
      BY <1>1, <1>2, <2>1, TailOf
    <2>3. Len(unspawned) = Len(Ranges) - first
      BY <1>2, <2>2
    <2>4. \A j \in 1..Len(unspawned) : first + 1 + j - 1 = first + j
      BY <1>2, <2>3
    <2> QED BY <2>2, <2>3, <2>4
  <1>4. Spawned = first /\ UnspawnedFit
    BY <1>2, <1>3 DEF Spawned, UnspawnedFit
  <1>5. \A i \in 1..Len(Ranges) : /\ Ranges[i] \in [offset : 0..fileSize, size : 1..MaxChunk]
                                  /\ Ranges[i].offset \in Nat
    BY <1>1, RangeTypes
  <1>6. \A j \in 1..Len(unspawned) : unspawned[j] \in [offset : 0..fileSize, size : 1..MaxChunk]
    BY <1>3, ElementOfSeq
  <1>7. ChunkedTypeOK
    <2>1. fetching \subseteq [offset : 0..fileSize, size : 1..MaxChunk]
      <3> SUFFICES ASSUME NEW r \in fetching PROVE r \in [offset : 0..fileSize, size : 1..MaxChunk]
        OBVIOUS
      <3>1. PICK i \in 1..first : r = Ranges[i]
        BY <1>1
      <3>2. i \in 1..Len(Ranges)
        BY <1>2
      <3> QED BY <1>5, <3>1, <3>2
    <2>2. blobFile \in [0..fileSize-1 -> {"hole", "right", "wrong"}]
      BY <1>1
    <2>3. hashed \in Seq({"right", "wrong"}) /\ phase \in {"loop", "committed", "fetch", "write", "short", "digest"}
      BY <1>1
    <2> QED BY <1>1, <1>6, <2>1, <2>2, <2>3 DEF ChunkedTypeOK
  <1>8. HashFits
    BY <1>1 DEF HashFits
  <1>9. LoopFits
    <2>1. fetching # {} /\ fetching = {Ranges[i] : i \in 1..Spawned}
      BY <1>1, <1>2, <1>4
    <2>2. IsFiniteSet(buffered)
      BY <1>1, FS_EmptySet
    <2>3. AtRange(Len(hashed)) /\ Len(hashed) = 0
      BY <1>1, <1>2 DEF AtRange
    <2>4. \A r \in fetching : Len(hashed) <= r.offset
      BY <1>1, <1>2, <1>5, <2>3
    <2>5. \A i \in 1..Len(Ranges) : ~(Ranges[i].offset < Len(hashed))
      BY <1>5, <2>3
    <2> QED BY <1>1, <1>4, <2>1, <2>2, <2>3, <2>4, <2>5 DEF LoopFits
  <1> QED BY <1>1, <1>7, <1>8, <1>9 DEF ChunkInv, CommitIsExact

-----------------------------------------------------------------------------
(* The steps.                                                              *)

LEMMA ChunkFailsKeeps ==
    ASSUME ChunkInv, NEW r, ChunkFails(r)
    PROVE  ChunkInv'
  BY DEF ChunkInv, ChunkFails, ChunkedTypeOK, HashFits, CommitIsExact

LEMMA AbandonedKeeps ==
    ASSUME ChunkInv, NEW r, Abandoned(r)
    PROVE  ChunkInv'
  BY DEF ChunkInv, Abandoned, ChunkedTypeOK, HashFits, CommitIsExact

\* The tasks after one ended: the next range is fetched too.
LEMMA TasksAfter ==
    ASSUME ChunkedTypeOK, LoopFits, NEW r, UNCHANGED fileSize,
           fetching' = (fetching \ {r}) \cup {unspawned[i] : i \in {1} \cap DOMAIN unspawned},
           unspawned' = SubSeq(unspawned, 2, Len(unspawned))
    PROVE  /\ UnspawnedFit' /\ Ranges' = Ranges
           /\ fetching' \subseteq [offset : 0..fileSize, size : 1..MaxChunk]
           /\ \A i \in 1..Len(unspawned') : unspawned'[i] \in [offset : 0..fileSize, size : 1..MaxChunk]
           /\ Spawned \in Nat /\ Spawned' \in {Spawned, Spawned + 1}
           /\ Spawned \in 0..Len(Ranges) /\ Spawned' \in 0..Len(Ranges)
           /\ Spawned' = Spawned => fetching' = fetching \ {r} /\ unspawned' = <<>>
           /\ Spawned' = Spawned + 1 => fetching' = (fetching \ {r}) \cup {Ranges[Spawned + 1]}
  <1>0. Ranges' = Ranges
    BY DEF Ranges
  <1>1. fileSize \in FileSizes /\ UnspawnedFit
    BY DEF ChunkedTypeOK, LoopFits
  <1>2. Spawned \in 0..Len(Ranges) /\ Spawned \in Nat /\ Len(Ranges) \in Nat
    BY <1>1, SpawnedFits, RangeTypes
  <1>3. /\ UnspawnedFit'
        /\ \/ /\ unspawned' = <<>> /\ Spawned' = Spawned /\ fetching' = fetching \ {r}
           \/ /\ Spawned' = Spawned + 1 /\ Spawned + 1 \in 1..Len(Ranges)
              /\ fetching' = (fetching \ {r}) \cup {Ranges[Spawned + 1]}
    BY <1>1, SpawnStep
  <1>4. fetching' \subseteq [offset : 0..fileSize, size : 1..MaxChunk]
    <2>1. \A i \in 1..Len(Ranges) : Ranges[i] \in [offset : 0..fileSize, size : 1..MaxChunk]
      BY <1>1, RangeTypes
    <2>2. fetching \subseteq [offset : 0..fileSize, size : 1..MaxChunk]
      BY DEF ChunkedTypeOK
    <2> QED BY <1>3, <2>1, <2>2
  <1>5. \A i \in 1..Len(unspawned') : unspawned'[i] \in [offset : 0..fileSize, size : 1..MaxChunk]
    BY <1>3, ElementOfSeq DEF UnspawnedFit
  <1> QED BY <1>0, <1>2, <1>3, <1>4, <1>5

LEMMA WriteFailsKeeps ==
    ASSUME ChunkInv, NEW r, WriteFails(r)
    PROVE  ChunkInv'
  <1>1. ChunkedTypeOK /\ HashFits /\ LoopFits /\ phase' = "write"
    BY DEF ChunkInv, WriteFails
  <1>2. /\ fetching' \subseteq [offset : 0..fileSize, size : 1..MaxChunk]
        /\ \A i \in 1..Len(unspawned') : unspawned'[i] \in [offset : 0..fileSize, size : 1..MaxChunk]
    BY <1>1, TasksAfter DEF WriteFails
  <1>3. ChunkedTypeOK' /\ HashFits'
    BY <1>1, <1>2 DEF WriteFails, ChunkedTypeOK, HashFits
  <1> QED BY <1>1, <1>3 DEF ChunkInv, CommitIsExact

\* When no task is left every range was hashed.
LEMMA NothingMissing ==
    ASSUME ChunkedTypeOK, HashFits, LoopFits, fetching = {}
    PROVE  buffered = {} /\ Len(hashed) = fileSize
  <1>1. /\ fileSize \in FileSizes /\ fileSize \in Nat /\ Len(hashed) \in Nat
        /\ UnspawnedFit /\ unspawned = <<>>
    BY ChunkTypes DEF LoopFits
  <1>2. 1..Spawned = 1..Len(Ranges)
    BY <1>1, SpawnedFits
  <1>3. \A c \in buffered : Len(hashed) < c.offset
    BY DEF LoopFits
  <1>4. Len(hashed) = fileSize
    <2>1. ASSUME NEW i \in 1..Len(Ranges), Ranges[i].offset = Len(hashed) PROVE FALSE
      <3>1. \/ Ranges[i].offset < Len(hashed) \/ \E c \in buffered : c.offset = Ranges[i].offset
        BY <1>2 DEF LoopFits
      <3> QED BY <1>1, <1>3, <2>1, <3>1
    <2> QED BY <2>1 DEF LoopFits, AtRange
  <1>5. buffered = {}
    <2> SUFFICES ASSUME NEW c \in buffered PROVE FALSE
      OBVIOUS
    <2>1. PICK i \in 1..Spawned, b \in Bytes01 : c = ChunkOf(i, b)
      BY DEF LoopFits
    <2>2. i \in 1..Len(Ranges) /\ c.offset = Ranges[i].offset
      BY <1>2, <2>1 DEF ChunkOf
    <2>3. Ranges[i].offset < RangeEnd(i) /\ RangeEnd(i) <= fileSize /\ RangeEnd(i) \in Nat
          /\ Ranges[i].offset \in Nat
      BY <1>1, <2>2, RangeTypes, RangeWithin
    <2> QED BY <1>1, <1>3, <1>4, <2>2, <2>3
  <1> QED BY <1>4, <1>5

LEMMA FinishKeeps ==
    ASSUME ChunkInv, Finish
    PROVE  ChunkInv'
  <1>1. ChunkedTypeOK /\ HashFits /\ LoopFits /\ fetching = {} /\ fetching' = {}
    BY DEF ChunkInv, Finish
  <1>2. buffered = {} /\ Len(hashed) = fileSize /\ fileSize \in Nat /\ hashed \in Seq(Bytes01)
        /\ blobFile \in [0..fileSize-1 -> {"hole", "right", "wrong"}]
    BY <1>1, NothingMissing, ChunkTypes
  <1>3. phase' = IF \E i \in 1..Len(hashed) : hashed[i] = "wrong" THEN "digest" ELSE "committed"
    BY <1>2 DEF Finish
  <1>4. ChunkedTypeOK' /\ HashFits'
    BY <1>1, <1>3 DEF Finish, ChunkedTypeOK, HashFits
  <1>5. phase' = "committed" => \A u \in DOMAIN blobFile' : blobFile'[u] = "right"
    <2> SUFFICES ASSUME phase' = "committed", NEW u \in 0..fileSize - 1 PROVE blobFile[u] = "right"
      BY <1>2 DEF Finish
    <2>1. u + 1 \in 1..Len(hashed) /\ (u + 1) - 1 = u
      BY <1>2
    <2>2. hashed[u + 1] = blobFile[u]
      BY <1>1, <2>1 DEF HashFits
    <2>3. hashed[u + 1] \in Bytes01
      BY <1>2, <2>1, ElementOfSeq
    <2>4. hashed[u + 1] # "wrong"
      BY <1>3, <2>1
    <2> QED BY <2>2, <2>3, <2>4 DEF Bytes01
  <1>6. phase' = "digest" => \E u \in DOMAIN blobFile' : blobFile'[u] = "wrong"
    <2> SUFFICES ASSUME phase' = "digest" PROVE \E u \in 0..fileSize - 1 : blobFile[u] = "wrong"
      BY <1>2 DEF Finish
    <2>1. PICK i \in 1..Len(hashed) : hashed[i] = "wrong"
      BY <1>3
    <2>2. i - 1 \in 0..fileSize - 1
      BY <1>2
    <2> QED BY <1>1, <2>1, <2>2 DEF HashFits
  <1> QED BY <1>1, <1>3, <1>4, <1>5, <1>6 DEF ChunkInv, CommitIsExact

-----------------------------------------------------------------------------
(* A chunk arrives.                                                        *)

Here(i, b) == buffered \cup {ChunkOf(i, b)}

InRange(i, u) == Ranges[i].offset <= u /\ u < RangeEnd(i)

ArriveStep(i, b) ==
    /\ ChunkedTypeOK /\ HashFits /\ LoopFits
    /\ i \in 1..Spawned /\ b \in Bytes01 /\ Ranges[i] \in fetching
    /\ fetching' = (fetching \ {Ranges[i]}) \cup {unspawned[k] : k \in {1} \cap DOMAIN unspawned}
    /\ unspawned' = SubSeq(unspawned, 2, Len(unspawned))
    /\ blobFile' = [u \in 0..fileSize-1 |-> IF InRange(i, u) THEN b ELSE blobFile[u]]
    /\ hashed' = Hashing(Here(i, b))
    /\ buffered' = {c \in Here(i, b) : c.offset >= Len(hashed')}
    /\ UNCHANGED <<fileSize, phase>>
    /\ phase = "loop"

LEMMA ArriveIsStep ==
    ASSUME ChunkInv, NEW r, Arrive(r)
    PROVE  \E i \in 1..Spawned, b \in Bytes01 : ArriveStep(i, b)
  <1>1. ChunkedTypeOK /\ HashFits /\ LoopFits /\ phase = "loop" /\ r \in fetching
    BY DEF ChunkInv, Arrive
  <1>2. PICK i \in 1..Spawned : r = Ranges[i]
    BY <1>1 DEF LoopFits
  <1>3. PICK b \in Bytes01 :
          LET chunk == [offset |-> r.offset, data |-> [j \in 1..r.size |-> b]]
              here  == buffered \cup {chunk}
          IN  /\ blobFile' = [u \in DOMAIN blobFile |->
                    IF r.offset <= u /\ u < r.offset + r.size THEN b ELSE blobFile[u]]
              /\ hashed' = Hashing(here)
              /\ buffered' = {c \in here : c.offset >= Len(hashed')}
    BY DEF Arrive, Bytes01
  <1>4. DOMAIN blobFile = 0..fileSize-1
    BY <1>1, ChunkTypes
  <1>5. /\ blobFile' = [u \in 0..fileSize-1 |-> IF InRange(i, u) THEN b ELSE blobFile[u]]
        /\ hashed' = Hashing(Here(i, b))
        /\ buffered' = {c \in Here(i, b) : c.offset >= Len(hashed')}
    BY <1>2, <1>3, <1>4 DEF Here, ChunkOf, InRange, RangeEnd
  <1>6. ArriveStep(i, b)
    BY <1>1, <1>2, <1>5 DEF Arrive, ArriveStep
  <1> QED BY <1>2, <1>6

LEMMA ArriveFacts ==
    ASSUME NEW i, NEW b, ArriveStep(i, b)
    PROVE  /\ fileSize \in FileSizes /\ fileSize \in Nat \ {0}
           /\ Spawned \in 0..Len(Ranges) /\ Len(Ranges) \in Nat
           /\ i \in 1..Len(Ranges) /\ b \in Bytes01 /\ i <= Spawned
           /\ hashed \in Seq(Bytes01) /\ Len(hashed) \in Nat /\ Len(hashed) <= fileSize
           /\ Len(hashed) <= Ranges[i].offset
           /\ \A c \in buffered : c.offset # Ranges[i].offset
  <1>1. fileSize \in FileSizes /\ fileSize \in Nat \ {0} /\ hashed \in Seq(Bytes01)
        /\ Len(hashed) \in Nat /\ UnspawnedFit
    BY ChunkTypes DEF ArriveStep, LoopFits
  <1>2. Spawned \in 0..Len(Ranges) /\ Len(Ranges) \in Nat
    BY <1>1, SpawnedFits, RangeTypes
  <1>3. i \in 1..Spawned /\ b \in Bytes01 /\ Ranges[i] \in fetching /\ Len(hashed) <= fileSize
    BY DEF ArriveStep, HashFits
  <1>4. Len(hashed) <= Ranges[i].offset /\ \A c \in buffered : c.offset # Ranges[i].offset
    BY <1>3 DEF ArriveStep, LoopFits
  <1>5. i \in 1..Len(Ranges) /\ i <= Spawned
    BY <1>2, <1>3
  <1> QED BY <1>1, <1>2, <1>3, <1>4, <1>5

\* Each chunk that is here is a range's, and in the blob its bytes are at that range.
LEMMA HereFits ==
    ASSUME NEW i, NEW b, ArriveStep(i, b)
    PROVE  /\ IsFiniteSet(Here(i, b))
           /\ \A c \in Here(i, b) : \E j \in 1..Spawned, bytes \in Bytes01 :
                 /\ c = ChunkOf(j, bytes)
                 /\ \A u \in Ranges[j].offset .. RangeEnd(j) - 1 : blobFile'[u] = bytes
  <1>1. IsFiniteSet(Here(i, b))
    BY FS_AddElement DEF ArriveStep, LoopFits, Here
  <1>2. /\ fileSize \in FileSizes /\ fileSize \in Nat \ {0} /\ i \in 1..Spawned /\ b \in Bytes01
        /\ i \in 1..Len(Ranges) /\ Spawned \in 0..Len(Ranges) /\ Len(Ranges) \in Nat
        /\ \A c \in buffered : c.offset # Ranges[i].offset
        /\ blobFile' = [u \in 0..fileSize-1 |-> IF InRange(i, u) THEN b ELSE blobFile[u]]
    BY ArriveFacts DEF ArriveStep
  <1>3. \A j \in 1..Len(Ranges) : \A u \in Ranges[j].offset .. RangeEnd(j) - 1 :
           u \in 0..fileSize-1 /\ u \in Nat /\ InRange(j, u)
    <2> TAKE j \in 1..Len(Ranges)
    <2> TAKE u \in Ranges[j].offset .. RangeEnd(j) - 1
    <2>1. /\ Ranges[j].offset \in Nat /\ RangeEnd(j) \in Nat /\ RangeEnd(j) <= fileSize
      BY <1>2, RangeTypes, RangeWithin
    <2> QED BY <1>2, <2>1 DEF InRange
  <1>4. \A u \in Ranges[i].offset .. RangeEnd(i) - 1 : blobFile'[u] = b
    BY <1>2, <1>3
  <1>5. ASSUME NEW c \in buffered
        PROVE  \E j \in 1..Spawned, bytes \in Bytes01 :
                 /\ c = ChunkOf(j, bytes)
                 /\ \A u \in Ranges[j].offset .. RangeEnd(j) - 1 : blobFile'[u] = bytes
    <2>1. PICK j \in 1..Spawned, bytes \in Bytes01 :
            /\ c = ChunkOf(j, bytes)
            /\ \A u \in Ranges[j].offset .. RangeEnd(j) - 1 : blobFile[u] = bytes
      BY DEF ArriveStep, LoopFits
    <2>2. j \in 1..Len(Ranges) /\ j # i
      BY <1>2, <2>1 DEF ChunkOf
    <2>3. ASSUME NEW u \in Ranges[j].offset .. RangeEnd(j) - 1 PROVE blobFile'[u] = bytes
      <3>1. u \in 0..fileSize-1 /\ u \in Nat /\ InRange(j, u)
        BY <1>3, <2>2
      <3>2. ~InRange(i, u)
        BY <1>2, <2>2, <3>1, OneRange DEF InRange
      <3> QED BY <1>2, <2>1, <3>1, <3>2
    <2> QED BY <2>1, <2>3
  <1> QED BY <1>1, <1>2, <1>4, <1>5 DEF Here

\* What hashing may have reached: a beginning of the file, up to a range's begin,
\* whose ranges were hashed before or are here.
Reached(i, b) ==
    {s \in Seq(Bytes01) :
        /\ Len(hashed) <= Len(s) /\ Len(s) <= fileSize /\ AtRange(Len(s))
        /\ \A j \in 1..Len(s) : s[j] = blobFile'[j - 1]
        /\ \A k \in 1..Len(Ranges) : Ranges[k].offset < Len(s) =>
              /\ k <= Spawned
              /\ \/ Ranges[k].offset < Len(hashed)
                 \/ \E c \in Here(i, b) : c.offset = Ranges[k].offset}

LEMMA HashedReached ==
    ASSUME NEW i, NEW b, ArriveStep(i, b)
    PROVE  hashed \in Reached(i, b)
  <1>1. /\ fileSize \in Nat /\ hashed \in Seq(Bytes01) /\ Len(hashed) \in Nat
        /\ Len(hashed) <= fileSize /\ Len(hashed) <= Ranges[i].offset
        /\ fileSize \in FileSizes /\ i \in 1..Len(Ranges)
        /\ Spawned \in 0..Len(Ranges) /\ Len(Ranges) \in Nat
    BY ArriveFacts
  <1>2. ASSUME NEW j \in 1..Len(hashed) PROVE hashed[j] = blobFile'[j - 1]
    <2>1. Ranges[i].offset \in Nat
      BY <1>1, RangeTypes
    <2>2. j - 1 \in 0..fileSize - 1 /\ ~InRange(i, j - 1)
      BY <1>1, <2>1 DEF InRange
    <2>3. hashed[j] = blobFile[j - 1]
      BY DEF ArriveStep, HashFits
    <2> QED BY <2>2, <2>3 DEF ArriveStep
  <1>3. AtRange(Len(hashed))
    BY DEF ArriveStep, LoopFits
  <1>4. \A k \in 1..Len(Ranges) : Ranges[k].offset < Len(hashed) => k <= Spawned
    <2>1. \A k \in 1..Len(Ranges) : Ranges[k].offset < Len(hashed) => k \in 1..Spawned
      BY <1>1 DEF ArriveStep, LoopFits
    <2> QED BY <1>1, <2>1
  <1> QED BY <1>1, <1>2, <1>3, <1>4 DEF Reached

LEMMA ReachedGrows ==
    ASSUME NEW i, NEW b, ArriveStep(i, b),
           NEW s \in Reached(i, b), NEW c \in NextIn(Here(i, b), s)
    PROVE  s \o c.data \in Reached(i, b)
  <1>1. /\ fileSize \in FileSizes /\ fileSize \in Nat /\ Len(hashed) \in Nat
        /\ Spawned \in 0..Len(Ranges) /\ Len(Ranges) \in Nat
    BY ArriveFacts
  <1>2. /\ s \in Seq(Bytes01) /\ Len(s) \in Nat /\ Len(hashed) <= Len(s)
        /\ \A j \in 1..Len(s) : s[j] = blobFile'[j - 1]
        /\ \A k \in 1..Len(Ranges) : Ranges[k].offset < Len(s) =>
              /\ k <= Spawned
              /\ \/ Ranges[k].offset < Len(hashed)
                 \/ \E d \in Here(i, b) : d.offset = Ranges[k].offset
    BY DEF Reached
  <1>3. c \in Here(i, b) /\ c.offset = Len(s)
    BY DEF NextIn
  <1>4. PICK m \in 1..Spawned, bytes \in Bytes01 :
          /\ c = ChunkOf(m, bytes)
          /\ \A u \in Ranges[m].offset .. RangeEnd(m) - 1 : blobFile'[u] = bytes
    BY <1>3, HereFits
  <1>5. m \in 1..Len(Ranges) /\ m <= Spawned
    BY <1>1
  <1>6. /\ c.offset = Ranges[m].offset /\ c.data \in Seq(Bytes01)
        /\ Len(c.data) = Ranges[m].size
        /\ \A j \in 1..Ranges[m].size : c.data[j] = bytes
    BY <1>1, <1>4, <1>5, ChunkFacts
  <1>7. /\ Ranges[m].offset \in Nat /\ Ranges[m].size \in Nat /\ RangeEnd(m) <= fileSize
        /\ RangeEnd(m) = Ranges[m].offset + Ranges[m].size /\ RangeEnd(m) \in Nat
    BY <1>1, <1>5, RangeTypes, RangeWithin DEF RangeEnd
  <1> DEFINE t == s \o c.data
  <1> HIDE DEF t
  <1>8. /\ t \in Seq(Bytes01) /\ Len(t) = RangeEnd(m)
        /\ \A j \in 1..Len(s) : t[j] = s[j]
        /\ \A j \in 1..Len(c.data) : t[Len(s) + j] = c.data[j]
    <2> DEFINE d == c.data
    <2>1. d \in Seq(Bytes01) /\ Len(d) = Ranges[m].size
      BY <1>6
    <2> HIDE DEF d
    <2>2. /\ s \o d \in Seq(Bytes01) /\ Len(s \o d) = Len(s) + Len(d)
          /\ \A j \in 1..Len(s) : (s \o d)[j] = s[j]
          /\ \A j \in 1..Len(d) : (s \o d)[Len(s) + j] = d[j]
      <3>1. /\ s \o d \in Seq(Bytes01) /\ Len(s \o d) = Len(s) + Len(d)
            /\ \A j \in 1 .. Len(s) + Len(d) : (s \o d)[j] = IF j <= Len(s) THEN s[j] ELSE d[j - Len(s)]
        BY <1>2, <2>1, ConcatProperties
      <3>2. Len(s) \in Nat /\ Len(d) \in Nat
        BY <1>2, <2>1
      <3>3. \A j \in 1..Len(s) : j \in 1 .. Len(s) + Len(d) /\ j <= Len(s)
        BY <3>2
      <3>4. \A j \in 1..Len(d) : /\ Len(s) + j \in 1 .. Len(s) + Len(d) /\ ~(Len(s) + j <= Len(s))
                                 /\ Len(s) + j - Len(s) = j
        BY <3>2
      <3>5. ASSUME NEW j \in 1..Len(s) PROVE (s \o d)[j] = s[j]
        BY <3>1, <3>3, Zenon
      <3>6. ASSUME NEW j \in 1..Len(d) PROVE (s \o d)[Len(s) + j] = d[j]
        <4> DEFINE n == Len(s) + j
        <4>1. n \in 1 .. Len(s) + Len(d) /\ ~(n <= Len(s)) /\ n - Len(s) = j
          BY <3>4
        <4> HIDE DEF n
        <4>2. (s \o d)[n] = d[n - Len(s)]
          BY <3>1, <4>1
        <4> QED BY <4>1, <4>2 DEF n
      <3> QED BY <3>1, <3>5, <3>6
    <2>3. Len(s) + Len(d) = RangeEnd(m)
      BY <1>3, <1>6, <1>7, <2>1
    <2>4. t = s \o d
      BY DEF t, d
    <2> QED BY <2>2, <2>3, <2>4 DEF d
  <1>9. ASSUME NEW j \in 1..Len(t) PROVE t[j] = blobFile'[j - 1]
    <2>1. CASE j \in 1..Len(s)
      BY <1>2, <1>8, <2>1
    <2>2. CASE j \notin 1..Len(s)
      <3>0. Len(s) = Ranges[m].offset /\ Len(t) = Ranges[m].offset + Ranges[m].size
        BY <1>3, <1>6, <1>7, <1>8
      <3>1. j - Len(s) \in 1..Ranges[m].size /\ Len(s) + (j - Len(s)) = j
            /\ j - 1 \in Ranges[m].offset .. RangeEnd(m) - 1
        <4>1. \A n, z \in Nat : \A q \in 1 .. n + z : q \notin 1..n =>
                 q - n \in 1..z /\ n + (q - n) = q /\ q - 1 \in n .. n + z - 1
          OBVIOUS
        <4>2. j \in 1 .. Ranges[m].offset + Ranges[m].size /\ j \notin 1..Ranges[m].offset
          BY <2>2, <3>0
        <4>3. /\ j - Ranges[m].offset \in 1..Ranges[m].size
              /\ Ranges[m].offset + (j - Ranges[m].offset) = j
              /\ j - 1 \in Ranges[m].offset .. Ranges[m].offset + Ranges[m].size - 1
          BY <1>7, <4>1, <4>2
        <4> QED BY <1>7, <3>0, <4>3
      <3>2. t[Len(s) + (j - Len(s))] = c.data[j - Len(s)]
        BY <1>6, <1>8, <3>1
      <3> QED BY <1>4, <1>6, <3>1, <3>2
    <2> QED BY <2>1, <2>2
  <1>10. AtRange(RangeEnd(m))
    <2>1. CASE m = Len(Ranges)
      BY <1>1, <2>1, RangeTypes DEF AtRange
    <2>2. CASE m # Len(Ranges)
      <3>1. m \in 1..Len(Ranges) - 1 /\ m + 1 \in 1..Len(Ranges)
        BY <1>1, <1>5, <2>2
      <3> QED BY <1>1, <3>1, RangeTypes DEF AtRange
    <2> QED BY <2>1, <2>2
  <1>11. ASSUME NEW k \in 1..Len(Ranges), Ranges[k].offset < RangeEnd(m)
         PROVE  /\ k <= Spawned
                /\ \/ Ranges[k].offset < Len(hashed)
                   \/ \E d \in Here(i, b) : d.offset = Ranges[k].offset
    <2>0. Ranges[k].offset \in Nat /\ Ranges[k].offset < RangeEnd(k) /\ RangeEnd(k) \in Nat
      BY <1>1, RangeTypes
    <2>1. ~(m < k)
      BY <1>1, <1>5, <1>7, <1>11, <2>0, RangesApart
    <2>2. CASE k = m
      BY <1>3, <1>5, <1>6, <2>2
    <2>3. CASE k # m
      <3>1. k < m
        BY <1>1, <1>5, <2>1, <2>3
      <3>2. RangeEnd(k) <= Ranges[m].offset
        BY <1>1, <1>5, <3>1, RangesApart
      <3>3. Ranges[k].offset < Len(s)
        BY <1>3, <1>6, <1>7, <2>0, <3>2
      <3> QED BY <1>2, <3>3
    <2> QED BY <2>2, <2>3
  <1>12. Len(hashed) <= Len(t) /\ Len(t) <= fileSize
    BY <1>1, <1>2, <1>3, <1>6, <1>7, <1>8
  <1>13. t \in Reached(i, b)
    BY <1>8, <1>9, <1>10, <1>11, <1>12 DEF Reached
  <1> QED BY <1>13 DEF t

\* The hash takes what is next until no chunk that is here is next.
LEMMA HashedAfter ==
    ASSUME NEW i, NEW b, ArriveStep(i, b)
    PROVE  /\ hashed' \in Reached(i, b)
           /\ \A c \in Here(i, b) : c.offset # Len(hashed')
  <1>1. IsFiniteSet(Here(i, b)) /\ hashed' = Hashing(Here(i, b))
    BY HereFits DEF ArriveStep
  <1>2. hashed' \in Reached(i, b)
    <2>1. hashed \in Reached(i, b)
      BY HashedReached
    <2>2. \A s \in Reached(i, b) : \A c \in NextIn(Here(i, b), s) : s \o c.data \in Reached(i, b)
      BY ReachedGrows
    <2>3. \A k \in 0..Cardinality(Here(i, b)) : Rounds(Here(i, b))[k] \in Reached(i, b)
      BY <1>1, <2>1, <2>2, HashingIn
    <2>4. Cardinality(Here(i, b)) \in 0..Cardinality(Here(i, b))
      BY <1>1, FS_CardinalityType
    <2> QED BY <1>1, <2>3, <2>4, HashingIsRounds
  <1>3. NextIn(Here(i, b), hashed') = {}
    <2>1. fileSize \in FileSizes /\ Spawned \in 0..Len(Ranges) /\ Len(Ranges) \in Nat
          /\ hashed \in Seq(Bytes01)
      BY ArriveFacts
    <2>2. \A c \in Here(i, b) : c.offset \in Nat /\ c.data \in Seq(Bytes01) /\ Len(c.data) # 0
      <3> TAKE c \in Here(i, b)
      <3>1. PICK m \in 1..Spawned, bytes \in Bytes01 : c = ChunkOf(m, bytes)
        BY HereFits
      <3>2. m \in 1..Len(Ranges)
        BY <2>1
      <3> QED BY <2>1, <3>1, <3>2, ChunkFacts
    <2> QED BY <1>1, <2>1, <2>2, HashingEnds
  <1> QED BY <1>2, <1>3 DEF NextIn

\* A range a task fetches after the step has not been reached.
LEMMA FetchedLater ==
    ASSUME NEW i, NEW b, ArriveStep(i, b), NEW k \in 1..Len(Ranges), Ranges[k] \in fetching'
    PROVE  /\ ~(Ranges[k].offset < Len(hashed'))
           /\ \A c \in Here(i, b) : c.offset # Ranges[k].offset
  <1>1. /\ fileSize \in FileSizes /\ i \in 1..Len(Ranges) /\ Spawned \in 0..Len(Ranges)
        /\ Len(Ranges) \in Nat /\ Len(hashed) \in Nat
    BY ArriveFacts
  <1>2. /\ ChunkedTypeOK /\ LoopFits /\ UNCHANGED fileSize
        /\ fetching' = (fetching \ {Ranges[i]}) \cup {unspawned[n] : n \in {1} \cap DOMAIN unspawned}
        /\ unspawned' = SubSeq(unspawned, 2, Len(unspawned))
    BY DEF ArriveStep
  <1>3. /\ Spawned' \in {Spawned, Spawned + 1}
        /\ Spawned \in 0..Len(Ranges) /\ Spawned' \in 0..Len(Ranges)
        /\ Spawned' = Spawned => fetching' = fetching \ {Ranges[i]}
        /\ Spawned' = Spawned + 1 => fetching' = (fetching \ {Ranges[i]}) \cup {Ranges[Spawned + 1]}
    BY <1>2, TasksAfter
  <1>4. /\ \A c \in Here(i, b) : \E j \in 1..Spawned : c.offset = Ranges[j].offset
        /\ \A c \in Here(i, b) : c \in buffered \/ c.offset = Ranges[i].offset
    <2>0. \A j, bytes : ChunkOf(j, bytes).offset = Ranges[j].offset
      BY DEF ChunkOf
    <2>1. \A c \in Here(i, b) : \E j \in 1..Spawned : c.offset = Ranges[j].offset
      <3> TAKE c \in Here(i, b)
      <3>1. PICK j \in 1..Spawned, bytes \in Bytes01 : c = ChunkOf(j, bytes)
        BY HereFits
      <3> QED BY <2>0, <3>1
    <2> QED BY <2>0, <2>1 DEF Here
  <1>5. hashed' \in Reached(i, b)
    BY HashedAfter
  <1>6. Ranges[k].offset < Len(hashed') =>
              /\ k <= Spawned
              /\ \/ Ranges[k].offset < Len(hashed)
                 \/ \E c \in Here(i, b) : c.offset = Ranges[k].offset
    BY <1>5 DEF Reached
  <1>7. Ranges[k].offset \in Nat
    BY <1>1, RangeTypes
  <1>8. CASE Ranges[k] \in fetching /\ Ranges[k] # Ranges[i]
    <2>1. Len(hashed) <= Ranges[k].offset /\ \A c \in buffered : c.offset # Ranges[k].offset
      BY <1>2, <1>8 DEF LoopFits
    <2>2. Ranges[k].offset # Ranges[i].offset
      BY <1>1, <1>8, RangesDiffer
    <2>3. \A c \in Here(i, b) : c.offset # Ranges[k].offset
      BY <1>4, <2>1, <2>2
    <2> QED BY <1>1, <1>6, <1>7, <2>1, <2>3
  <1>9. CASE Spawned' = Spawned + 1 /\ Ranges[k] = Ranges[Spawned + 1]
    <2>1. Spawned + 1 \in 1..Len(Ranges)
      BY <1>1, <1>3, <1>9
    <2>2. k = Spawned + 1
      BY <1>1, <1>9, <2>1, RangesDiffer
    <2>3. ~(k <= Spawned)
      BY <1>1, <2>2
    <2>4. \A c \in Here(i, b) : c.offset # Ranges[k].offset
      <3> SUFFICES ASSUME NEW c \in Here(i, b), c.offset = Ranges[k].offset PROVE FALSE
        OBVIOUS
      <3>1. PICK j \in 1..Spawned : c.offset = Ranges[j].offset
        BY <1>4
      <3>2. j \in 1..Len(Ranges) /\ j <= Spawned
        BY <1>1
      <3>3. j = k
        BY <1>1, <3>1, <3>2, RangesDiffer
      <3> QED BY <2>3, <3>2, <3>3
    <2> QED BY <1>6, <2>3, <2>4
  <1> QED BY <1>3, <1>8, <1>9

LEMMA ArriveLoops ==
    ASSUME NEW i, NEW b, ArriveStep(i, b)
    PROVE  LoopFits'
  <1>1. /\ fileSize \in FileSizes /\ i \in 1..Len(Ranges) /\ b \in Bytes01
        /\ Spawned \in 0..Len(Ranges)
        /\ Len(Ranges) \in Nat /\ Len(hashed) \in Nat
        /\ \A c \in buffered : c.offset # Ranges[i].offset
    BY ArriveFacts
  <1>2. /\ ChunkedTypeOK /\ LoopFits /\ UNCHANGED fileSize
        /\ fetching' = (fetching \ {Ranges[i]}) \cup {unspawned[n] : n \in {1} \cap DOMAIN unspawned}
        /\ unspawned' = SubSeq(unspawned, 2, Len(unspawned))
        /\ buffered' = {c \in Here(i, b) : c.offset >= Len(hashed')}
    BY DEF ArriveStep
  <1>3. /\ UnspawnedFit' /\ Ranges' = Ranges
        /\ Spawned' \in {Spawned, Spawned + 1}
        /\ Spawned \in 0..Len(Ranges) /\ Spawned' \in 0..Len(Ranges)
        /\ Spawned' = Spawned => fetching' = fetching \ {Ranges[i]} /\ unspawned' = <<>>
        /\ Spawned' = Spawned + 1 => fetching' = (fetching \ {Ranges[i]}) \cup {Ranges[Spawned + 1]}
    BY <1>2, TasksAfter
  <1>4. /\ hashed' \in Seq(Bytes01) /\ Len(hashed') \in Nat
        /\ Len(hashed) <= Len(hashed') /\ AtRange(Len(hashed'))
        /\ \A k \in 1..Len(Ranges) : Ranges[k].offset < Len(hashed') => k <= Spawned
        /\ \A c \in Here(i, b) : c.offset # Len(hashed')
    BY HashedAfter DEF Reached
  <1>5. \A c \in Here(i, b) : \E j \in 1..Spawned, bytes \in Bytes01 :
                 /\ c = ChunkOf(j, bytes)
                 /\ \A u \in Ranges[j].offset .. RangeEnd(j) - 1 : blobFile'[u] = bytes
    BY HereFits
  <1>6. \A k \in 1..Spawned : k \in 1..Spawned' /\ k \in 1..Len(Ranges) /\ k <= Spawned'
    BY <1>1, <1>3
  <1>7. \A j, bytes : ChunkOf(j, bytes)' = ChunkOf(j, bytes) /\ RangeEnd(j)' = RangeEnd(j)
    BY <1>3 DEF ChunkOf, RangeEnd
  <1>8. \A k \in 1..Len(Ranges) : Ranges[k].offset \in Nat
    BY <1>1, RangeTypes
  <1>a. fetching' \subseteq {Ranges[k] : k \in 1..Spawned'}
    <2>1. fetching \subseteq {Ranges[k] : k \in 1..Spawned}
      BY <1>2 DEF LoopFits
    <2>2. fetching \subseteq {Ranges[k] : k \in 1..Spawned'}
      BY <1>6, <2>1
    <2>3. Spawned' = Spawned + 1 => Spawned + 1 \in 1..Spawned'
      BY <1>1
    <2> QED BY <1>3, <2>2, <2>3
  <1>b. fetching' = {} => unspawned' = <<>>
    BY <1>3
  <1>c. IsFiniteSet(buffered')
    BY <1>2, HereFits, FS_Subset
  <1>d. \A c \in buffered' : \E j \in 1..Spawned', bytes \in Bytes01 :
          /\ c = ChunkOf(j, bytes)'
          /\ \A u \in (Ranges[j].offset)' .. RangeEnd(j)' - 1 : blobFile'[u] = bytes
    <2> SUFFICES ASSUME NEW c \in buffered'
                 PROVE  \E j \in 1..Spawned', bytes \in Bytes01 :
                          /\ c = ChunkOf(j, bytes)
                          /\ \A u \in Ranges[j].offset .. RangeEnd(j) - 1 : blobFile'[u] = bytes
      BY <1>3, <1>7
    <2> QED BY <1>2, <1>5, <1>6
  <1>e. AtRange(Len(hashed))'
    BY <1>2, <1>3, <1>4 DEF AtRange
  <1>f. \A k \in 1..Len(Ranges) : Ranges[k].offset < Len(hashed') => k <= Spawned'
    <2>1. \A k \in 1..Len(Ranges) : k <= Spawned => k <= Spawned'
      BY <1>1, <1>3
    <2> QED BY <1>4, <2>1
  <1>g. ASSUME NEW k \in 1..Spawned'
        PROVE  \/ Ranges[k].offset < Len(hashed')
               \/ Ranges[k] \in fetching'
               \/ \E c \in buffered' : c.offset = Ranges[k].offset
    <2>1. k \in 1..Len(Ranges) /\ Ranges[k].offset \in Nat
      BY <1>1, <1>3, <1>8
    <2>2. CASE k \in 1..Spawned
      <3>1. \/ Ranges[k].offset < Len(hashed)
            \/ Ranges[k] \in fetching
            \/ \E c \in buffered : c.offset = Ranges[k].offset
        BY <1>2, <2>2 DEF LoopFits
      <3>2. \/ Ranges[k].offset < Len(hashed)
            \/ Ranges[k] \in fetching'
            \/ \E c \in Here(i, b) : c.offset = Ranges[k].offset
        <4>1. ChunkOf(i, b) \in Here(i, b) /\ ChunkOf(i, b).offset = Ranges[i].offset
              /\ buffered \subseteq Here(i, b)
          BY DEF Here, ChunkOf
        <4>2. Ranges[k] \in fetching => Ranges[k] \in fetching' \/ Ranges[k] = Ranges[i]
          BY <1>2
        <4>3. Ranges[k] = Ranges[i] => \E c \in Here(i, b) : c.offset = Ranges[k].offset
          BY <4>1
        <4> QED BY <3>1, <4>1, <4>2, <4>3, Zenon
      <3>3. ASSUME NEW c \in Here(i, b), c.offset = Ranges[k].offset
            PROVE  Ranges[k].offset < Len(hashed') \/ c \in buffered'
        BY <1>2, <1>4, <2>1, <3>3
      <3>4. Ranges[k].offset < Len(hashed) => Ranges[k].offset < Len(hashed')
        BY <1>1, <1>4, <2>1
      <3> QED BY <3>2, <3>3, <3>4
    <2>3. CASE k \notin 1..Spawned
      <3>1. k = Spawned + 1 /\ Spawned' = Spawned + 1
        BY <1>1, <1>3, <2>3
      <3> QED BY <1>3, <3>1
    <2> QED BY <2>2, <2>3
  <1>h. ASSUME NEW r \in fetching'
        PROVE  /\ Len(hashed') <= r.offset
               /\ \A c \in buffered' : c.offset # r.offset
    <2>1. PICK k \in 1..Spawned' : r = Ranges[k]
      BY <1>a
    <2>2. k \in 1..Len(Ranges) /\ Ranges[k] \in fetching'
      BY <1>1, <1>3, <2>1
    <2>3. /\ ~(Ranges[k].offset < Len(hashed'))
          /\ \A c \in Here(i, b) : c.offset # Ranges[k].offset
      BY <2>2, FetchedLater
    <2>4. Ranges[k].offset \in Nat
      BY <1>8, <2>2
    <2> QED BY <1>2, <1>4, <2>1, <2>3, <2>4
  <1>i. \A c \in buffered' : Len(hashed') < c.offset
    <2> SUFFICES ASSUME NEW c \in buffered' PROVE Len(hashed') < c.offset
      OBVIOUS
    <2>1. c \in Here(i, b) /\ c.offset >= Len(hashed') /\ c.offset # Len(hashed')
      BY <1>2, <1>4
    <2>2. PICK j \in 1..Spawned, bytes \in Bytes01 : c = ChunkOf(j, bytes)
      BY <1>5, <2>1
    <2>3. c.offset = Ranges[j].offset /\ Ranges[j].offset \in Nat
      BY <1>6, <1>8, <2>2 DEF ChunkOf
    <2> QED BY <1>4, <2>1, <2>3
  <1>j. \A c, d \in buffered' : c.offset = d.offset => c = d
    <2> SUFFICES ASSUME NEW c \in Here(i, b), NEW d \in Here(i, b), c.offset = d.offset PROVE c = d
      BY <1>2
    <2>1. \A p, q \in buffered : p.offset = q.offset => p = q
      BY <1>2 DEF LoopFits
    <2>2. ChunkOf(i, b).offset = Ranges[i].offset
      BY DEF ChunkOf
    <2> QED BY <1>1, <2>1, <2>2 DEF Here
  <1>k. fetching' \subseteq {Ranges[k] : k \in 1..Spawned}'
    BY <1>3, <1>a
  <1>l. (\A c \in buffered : \E j \in 1..Spawned, bytes \in Bytes01 :
          /\ c = ChunkOf(j, bytes)
          /\ \A u \in Ranges[j].offset .. RangeEnd(j) - 1 : blobFile[u] = bytes)'
    BY <1>d
  <1>m. (\A k \in 1..Len(Ranges) : Ranges[k].offset < Len(hashed) => k <= Spawned)'
    BY <1>3, <1>f
  <1>n. (\A k \in 1..Spawned : \/ Ranges[k].offset < Len(hashed)
                               \/ Ranges[k] \in fetching
                               \/ \E c \in buffered : c.offset = Ranges[k].offset)'
    BY <1>3, <1>g
  <1>o. UnspawnedFit'
    BY <1>3
  <1> QED BY <1>b, <1>c, <1>e, <1>h, <1>i, <1>j, <1>k, <1>l, <1>m, <1>n, <1>o DEF LoopFits

LEMMA ArriveKeeps ==
    ASSUME ChunkInv, NEW r, Arrive(r)
    PROVE  ChunkInv'
  <1>1. PICK i \in 1..Spawned, b \in Bytes01 : ArriveStep(i, b)
    BY ArriveIsStep
  <1>2. /\ fileSize \in Nat \ {0} /\ ChunkedTypeOK /\ LoopFits /\ UNCHANGED <<fileSize, phase>>
        /\ phase = "loop" /\ b \in Bytes01
        /\ blobFile' = [u \in 0..fileSize-1 |-> IF InRange(i, u) THEN b ELSE blobFile[u]]
        /\ blobFile \in [0..fileSize-1 -> {"hole", "right", "wrong"}]
    BY <1>1, ArriveFacts, ChunkTypes DEF ArriveStep
  <1>3. LoopFits'
    BY <1>1, ArriveLoops
  <1>4. /\ hashed' \in Seq(Bytes01) /\ Len(hashed') <= fileSize
        /\ \A j \in 1..Len(hashed') : hashed'[j] = blobFile'[j - 1]
    BY <1>1, HashedAfter DEF Reached
  <1>5. HashFits'
    BY <1>2, <1>4 DEF HashFits
  <1>6. /\ fetching' \subseteq [offset : 0..fileSize, size : 1..MaxChunk]
        /\ \A k \in 1..Len(unspawned') : unspawned'[k] \in [offset : 0..fileSize, size : 1..MaxChunk]
    BY <1>1, <1>2, TasksAfter DEF ArriveStep
  <1>7. blobFile' \in [0..fileSize-1 -> {"hole", "right", "wrong"}]
    BY <1>2 DEF Bytes01
  <1>8. ChunkedTypeOK'
    BY <1>2, <1>4, <1>6, <1>7 DEF ChunkedTypeOK, Bytes01
  <1> QED BY <1>2, <1>3, <1>5, <1>8 DEF ChunkInv, CommitIsExact

LEMMA ChunkStepsKeep ==
    ASSUME ChunkInv, [ChunkedNext]_chunkVars
    PROVE  ChunkInv'
  <1>1. CASE ChunkedNext
    <2>1. ASSUME NEW r, Arrive(r) \/ ChunkFails(r) \/ WriteFails(r) \/ Abandoned(r)
          PROVE  ChunkInv'
      BY <2>1, ArriveKeeps, ChunkFailsKeeps, WriteFailsKeeps, AbandonedKeeps
    <2> QED BY <1>1, <2>1, FinishKeeps DEF ChunkedNext
  <1>2. CASE UNCHANGED chunkVars
    <2>1. UNCHANGED <<fileSize, unspawned, fetching, buffered, blobFile, hashed, phase>>
      BY <1>2 DEF chunkVars
    <2>2. Ranges' = Ranges /\ Spawned' = Spawned
      BY <2>1 DEF Ranges, Spawned
    <2> QED BY <2>1, <2>2 DEF ChunkInv, ChunkedTypeOK, HashFits, LoopFits, UnspawnedFit,
                              AtRange, ChunkOf, RangeEnd, CommitIsExact
  <1> QED BY <1>1, <1>2

-----------------------------------------------------------------------------
(* The property of chunks.                                                 *)

LEMMA ChunkIn ==
    ASSUME fileSize \in FileSizes, NEW j \in 1..Len(Ranges), NEW bytes \in Bytes01,
           NEW u \in Nat, NEW i \in 1..Len(Ranges), InRange(i, u)
    PROVE  (/\ ChunkOf(j, bytes).offset <= u
            /\ u < ChunkOf(j, bytes).offset + Len(ChunkOf(j, bytes).data)) <=> i = j
  <1>1. ChunkOf(j, bytes).offset = Ranges[j].offset
        /\ Len(ChunkOf(j, bytes).data) = Ranges[j].size
    BY ChunkFacts
  <1>2. InRange(j, u) <=> i = j
    BY OneRange DEF InRange
  <1> QED BY <1>1, <1>2 DEF InRange, RangeEnd

LEMMA NotHashed ==
    ASSUME ChunkedTypeOK, HashFits, LoopFits, NEW u \in Len(hashed) .. fileSize - 1,
           NEW i \in 1..Len(Ranges), InRange(i, u)
    PROVE  ~(Ranges[i].offset < Len(hashed))
  <1>1. fileSize \in FileSizes /\ fileSize \in Nat /\ Len(hashed) \in Nat
    BY ChunkTypes
  <1>2. SUFFICES ASSUME Ranges[i].offset < Len(hashed) PROVE FALSE
    OBVIOUS
  <1>3. Len(hashed) # fileSize /\ Len(hashed) <= u /\ u \in Nat
    BY <1>1
  <1>4. PICK m \in 1..Len(Ranges) : Ranges[m].offset = Len(hashed)
    BY <1>3 DEF LoopFits, AtRange
  <1>5. /\ Len(Ranges) \in Nat /\ Ranges[i].offset \in Nat /\ RangeEnd(i) \in Nat /\ RangeEnd(m) \in Nat
        /\ Ranges[m].offset < RangeEnd(m) /\ u < RangeEnd(i)
    BY <1>1, RangeTypes DEF InRange
  <1>6. CASE i < m
    <2>1. RangeEnd(i) <= Ranges[m].offset
      BY <1>1, <1>6, RangesApart
    <2> QED BY <1>1, <1>3, <1>4, <1>5, <2>1
  <1>7. CASE m < i
    <2>1. RangeEnd(m) <= Ranges[i].offset
      BY <1>1, <1>7, RangesApart
    <2> QED BY <1>1, <1>2, <1>4, <1>5, <2>1
  <1>8. CASE m = i
    BY <1>1, <1>2, <1>4, <1>8
  <1> QED BY <1>5, <1>6, <1>7, <1>8

LEMMA HashFollows == ChunkInv => HashFollowsFile
  <1> SUFFICES ASSUME ChunkInv PROVE HashFollowsFile
    OBVIOUS
  <1>1. /\ fileSize \in FileSizes /\ fileSize \in Nat /\ Len(hashed) \in Nat
        /\ ChunkedTypeOK /\ HashFits /\ Len(hashed) <= fileSize
    BY ChunkTypes DEF ChunkInv, HashFits
  <1>2. \A i \in 1..Len(hashed) : i <= fileSize /\ hashed[i] = blobFile[i - 1]
    BY <1>1 DEF HashFits
  <1>3. ASSUME phase = "loop", NEW u \in Len(hashed) .. fileSize - 1
        PROVE  Cardinality({c \in buffered : c.offset <= u /\ u < c.offset + Len(c.data)})
               + Cardinality({r \in fetching : r.offset <= u /\ u < r.offset + r.size})
               + Cardinality({i \in DOMAIN unspawned :
                                unspawned[i].offset <= u
                                /\ u < unspawned[i].offset + unspawned[i].size}) = 1
    <2> DEFINE B == {c \in buffered : c.offset <= u /\ u < c.offset + Len(c.data)}
               F == {r \in fetching : r.offset <= u /\ u < r.offset + r.size}
               U == {i \in DOMAIN unspawned : unspawned[i].offset <= u
                                              /\ u < unspawned[i].offset + unspawned[i].size}
    <2>1. LoopFits /\ UnspawnedFit
      BY <1>3 DEF ChunkInv, LoopFits
    <2>2. /\ Spawned \in 0..Len(Ranges) /\ Len(Ranges) \in Nat /\ Len(unspawned) \in Nat
          /\ Spawned = Len(Ranges) - Len(unspawned) /\ DOMAIN unspawned = 1..Len(unspawned)
      BY <1>1, <2>1, SpawnedFits, RangeTypes DEF UnspawnedFit, Spawned
    <2>3. u \in 0..fileSize - 1 /\ u \in Nat
      BY <1>1
    <2>4. PICK i \in 1..Len(Ranges) : InRange(i, u)
      BY <1>1, <2>3, SomeRange DEF InRange
    <2>5. \A j \in 1..Len(Ranges) : InRange(j, u) <=> j = i
      BY <1>1, <2>3, <2>4, OneRange DEF InRange
    <2>6. B = {c \in buffered : c.offset = Ranges[i].offset}
      <3> SUFFICES ASSUME NEW c \in buffered
                   PROVE  (c.offset <= u /\ u < c.offset + Len(c.data)) <=> c.offset = Ranges[i].offset
        OBVIOUS
      <3>1. PICK j \in 1..Spawned, bytes \in Bytes01 : c = ChunkOf(j, bytes)
        BY <2>1 DEF LoopFits
      <3>2. j \in 1..Len(Ranges)
        BY <2>2
      <3>3. (c.offset <= u /\ u < c.offset + Len(c.data)) <=> i = j
        BY <1>1, <2>3, <2>4, <3>1, <3>2, ChunkIn
      <3>4. c.offset = Ranges[j].offset
        BY <1>1, <3>1, <3>2, ChunkFacts
      <3>5. Ranges[j].offset = Ranges[i].offset <=> i = j
        BY <1>1, <3>2, RangesDiffer
      <3> QED BY <3>3, <3>4, <3>5
    <2>7. F = fetching \cap {Ranges[i]}
      <3> SUFFICES ASSUME NEW r \in fetching
                   PROVE  (r.offset <= u /\ u < r.offset + r.size) <=> r = Ranges[i]
        OBVIOUS
      <3>1. PICK j \in 1..Spawned : r = Ranges[j]
        BY <2>1 DEF LoopFits
      <3>2. j \in 1..Len(Ranges)
        BY <2>2
      <3>3. (r.offset <= u /\ u < r.offset + r.size) <=> i = j
        BY <2>5, <3>1, <3>2 DEF InRange, RangeEnd
      <3>4. Ranges[j] = Ranges[i] <=> i = j
        BY <1>1, <3>2, RangesDiffer
      <3> QED BY <3>1, <3>3, <3>4
    <2>8. U = {k \in 1..Len(unspawned) : Spawned + k = i}
      <3> SUFFICES ASSUME NEW k \in 1..Len(unspawned)
                   PROVE  (unspawned[k].offset <= u /\ u < unspawned[k].offset + unspawned[k].size)
                             <=> Spawned + k = i
        BY <2>2
      <3>1. unspawned[k] = Ranges[Spawned + k]
        BY <2>1 DEF UnspawnedFit
      <3>2. Spawned + k \in 1..Len(Ranges)
        BY <2>2
      <3> QED BY <2>5, <3>1, <3>2 DEF InRange, RangeEnd
    <2> HIDE DEF B, F, U
    <2>9. Cardinality({}) = 0 /\ \A x : Cardinality({x}) = 1
      BY FS_EmptySet, FS_Singleton
    <2> SUFFICES Cardinality(B) + Cardinality(F) + Cardinality(U) = 1
      BY DEF B, F, U
    <2>10. CASE ~(i <= Spawned)
      <3>1. U = {i - Spawned}
        <4>1. i - Spawned \in 1..Len(unspawned) /\ Spawned + (i - Spawned) = i
          BY <2>2, <2>10
        <4>2. \A k \in 1..Len(unspawned) : Spawned + k = i => k = i - Spawned
          BY <2>2
        <4> QED BY <2>8, <4>1, <4>2
      <3>2. \A j \in 1..Spawned : j \in 1..Len(Ranges) /\ j # i
        BY <2>2, <2>10
      <3>3. F = {}
        <4>1. ASSUME Ranges[i] \in fetching PROVE FALSE
          <5>1. PICK j \in 1..Spawned : Ranges[i] = Ranges[j]
            BY <2>1, <4>1 DEF LoopFits
          <5> QED BY <1>1, <3>2, <5>1, RangesDiffer
        <4> QED BY <2>7, <4>1
      <3>4. B = {}
        <4>1. ASSUME NEW c \in buffered, c.offset = Ranges[i].offset PROVE FALSE
          <5>1. PICK j \in 1..Spawned, bytes \in Bytes01 : c = ChunkOf(j, bytes)
            BY <2>1 DEF LoopFits
          <5>2. c.offset = Ranges[j].offset
            BY <1>1, <3>2, <5>1, ChunkFacts
          <5> QED BY <1>1, <3>2, <4>1, <5>2, RangesDiffer
        <4> QED BY <2>6, <4>1
      <3>5. Cardinality(B) = 0 /\ Cardinality(F) = 0 /\ Cardinality(U) = 1
        BY <2>9, <3>1, <3>3, <3>4
      <3> QED BY <3>5
    <2>11. CASE i <= Spawned
      <3>1. U = {}
        BY <2>2, <2>8, <2>11
      <3>2. ~(Ranges[i].offset < Len(hashed)) /\ i \in 1..Spawned
        BY <1>1, <2>1, <2>2, <2>4, <2>11, NotHashed
      <3>3. Ranges[i] \in fetching \/ \E c \in buffered : c.offset = Ranges[i].offset
        BY <2>1, <3>2 DEF LoopFits
      <3>4. Ranges[i] \in fetching => \A c \in buffered : c.offset # Ranges[i].offset
        BY <2>1 DEF LoopFits
      <3>5. \A c, d \in buffered : c.offset = d.offset => c = d
        BY <2>1 DEF LoopFits
      <3>6. CASE Ranges[i] \in fetching
        <4>1. F = {Ranges[i]} /\ B = {}
          BY <2>6, <2>7, <3>4, <3>6
        <4>2. Cardinality(B) = 0 /\ Cardinality(F) = 1 /\ Cardinality(U) = 0
          BY <2>9, <3>1, <4>1
        <4> QED BY <4>2
      <3>7. CASE Ranges[i] \notin fetching
        <4>1. PICK c \in buffered : c.offset = Ranges[i].offset
          BY <3>3, <3>7
        <4>2. F = {} /\ B = {c}
          BY <2>6, <2>7, <3>5, <3>7, <4>1
        <4>3. Cardinality(B) = 1 /\ Cardinality(F) = 0 /\ Cardinality(U) = 0
          BY <2>9, <3>1, <4>2
        <4> QED BY <4>3
      <3> QED BY <3>6, <3>7
    <2> QED BY <2>10, <2>11
  <1> QED BY <1>2, <1>3 DEF HashFollowsFile

-----------------------------------------------------------------------------
(* The index: the order of the suggestions is total, so each place of the  *)
(* ranking has one candidate.                                              *)

LEMMA ProductKeepsOrder ==
    ASSUME NEW x \in Int, NEW y \in Int, NEW z \in Nat \ {0}
    PROVE  (x > y <=> x * z > y * z) /\ (x = y <=> x * z = y * z)
  OBVIOUS

LEMMA FractionsCompare ==
    ASSUME NEW a \in Int, NEW c \in Int, NEW e \in Int,
           NEW b \in Nat \ {0}, NEW d \in Nat \ {0}, NEW f \in Nat \ {0},
           a * d >= c * b, c * f >= e * d
    PROVE  /\ a * f >= e * b
           /\ a * d > c * b \/ c * f > e * d => a * f > e * b
           /\ a * d = c * b /\ c * f = e * d => a * f = e * b
  <1>0. /\ a * d \in Int /\ c * b \in Int /\ c * f \in Int /\ e * d \in Int
        /\ a * f \in Int /\ e * b \in Int
    OBVIOUS
  <1>1. a * d * f >= c * b * f /\ (a * d > c * b => a * d * f > c * b * f)
    BY <1>0, ProductKeepsOrder
  <1>2. c * f * b >= e * d * b /\ (c * f > e * d => c * f * b > e * d * b)
    BY <1>0, ProductKeepsOrder
  <1>3. /\ a * d * f = (a * f) * d /\ c * b * f = c * f * b /\ e * d * b = (e * b) * d
        /\ (a * f) * d \in Int /\ c * f * b \in Int /\ (e * b) * d \in Int
    BY <1>0
  <1>4. (a * f) * d >= (e * b) * d
    BY <1>1, <1>2, <1>3
  <1>5. a * d > c * b \/ c * f > e * d => (a * f) * d > (e * b) * d
    BY <1>1, <1>2, <1>3
  <1>6. a * d = c * b /\ c * f = e * d => (a * f) * d = (e * b) * d
    BY <1>1, <1>2, <1>3
  <1>7. /\ a * f > e * b <=> (a * f) * d > (e * b) * d
        /\ a * f = e * b <=> (a * f) * d = (e * b) * d
    BY <1>0, ProductKeepsOrder
  <1> QED BY <1>0, <1>3, <1>4, <1>5, <1>6, <1>7

LEMMA WordNumbers ==
    ASSUME NEW q \in Queries, NEW w \in Words
    PROVE  /\ Longest(q, w) \in Nat \ {0} /\ DistanceOf[q][w] \in Nat /\ LengthDelta(q, w) \in Nat
           /\ WordRank(w) \in Nat /\ WordOrder[WordRank(w)] = w
  <1>1. LengthOf[q] \in Nat \ {0} /\ LengthOf[w] \in Nat \ {0} /\ DistanceOf[q][w] \in Nat
    BY FormulaIndexAssumption
  <1>2. Longest(q, w) \in Nat \ {0} /\ LengthDelta(q, w) \in Nat
    BY <1>1 DEF Longest, LengthDelta
  <1>3. DOMAIN WordOrder \subseteq Nat /\ \E i \in DOMAIN WordOrder : WordOrder[i] = w
    BY FormulaIndexAssumption DEF ToSet
  <1>4. WordRank(w) \in DOMAIN WordOrder /\ WordOrder[WordRank(w)] = w
    BY <1>3 DEF WordRank
  <1> QED BY <1>1, <1>2, <1>3, <1>4

\* The numbers CloserThan compares.
Share(q, w) == Longest(q, w) - DistanceOf[q][w]

RanksBefore(q, v, w) ==
    \/ DistanceOf[q][v] < DistanceOf[q][w]
    \/ DistanceOf[q][v] = DistanceOf[q][w]
       /\ \/ LengthDelta(q, v) < LengthDelta(q, w)
          \/ LengthDelta(q, v) = LengthDelta(q, w) /\ WordRank(v) < WordRank(w)

LEMMA CloserIs ==
    ASSUME NEW q \in Queries, NEW v \in Words, NEW w \in Words
    PROVE  /\ Share(q, v) \in Int /\ Share(q, w) \in Int
           /\ Share(q, v) * Longest(q, w) \in Int /\ Share(q, w) * Longest(q, v) \in Int
           /\ CloserThan(q, v, w) <=>
                 \/ Share(q, v) * Longest(q, w) > Share(q, w) * Longest(q, v)
                 \/ Share(q, v) * Longest(q, w) = Share(q, w) * Longest(q, v) /\ RanksBefore(q, v, w)
  <1>1. /\ Longest(q, v) \in Nat \ {0} /\ DistanceOf[q][v] \in Nat
        /\ Longest(q, w) \in Nat \ {0} /\ DistanceOf[q][w] \in Nat
    BY WordNumbers
  <1>2. Share(q, v) \in Int /\ Share(q, w) \in Int
    BY <1>1 DEF Share
  <1>3. Share(q, v) * Longest(q, w) \in Int /\ Share(q, w) * Longest(q, v) \in Int
    BY <1>1, <1>2
  <1>4. CloserThan(q, v, w) <=>
                 \/ Share(q, v) * Longest(q, w) > Share(q, w) * Longest(q, v)
                 \/ Share(q, v) * Longest(q, w) = Share(q, w) * Longest(q, v) /\ RanksBefore(q, v, w)
    BY Zenon DEF CloserThan, Share, RanksBefore
  <1> QED BY <1>2, <1>3, <1>4

\* rank_formula_suggestions compares with a strict and total order.
LEMMA CloserOrders ==
    ASSUME NEW q \in Queries, NEW v \in Words, NEW w \in Words, NEW x \in Words
    PROVE  /\ ~CloserThan(q, v, v)
           /\ v # w => CloserThan(q, v, w) \/ CloserThan(q, w, v)
           /\ CloserThan(q, v, w) /\ CloserThan(q, w, x) => CloserThan(q, v, x)
  <1>1. /\ Longest(q, v) \in Nat \ {0} /\ DistanceOf[q][v] \in Nat /\ LengthDelta(q, v) \in Nat
        /\ WordRank(v) \in Nat /\ WordOrder[WordRank(v)] = v
        /\ Longest(q, w) \in Nat \ {0} /\ DistanceOf[q][w] \in Nat /\ LengthDelta(q, w) \in Nat
        /\ WordRank(w) \in Nat /\ WordOrder[WordRank(w)] = w
        /\ Longest(q, x) \in Nat \ {0} /\ DistanceOf[q][x] \in Nat /\ LengthDelta(q, x) \in Nat
        /\ WordRank(x) \in Nat
    BY WordNumbers
  <1>2. ~RanksBefore(q, v, v)
    BY <1>1 DEF RanksBefore
  <1>3. v # w => RanksBefore(q, v, w) \/ RanksBefore(q, w, v)
    BY <1>1 DEF RanksBefore
  <1>4. RanksBefore(q, v, w) /\ RanksBefore(q, w, x) => RanksBefore(q, v, x)
    BY <1>1 DEF RanksBefore
  <1>5. ~CloserThan(q, v, v)
    BY <1>2, CloserIs
  <1>6. v # w => CloserThan(q, v, w) \/ CloserThan(q, w, v)
    <2> DEFINE m == Share(q, v) * Longest(q, w)
               n == Share(q, w) * Longest(q, v)
    <2>1. m \in Int /\ n \in Int
      BY CloserIs
    <2>2. CloserThan(q, v, w) <=> m > n \/ (m = n /\ RanksBefore(q, v, w))
      BY CloserIs
    <2>3. CloserThan(q, w, v) <=> n > m \/ (n = m /\ RanksBefore(q, w, v))
      BY CloserIs
    <2> HIDE DEF m, n
    <2> QED BY <1>3, <2>1, <2>2, <2>3
  <1>7. CloserThan(q, v, w) /\ CloserThan(q, w, x) => CloserThan(q, v, x)
    <2> SUFFICES ASSUME CloserThan(q, v, w), CloserThan(q, w, x) PROVE CloserThan(q, v, x)
      OBVIOUS
    <2> DEFINE a == Share(q, v)
               b == Longest(q, v)
               c == Share(q, w)
               d == Longest(q, w)
               e == Share(q, x)
               f == Longest(q, x)
    <2>1. /\ a \in Int /\ c \in Int /\ e \in Int
          /\ a * d \in Int /\ c * b \in Int /\ c * f \in Int /\ e * d \in Int
      BY CloserIs
    <2>2. /\ a * d > c * b \/ (a * d = c * b /\ RanksBefore(q, v, w))
          /\ c * f > e * d \/ (c * f = e * d /\ RanksBefore(q, w, x))
          /\ CloserThan(q, v, x) <=> a * f > e * b \/ (a * f = e * b /\ RanksBefore(q, v, x))
      BY CloserIs
    <2>3. b \in Nat \ {0} /\ d \in Nat \ {0} /\ f \in Nat \ {0}
      BY <1>1
    <2> HIDE DEF a, b, c, d, e, f
    <2>4. a * d >= c * b /\ c * f >= e * d
      BY <2>1, <2>2
    <2>5. /\ a * d > c * b \/ c * f > e * d => a * f > e * b
          /\ a * d = c * b /\ c * f = e * d => a * f = e * b
      BY <2>1, <2>3, <2>4, FractionsCompare
    <2> QED BY <1>4, <2>2, <2>5
  <1> QED BY <1>5, <1>6, <1>7

LEMMA WordsFinite == IsFiniteSet(Words)
  <1>1. WordOrder \in Seq(Words) /\ ToSet(WordOrder) = Words
    BY FormulaIndexAssumption
  <1>2. Len(WordOrder) \in Nat /\ WordOrder \in [1..Len(WordOrder) -> Words]
    BY <1>1
  <1>3. \A w \in Words : \E i \in 1..Len(WordOrder) : WordOrder[i] = w
    BY <1>1, <1>2 DEF ToSet
  <1>4. WordOrder \in Surjection(1..Len(WordOrder), Words)
    BY <1>2, <1>3 DEF Surjection
  <1>5. IsFiniteSet(1..Len(WordOrder))
    BY <1>2, FS_Interval
  <1> QED BY <1>4, <1>5, FS_Surjection

Near(q) == {w \in Candidates : Plausible(q, w) /\ Similar(q, w)}

CloserNear(q, w) == {v \in Near(q) : CloserThan(q, v, w)}

\* Each place of the ranking has a candidate.
LEMMA PlacesAreTaken ==
    ASSUME NEW q \in Queries, Candidates \subseteq Words
    PROVE  /\ Cardinality(Near(q)) \in Nat
           /\ \A k \in 1..Cardinality(Near(q)) :
                 \E w \in Near(q) : Cardinality(CloserNear(q, w)) = k - 1
  <1> DEFINE C == Near(q)
             n == Cardinality(C)
             place == [w \in C |-> Cardinality(CloserNear(q, w))]
  <1>1. C \subseteq Words /\ IsFiniteSet(C) /\ n \in Nat
    <2>1. C \subseteq Words
      BY DEF Near
    <2> HIDE DEF C
    <2> QED BY <2>1, WordsFinite, FS_Subset, FS_CardinalityType
  <1>2. \A w \in C : /\ CloserNear(q, w) \subseteq C /\ w \notin CloserNear(q, w)
                     /\ IsFiniteSet(CloserNear(q, w)) /\ Cardinality(CloserNear(q, w)) \in Nat
    <2> TAKE w \in C
    <2>1. CloserNear(q, w) \subseteq C
      BY DEF CloserNear
    <2>2. w \notin CloserNear(q, w)
      BY <1>1, CloserOrders DEF CloserNear
    <2> HIDE DEF C
    <2>3. IsFiniteSet(CloserNear(q, w)) /\ Cardinality(CloserNear(q, w)) \in Nat
      BY <1>1, <2>1, FS_Subset, FS_CardinalityType
    <2> QED BY <2>1, <2>2, <2>3
  <1>3. ASSUME NEW v \in C, NEW w \in C, CloserThan(q, v, w)
        PROVE  Cardinality(CloserNear(q, v)) < Cardinality(CloserNear(q, w))
    <2>1. CloserNear(q, v) \cup {v} \subseteq CloserNear(q, w)
      <3>1. \A x \in C : CloserThan(q, x, v) => CloserThan(q, x, w)
        BY <1>1, <1>3, CloserOrders
      <3> QED BY <1>3, <3>1 DEF CloserNear
    <2> HIDE DEF C
    <2>2. Cardinality(CloserNear(q, v) \cup {v}) = Cardinality(CloserNear(q, v)) + 1
      BY <1>2, FS_AddElement
    <2>3. Cardinality(CloserNear(q, v) \cup {v}) <= Cardinality(CloserNear(q, w))
      BY <1>2, <2>1, FS_Subset
    <2> QED BY <1>2, <2>2, <2>3
  <1>4. ASSUME NEW w \in C PROVE Cardinality(CloserNear(q, w)) \in 0..n - 1
    <2> HIDE DEF C
    <2>1. CloserNear(q, w) \cup {w} \subseteq C
      BY <1>2
    <2>2. Cardinality(CloserNear(q, w) \cup {w}) = Cardinality(CloserNear(q, w)) + 1
      BY <1>2, FS_AddElement
    <2>3. Cardinality(CloserNear(q, w) \cup {w}) <= n
      BY <1>1, <2>1, FS_Subset
    <2> QED BY <1>1, <1>2, <2>2, <2>3
  <1>5. \A v, w \in C : Cardinality(CloserNear(q, v)) = Cardinality(CloserNear(q, w)) => v = w
    <2> SUFFICES ASSUME NEW v \in C, NEW w \in C, v # w
                 PROVE  Cardinality(CloserNear(q, v)) # Cardinality(CloserNear(q, w))
      OBVIOUS
    <2>1. CloserThan(q, v, w) \/ CloserThan(q, w, v)
      BY <1>1, CloserOrders
    <2> QED BY <1>2, <1>3, <2>1
  <1> HIDE DEF C
  <1>6. place \in Injection(C, 0..n - 1)
    BY <1>4, <1>5 DEF Injection, IsInjective
  <1>7. IsFiniteSet(0..n - 1) /\ Cardinality(0..n - 1) = n
    BY <1>1, FS_Interval
  <1>8. place \in Surjection(C, 0..n - 1)
    BY <1>6, <1>7, FS_Injection
  <1>9. \A k \in 1..n : k - 1 \in 0..n - 1
    BY <1>1
  <1>10. \A p \in 0..n - 1 : \E w \in C : place[w] = p
    BY <1>8 DEF Surjection
  <1>11. \A k \in 1..n : \E w \in C : Cardinality(CloserNear(q, w)) = k - 1
    BY <1>9, <1>10
  <1> QED BY <1>1, <1>11 DEF C

-----------------------------------------------------------------------------
(* Looking up in the index.                                                *)

IndexShape ==
    /\ DOMAIN index = {1, 2}
    /\ \A i \in {1, 2} : index[i] \in IndexEntry
    /\ query \in Queries /\ limit \in Nat

IndexInv == FormulaIndexTypeOK /\ SuggestionsResolve

LEMMA IndexHasShape ==
    ASSUME index \in Indexes, query \in Queries, limit \in SuggestLimits
    PROVE  IndexShape
  <1>1. index \in IndexEntry \X IndexEntry
    BY DEF Indexes
  <1>2. DOMAIN index = {1, 2} /\ index[1] \in IndexEntry /\ index[2] \in IndexEntry
    BY <1>1
  <1>3. limit \in Nat
    BY FormulaIndexAssumption
  <1> QED BY <1>2, <1>3 DEF IndexShape

LEMMA NamesAreWords ==
    ASSUME IndexShape, NEW i \in {1, 2}
    PROVE  /\ index[i].name \in Words \cup {Unnamed} /\ AlsoKnownAs(index[i]) \subseteq Words
  BY DEF IndexShape, IndexEntry, AlsoKnownAs

LEMMA CandidatesAreWords ==
    ASSUME IndexShape
    PROVE  Candidates \subseteq Words
  <1> SUFFICES ASSUME NEW w \in Candidates PROVE w \in Words
    OBVIOUS
  <1>1. PICK i \in {1, 2} : w \in {index[i].name} \cup AlsoKnownAs(index[i]) /\ w # Unnamed
    BY DEF Candidates, IndexShape
  <1> QED BY <1>1, NamesAreWords

\* What is suggested is a candidate.
LEMMA SuggestedAreCandidates ==
    ASSUME IndexShape
    PROVE  ToSet(Suggest(query, limit)) \subseteq Candidates
  <1> DEFINE R == Ranked(query)
             n == Cardinality(Near(query))
             m == IF limit < Len(R) THEN limit ELSE Len(R)
  <1>1. /\ query \in Queries /\ limit \in Nat /\ Candidates \subseteq Words
    BY CandidatesAreWords DEF IndexShape
  <1>2. /\ n \in Nat
        /\ \A k \in 1..n : \E w \in Near(query) : Cardinality(CloserNear(query, w)) = k - 1
    BY <1>1, PlacesAreTaken
  <1>3. R = [k \in 1..n |-> CHOOSE w \in Near(query) : Cardinality(CloserNear(query, w)) = k - 1]
    BY Zenon DEF Ranked, Near, CloserNear
  <1> HIDE DEF n, R
  <1>4. \A k \in 1..n : R[k] \in Near(query)
    BY <1>2, <1>3
  <1>5. R \in Seq(Near(query)) /\ Len(R) = n
    BY <1>2, <1>3, <1>4
  <1>6. m \in 0..n /\ m \in Nat
    BY <1>1, <1>2, <1>5
  <1> HIDE DEF m
  <1>7. \A k \in 1..m : R[k] \in Near(query)
    BY <1>2, <1>4, <1>6
  <1>8. SubSeq(R, 1, m) \in Seq(Near(query))
    BY <1>6, <1>7, SubSeqProperties
  <1>9. Suggest(query, limit) = SubSeq(R, 1, m)
    BY DEF Suggest, R, m
  <1>10. ToSet(SubSeq(R, 1, m)) \subseteq Near(query)
    BY <1>8 DEF ToSet
  <1> QED BY <1>9, <1>10 DEF Near

LEMMA FoundResolves ==
    ASSUME IndexShape, NEW w \in Candidates
    PROVE  /\ FoundAs(w) = {} => KnownUnnamed(w)
           /\ FoundAs(w) \subseteq Matches(w)
  <1> DEFINE known == {i \in DOMAIN index : index[i].name # Unnamed /\ w \in AlsoKnownAs(index[i])}
  <1>0. DOMAIN index = {1, 2}
    BY DEF IndexShape
  <1>1. PICK i \in {1, 2} : w \in {index[i].name} \cup AlsoKnownAs(index[i]) /\ w # Unnamed
    BY <1>0 DEF Candidates
  <1>2. Canonical(w) = {index[k].name : k \in {j \in known : \A l \in known : j <= l}}
    BY DEF Canonical
  <1>3. FoundAs(w) = {} => KnownUnnamed(w)
    <2> SUFFICES ASSUME w \notin PublishedNames, ~KnownUnnamed(w) PROVE Canonical(w) # {}
      BY DEF FoundAs
    <2>1. w # index[i].name
      BY <1>0, <1>1 DEF PublishedNames
    <2>2. i \in known
      BY <1>0, <1>1, <2>1 DEF KnownUnnamed
    <2>3. known \subseteq Nat /\ known # {}
      BY <1>0, <2>2
    <2> HIDE DEF known
    <2>4. \E j \in known : \A l \in known : j <= l
      BY <2>3, LeastNatural
    <2> QED BY <1>2, <2>4
  <1>4. FoundAs(w) \subseteq Matches(w)
    <2>1. CASE w \in PublishedNames
      <3>1. PICK k \in DOMAIN index : index[k].name = w
        BY <2>1 DEF PublishedNames
      <3> QED BY <1>1, <2>1, <3>1 DEF FoundAs, Matches
    <2>2. CASE w \notin PublishedNames
      <3>1. FoundAs(w) = Canonical(w)
        BY <2>2 DEF FoundAs
      <3> SUFFICES ASSUME NEW x \in Canonical(w) PROVE x \in Matches(w)
        BY <3>1
      <3>2. PICK k \in known : x = index[k].name
        BY <1>2
      <3> QED BY <3>2 DEF Matches
    <2> QED BY <2>1, <2>2
  <1> QED BY <1>3, <1>4

LEMMA FoundAreWords ==
    ASSUME IndexShape, NEW w
    PROVE  FoundAs(w) \subseteq Words
  <1>0. DOMAIN index = {1, 2}
    BY DEF IndexShape
  <1>1. \A i \in DOMAIN index : index[i].name # Unnamed => index[i].name \in Words
    BY <1>0, NamesAreWords
  <1>2. PublishedNames \subseteq Words
    BY <1>1 DEF PublishedNames
  <1>3. Canonical(w) \subseteq Words
    BY <1>1 DEF Canonical
  <1> QED BY <1>2, <1>3 DEF FoundAs

LEMMA IndexStarts == index \in Indexes /\ query \in Queries /\ limit \in SuggestLimits
                     /\ reply = NoReply => IndexInv
  BY DEF IndexInv, FormulaIndexTypeOK, SuggestionsResolve, NoReply, ToSet

LEMMA IndexStepsKeep ==
    ASSUME IndexInv, [LookUp]_indexVars
    PROVE  IndexInv'
  <1>0. /\ index \in Indexes /\ query \in Queries /\ limit \in SuggestLimits
        /\ reply.found \subseteq Words /\ ToSet(reply.suggested) \subseteq Words
        /\ SuggestionsResolve
    BY DEF IndexInv, FormulaIndexTypeOK
  <1>1. CASE LookUp
    <2>1. /\ UNCHANGED <<index, query, limit>>
          /\ reply'.found = FoundAs(query)
          /\ reply'.suggested = IF FoundAs(query) = {} THEN Suggest(query, limit) ELSE <<>>
      BY <1>1 DEF LookUp
    <2>2. IndexShape
      BY <1>0, IndexHasShape
    <2>3. ToSet(reply'.suggested) \subseteq Candidates
      <3>1. ToSet(<<>>) = {}
        BY DEF ToSet
      <3> QED BY <2>1, <2>2, <3>1, SuggestedAreCandidates
    <2>4. FormulaIndexTypeOK'
      BY <1>0, <2>1, <2>2, <2>3, FoundAreWords, CandidatesAreWords DEF FormulaIndexTypeOK
    <2>5. ASSUME NEW w PROVE /\ FoundAs(w)' = FoundAs(w) /\ KnownUnnamed(w)' = KnownUnnamed(w)
                             /\ Matches(w)' = Matches(w)
      BY <2>1 DEF FoundAs, PublishedNames, Canonical, KnownUnnamed, Matches
    <2>6. SuggestionsResolve'
      BY <2>2, <2>3, <2>5, FoundResolves DEF SuggestionsResolve
    <2> QED BY <2>4, <2>6 DEF IndexInv
  <1>2. CASE UNCHANGED indexVars
    <2>1. index' = index /\ query' = query /\ limit' = limit /\ reply' = reply
      BY <1>2 DEF indexVars
    <2>2. FormulaIndexTypeOK'
      BY <1>0, <2>1 DEF FormulaIndexTypeOK
    <2>3. ASSUME NEW w PROVE /\ FoundAs(w)' = FoundAs(w) /\ KnownUnnamed(w)' = KnownUnnamed(w)
                             /\ Matches(w)' = Matches(w)
      BY <2>1 DEF FoundAs, PublishedNames, Canonical, KnownUnnamed, Matches
    <2>4. SuggestionsResolve'
      BY <1>0, <2>1, <2>3 DEF SuggestionsResolve
    <2> QED BY <2>2, <2>4 DEF IndexInv
  <1> QED BY <1>1, <1>2

-----------------------------------------------------------------------------
(* The sum.                                                                *)

NetworkInv == TokenInv /\ ApiInv /\ TapInv /\ ChunkInv /\ IndexInv

LEMMA NetworkStarts == NetworkInit => NetworkInv
  <1> SUFFICES ASSUME NetworkInit PROVE NetworkInv
    OBVIOUS
  <1>1. TokenInit /\ ApiInit /\ ChunkedInit /\ TapLookupInit /\ FormulaIndexInit
    BY DEF NetworkInit, ChunkedRests, TapLookupRests, FormulaIndexRests
  <1>2. IndexInv
    BY <1>1, IndexStarts DEF FormulaIndexInit
  <1> QED BY <1>1, <1>2, TokenStarts, ApiStarts, TapStarts, ChunkStarts DEF NetworkInv

\* A step of one component is a stutter of every other one.
LEMMA NetworkSteps ==
    ASSUME [NetworkNext]_networkVars
    PROVE  /\ [TokenNext]_tokenVars /\ [ApiNext]_apiVars /\ [TapLookupNext]_lookupVars
           /\ [ChunkedNext]_chunkVars /\ [LookUp]_indexVars
  BY DEF NetworkNext, networkVars

LEMMA NetworkStepsKeep == NetworkInv /\ [NetworkNext]_networkVars => NetworkInv'
  <1> SUFFICES ASSUME NetworkInv, [NetworkNext]_networkVars PROVE NetworkInv'
    OBVIOUS
  <1>1. TokenInv' /\ ApiInv' /\ TapInv'
    BY NetworkSteps, TokenStepsKeep, ApiStepsKeep, TapStepsKeep DEF NetworkInv
  <1>2. ChunkInv' /\ IndexInv'
    BY NetworkSteps, ChunkStepsKeep, IndexStepsKeep DEF NetworkInv
  <1> QED BY <1>1, <1>2 DEF NetworkInv

\* Each component's invariant holds where the others take steps too.
THEOREM NetworkInductive == NetworkSpec => []NetworkInv
  BY NetworkStarts, NetworkStepsKeep, PTL DEF NetworkSpec

\* The types of all that asks servers: tokens, the API client and its cache, a tap's
\* lookup, chunked downloads and the index of formulas.
THEOREM NetworkTypeCorrect == NetworkSpec => []NetworkTypeOK
  <1>1. NetworkInv => NetworkTypeOK
    BY DEF NetworkInv, NetworkTypeOK, TokenInv, ApiInv, TapInv, ChunkInv, IndexInv
  <1> QED BY <1>1, NetworkInductive, PTL

\* auth.rs and chunked.rs: a request fails only after a fault of its own, where the URL of
\* a chunk tells the scope its token is cached under.  A chunk has as many rounds as its
\* scope has tokens, and each round it loses used one up.
THEOREM TokensCorrect ==
    ASSUME ChunksTellScope
    PROVE  NetworkSpec => []OnlyFaultsFail
  <1>1. NetworkInv => OnlyFaultsFail
    BY DEF NetworkInv, TokenInv, Untroubled, Told, ChunksTellScope, OnlyFaultsFail
  <1> QED BY <1>1, NetworkInductive, PTL

\* cached_get and fetch_formula_rb of api.rs: what a cached row answers is what the
\* server says now, a garbled row is asked for again, and a Ruby file is stored only when
\* its digest was checked, however two processes interleave.
THEOREM AnswersCorrect == NetworkSpec => CachedAnswersHold
  <1>1. NetworkInv /\ [NetworkNext]_networkVars
           => [ReturnsCurrent /\ GarbledRowsHeal /\ RubyRowsAreChecked]_apiVars
    BY NetworkSteps, CachedAnswersStep DEF NetworkInv
  <1> QED BY <1>1, NetworkInductive, PTL DEF NetworkSpec, CachedAnswersHold

\* chunked.rs: in whatever order the chunks of a file arrive, what is hashed is the
\* beginning of the file, every other unit is fetched, buffered or waits, once, and a file
\* that is committed is the file.
THEOREM ChunksCorrect == NetworkSpec => []ChunksAreExact
  <1>1. NetworkInv => ChunksAreExact
    BY HashFollows DEF NetworkInv, ChunkInv, ChunksAreExact
  <1> QED BY <1>1, NetworkInductive, PTL

\* tap_formula.rs and suggest.rs: of a tap's file the answer is the first place that has
\* it, though requests run ahead, and a name that is suggested can be installed.
THEOREM LookUpsCorrect == NetworkSpec => []LookUpsAreRight
  <1>1. NetworkInv => LookUpsAreRight
    BY DEF NetworkInv, TapInv, IndexInv, LookUpsAreRight
  <1> QED BY <1>1, NetworkInductive, PTL

=============================================================================
