---------------------------- MODULE TokenCache ----------------------------
(***************************************************************************)
(* The bearer tokens of the registry (network/download/auth.rs) and the    *)
(* requests that use them: whole bodies and probes of ranges               *)
(* (fetch_download_response_internal, fetch_range_response_internal) and   *)
(* chunks (download_chunk).  All share one cache, keyed by scope, which    *)
(* keeps a token for 240 seconds; the server keeps it longer, by more than *)
(* a request takes, unless it withdraws it.                                *)
(*                                                                         *)
(* Tokens of a scope are numbered in the order they are issued; the cache  *)
(* holds the last one.                                                     *)
(***************************************************************************)
EXTENDS Naturals, FiniteSets

CONSTANTS
    Fetches,     \* requests
    Scopes,      \* scopes of the registry
    ScopeOf,     \* [Fetches -> Scopes \cup {NoScope}], extract_scope_for_url
    ChallengeOf, \* [Fetches -> Scopes], the scope a 401 names for the URL
    ChunkFetches,\* the requests download_chunk makes
    NoScope,
    MaxChunkRetries,  \* MAX_CHUNK_RETRIES
    MaxTokens,   \* bound on the tokens a scope is ever issued
    NetFaults    \* "status": 429 and 5xx, "send": no answer, "token": the
                 \* token server fails, "revoke": a token is withdrawn

ASSUME TokenAssumption ==
    /\ ScopeOf \in [Fetches -> Scopes \cup {NoScope}]
    /\ ChallengeOf \in [Fetches -> Scopes]
    /\ \A f \in Fetches : ScopeOf[f] # NoScope => ChallengeOf[f] = ScopeOf[f]
    /\ ChunkFetches \subseteq Fetches
    /\ NoScope \notin Scopes
    /\ MaxChunkRetries \in Nat \ {0}
    /\ MaxTokens \in 1..MaxChunkRetries
    /\ NetFaults \subseteq {"status", "send", "token", "revoke"}

VARIABLES
    issued,   \* tokens issued for a scope; the cache holds the last, 0 if none
    aged,     \* how many of them are older than 240 seconds
    accepted, \* tokens the server accepts
    fetch,    \* each request: its step, round, token, and the tokens refused
    trouble   \* requests that met a fault

tokenVars == <<issued, aged, accepted, fetch, trouble>>

Token == Scopes \X (1..MaxTokens)
FetchSteps == {"new", "sent", "challenge", "issue", "resent", "ok", "failed"}

TokenTypeOK ==
    /\ issued \in [Scopes -> 0..MaxTokens]
    /\ aged \in [Scopes -> 0..MaxTokens]
    /\ \A s \in Scopes : aged[s] <= issued[s]
    /\ accepted \in SUBSET Token
    /\ fetch \in [Fetches -> [pc : FetchSteps, attempt : 0..MaxChunkRetries,
                              token : Scopes \X (0..MaxTokens),
                              refused : SUBSET Token]]
    /\ trouble \in SUBSET Fetches

NoToken(f) == <<ChallengeOf[f], 0>>

TokenInit ==
    /\ issued = [s \in Scopes |-> 0]
    /\ aged = [s \in Scopes |-> 0]
    /\ accepted = {}
    /\ fetch = [f \in Fetches |-> [pc |-> "new", attempt |-> 0,
                                   token |-> NoToken(f), refused |-> {}]]
    /\ trouble = {}

To(f, step) == fetch' = [fetch EXCEPT ![f].pc = step]

\* A plausible bug: no expiry.
LookupIgnoresExpiry(s) == <<s, issued[s]>>

\* A cached token is used while it is younger than 240 seconds.
Lookup(s) == <<s, IF issued[s] > aged[s] THEN issued[s] ELSE 0>>

\* get_cached_token_for_url_internal, and the request is sent.
Send(f) ==
    /\ fetch[f].pc = "new"
    /\ fetch' = [fetch EXCEPT
         ![f].pc = "sent",
         ![f].token = IF ScopeOf[f] = NoScope THEN NoToken(f) ELSE Lookup(ScopeOf[f])]
    /\ UNCHANGED <<issued, aged, accepted, trouble>>

GivesUpAt(f) == fetch[f].attempt = MaxChunkRetries

\* The next round of the loop, or the error of the last one.
Again(f) ==
    fetch' = [fetch EXCEPT ![f].pc = IF GivesUpAt(f) THEN "failed" ELSE "new",
                           ![f].attempt = IF GivesUpAt(f) THEN @ ELSE @ + 1]

Succeed(f) ==
    /\ fetch[f].pc \in {"sent", "resent"}
    /\ fetch[f].token \in accepted
    /\ To(f, "ok")
    /\ UNCHANGED <<issued, aged, accepted, trouble>>

\* A request without a good token is refused.
Refuse(f) ==
    /\ fetch[f].pc = "sent"
    /\ fetch[f].token \notin accepted
    /\ fetch' = [fetch EXCEPT ![f].pc = "challenge",
                              ![f].refused = @ \cup ({fetch[f].token} \cap Token)]
    /\ UNCHANGED <<issued, aged, accepted, trouble>>

\* "authentication failed: token was rejected by server"
RefuseAgain(f) ==
    /\ fetch[f].pc = "resent"
    /\ fetch[f].token \notin accepted
    /\ To(f, "failed")
    /\ UNCHANGED <<issued, aged, accepted, trouble>>

\* A plausible bug: a refusal is not counted as a round.
UseTokenUncounted(f, t) ==
    fetch' = [fetch EXCEPT ![f].pc = IF f \in ChunkFetches THEN "new" ELSE "resent",
                           ![f].token = t]

\* With the token of handle_auth_challenge_internal the request goes out again
\* in the same round; a chunk starts its next round.
UseToken(f, t) ==
    IF f \in ChunkFetches THEN Again(f)
    ELSE fetch' = [fetch EXCEPT ![f].pc = "resent", ![f].token = t]

\* fetch_bearer_token_internal looks into the cache first, under the scope the
\* challenge names.
Challenged(f) ==
    LET t == Lookup(ChallengeOf[f]) IN
    /\ fetch[f].pc = "challenge"
    /\ IF t[2] # 0 THEN UseToken(f, t) ELSE To(f, "issue")
    /\ UNCHANGED <<issued, aged, accepted, trouble>>

\* The token server answers, and the cache is written.
Issue(f) ==
    LET s == ChallengeOf[f]
        t == <<s, issued[s] + 1>>
    IN
    /\ fetch[f].pc = "issue"
    /\ issued[s] < MaxTokens
    /\ issued' = [issued EXCEPT ![s] = @ + 1]
    /\ accepted' = accepted \cup {t}
    /\ UseToken(f, t)
    /\ UNCHANGED <<aged, trouble>>

IssueFails(f) ==
    /\ fetch[f].pc = "issue"
    /\ "token" \in NetFaults \/ issued[ChallengeOf[f]] = MaxTokens
    /\ To(f, "failed")
    /\ trouble' = trouble \cup {f}
    /\ UNCHANGED <<issued, aged, accepted>>

\* 429 and 5xx are tried again with a delay; a chunk takes 429 for final.
BadStatus(f) ==
    /\ "status" \in NetFaults
    /\ fetch[f].pc \in {"sent", "resent"}
    /\ Again(f) \/ (f \in ChunkFetches /\ To(f, "failed"))
    /\ trouble' = trouble \cup {f}
    /\ UNCHANGED <<issued, aged, accepted>>

\* No answer: the loop goes on, but the second request of a challenge is final.
NoAnswer(f) ==
    /\ "send" \in NetFaults
    /\ \/ fetch[f].pc = "sent" /\ Again(f)
       \/ fetch[f].pc = "resent" /\ To(f, "failed")
    /\ trouble' = trouble \cup {f}
    /\ UNCHANGED <<issued, aged, accepted>>

\* Time passes for the oldest tokens.
Age(s) ==
    /\ aged[s] < issued[s]
    /\ aged' = [aged EXCEPT ![s] = @ + 1]
    /\ UNCHANGED <<issued, accepted, fetch, trouble>>

\* The server drops an old token that is in no request on its way ...
Expire ==
    /\ \E t \in accepted :
          /\ t[2] <= aged[t[1]]
          /\ \A f \in Fetches : fetch[f].pc \in {"sent", "resent"} => fetch[f].token # t
          /\ accepted' = accepted \ {t}
    /\ UNCHANGED <<issued, aged, fetch, trouble>>

\* ... or, as a fault, any token.
Revoke ==
    /\ "revoke" \in NetFaults
    /\ \E t \in accepted : accepted' = accepted \ {t}
    /\ trouble' = Fetches
    /\ UNCHANGED <<issued, aged, fetch>>

FetchNext(f) ==
    \/ Send(f) \/ Succeed(f) \/ Refuse(f) \/ RefuseAgain(f) \/ Challenged(f)
    \/ Issue(f) \/ IssueFails(f) \/ BadStatus(f) \/ NoAnswer(f)

TokenNext ==
    \/ \E f \in Fetches : FetchNext(f)
    \/ \E s \in Scopes : Age(s)
    \/ Expire \/ Revoke


-----------------------------------------------------------------------------
(* Properties.                                                             *)

\* A request fails only after a fault: the cache never hands out a token the
\* server has already dropped, and a token that ages under a request, or two
\* requests that fetch tokens at once, cost a round and no more.
OnlyFaultsFail == \A f \in Fetches : fetch[f].pc = "failed" => f \in trouble

\* Every request ends: no order of refusals, errors and fresh tokens keeps the
\* retry loops of auth.rs and chunked.rs going.
FetchesEnd == \A f \in Fetches : fetch[f].pc = "sent" ~> fetch[f].pc \in {"ok", "failed"}
=============================================================================
