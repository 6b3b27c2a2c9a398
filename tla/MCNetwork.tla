----------------------------- MODULE MCNetwork -----------------------------
(***************************************************************************)
(* The components that ask servers, side by side: of each behaviour one    *)
(* component takes the steps, the others rest where they begin.            *)
(***************************************************************************)
EXTENDS TokenCache, ApiClient, ChunkedFile, TapLookup, FormulaIndex, TLC

VARIABLE active

networkVars == <<active, tokenVars, apiVars, chunkVars, lookupVars, indexVars>>

-----------------------------------------------------------------------------
(* The instances.                                                          *)

CONSTANTS g1, g2, s1, d1, d2, r1, r2, r3

\* A plain fetch whose URL tells no scope, and a chunk of a blob of the registry.
MScopeOf == g1 :> NoScope @@ g2 :> s1
MChallengeOf == g1 :> s1 @@ g2 :> s1

\* A formula and two other names of it; one client asks for one of them, another for
\* the formula and its ruby file.
MCanonicalOf == r1 :> r1 @@ r2 :> r1 @@ r3 :> r3
MAsks  == d1 :> {r2} @@ d2 :> {r1, RubyFile}
MStart == [u \in {r1, r2, r3, Index, RubyFile} |-> IF u \in {r2, r3} THEN 0 ELSE 1]

\* A typo, and words nearer and further from it.
MWordOrder == <<"git", "gti", "pgit", "wget">>
MLengthOf  == "git" :> 3 @@ "gti" :> 3 @@ "pgit" :> 4 @@ "wget" :> 4
MDistanceOf ==
    "gti" :> ("git" :> 1 @@ "gti" :> 0 @@ "pgit" :> 2 @@ "wget" :> 3)

-----------------------------------------------------------------------------
(* The sum.                                                                *)

ChunkedRests == fileSize = 1 /\ ChunkedInit
TapLookupRests == plain = TRUE /\ present = {} /\ TapLookupInit
RestingIndex == CHOOSE es \in Indexes : TRUE
FormulaIndexRests ==
    /\ index = RestingIndex
    /\ query = CHOOSE w \in Queries : TRUE
    /\ limit = CHOOSE n \in SuggestLimits : TRUE
    /\ FormulaIndexInit

NetworkInit ==
    /\ active \in {"token", "api", "chunks", "taplookup", "index"}
    /\ TokenInit /\ ApiInit
    /\ IF active = "chunks" THEN ChunkedInit ELSE ChunkedRests
    /\ IF active = "taplookup" THEN TapLookupInit ELSE TapLookupRests
    /\ IF active = "index" THEN FormulaIndexInit ELSE FormulaIndexRests

NetworkNext ==
    \/ /\ active = "token" /\ TokenNext
       /\ UNCHANGED <<active, apiVars, chunkVars, lookupVars, indexVars>>
    \/ /\ active = "api" /\ ApiNext
       /\ UNCHANGED <<active, tokenVars, chunkVars, lookupVars, indexVars>>
    \/ /\ active = "chunks" /\ ChunkedNext
       /\ UNCHANGED <<active, tokenVars, apiVars, lookupVars, indexVars>>
    \/ /\ active = "taplookup" /\ TapLookupNext
       /\ UNCHANGED <<active, tokenVars, apiVars, chunkVars, indexVars>>
    \/ /\ active = "index" /\ LookUp
       /\ UNCHANGED <<active, tokenVars, apiVars, chunkVars, lookupVars>>

\* The component at work has its own fairness; the others take no step.
NetworkSpec ==
    /\ NetworkInit /\ [][NetworkNext]_networkVars
    /\ \A f \in Fetches : WF_tokenVars(active = "token" /\ FetchNext(f))
    /\ \A c \in Clients : WF_apiVars(active = "api" /\ ApiStep(c))
    /\ WF_chunkVars(active = "chunks" /\ ChunkedNext)
    /\ WF_lookupVars(active = "taplookup" /\ TapLookupNext)

\* Every component keeps its types.
NetworkTypeOK ==
    TokenTypeOK /\ ApiTypeOK /\ ChunkedTypeOK /\ TapLookupTypeOK /\ FormulaIndexTypeOK

\* chunked.rs: what is hashed is the file in its order, and a file that is committed is
\* the file.
ChunksAreExact == HashFollowsFile /\ CommitIsExact

\* The look-ups of api.rs: a tap's file is the first there is, and a name that is
\* suggested can be installed.
LookUpsAreRight == TapAnswerIsFirst /\ SuggestionsResolve

\* Every request ends, however servers refuse, fail and change: the retries of auth.rs
\* and chunked.rs, the calls of the API client, the loop over a file's chunks and the
\* search for a tap's file.
CallsEnd ==
    /\ FetchesEnd /\ ApiCallsEnd
    /\ active = "chunks" => <>(phase # "loop")
    /\ active = "taplookup" => <>~Looking
=============================================================================
