----------------------------- MODULE ApiClient -----------------------------
(***************************************************************************)
(* The formula API as processes see it (network/api.rs) through the cache  *)
(* they share (network/cache.rs): conditional requests, the fallback from  *)
(* a missing name to an alias of the bulk index, and the formula files     *)
(* that source builds fetch.                                               *)
(*                                                                         *)
(* Documents have versions; 0 is "no such document".  A body is the        *)
(* version it holds, or Garbled, what a proxy may answer instead of the    *)
(* server.  A row's tag is the version the server tagged the body with,    *)
(* DateOnly (a Last-Modified of the proxy's clock) or NoTag, also a tag    *)
(* the server does not know.                                               *)
(***************************************************************************)
EXTENDS Naturals, FiniteSets

CONSTANTS
    Clients,      \* processes
    FormulaNames, \* names asked for
    CanonicalOf,  \* [FormulaNames -> FormulaNames], aliases in the index
    Asks,         \* the documents a process asks for
    Index,        \* the bulk index
    RubyFile,     \* a formula's ruby file
    Start,        \* the server's documents at first
    Published,    \* the documents that change while the calls run
    MaxVersion,   \* bound on the versions of a document
    ApiFaults     \* "http": errors, "proxy": garbled bodies, "put": the cache
                  \* cannot be written

Urls == FormulaNames \cup {Index, RubyFile}

Garbled  == MaxVersion + 1
DateOnly == MaxVersion + 1
NoTag    == MaxVersion + 2

ASSUME ApiAssumption ==
    /\ CanonicalOf \in [FormulaNames -> FormulaNames]
    /\ Asks \in [Clients -> SUBSET (FormulaNames \cup {RubyFile})]
    /\ Index \notin FormulaNames /\ RubyFile \notin FormulaNames /\ Index # RubyFile
    /\ Published \subseteq {u \in Urls : u \in FormulaNames => CanonicalOf[u] = u}
    /\ Start \in [Urls -> 0..MaxVersion]
    /\ Start[Index] # 0 /\ Start[RubyFile] # 0
    /\ \A n \in FormulaNames : CanonicalOf[n] # n => Start[n] = 0
    /\ MaxVersion \in Nat \ {0}
    /\ ApiFaults \subseteq {"http", "proxy", "put"}

VARIABLES
    world,    \* the documents of the server
    apiCache, \* the table api_cache: [body, tag] or no row
    indexOf,  \* formula_index of a process: loaded?
    request,  \* what each process asks for
    outcome   \* how its last call ended: [kind, body]

apiVars == <<world, apiCache, indexOf, request, outcome>>

Body == 0..Garbled
Tag  == 1..NoTag
NoRow == [body |-> 0, tag |-> NoTag]
Row   == [body : Body, tag : Tag]

Outcomes == {"none", "formula", "file", "missing", "error", "unparsable", "checksum"}

ApiTypeOK ==
    /\ world \in [Urls -> 0..MaxVersion]
    /\ apiCache \in [Urls -> Row]
    /\ indexOf \in [Clients -> BOOLEAN]
    /\ request \in [Clients -> [at : {"idle", "get", "sent", "body"}, name : Urls,
                                url : Urls, seen : Row, got : Row,
                                wanted : 0..MaxVersion, during : SUBSET (0..MaxVersion)]]
    /\ outcome \in [Clients -> [kind : Outcomes, body : Body]]

NoRequest == [at |-> "idle", name |-> Index, url |-> Index, seen |-> NoRow,
              got |-> NoRow, wanted |-> 0, during |-> {}]

ApiInit ==
    /\ world = Start
    /\ apiCache = [u \in Urls |-> NoRow]
    /\ indexOf = [c \in Clients |-> FALSE]
    /\ request = [c \in Clients |-> NoRequest]
    /\ outcome = [c \in Clients |-> [kind |-> "none", body |-> 0]]

End(c, kind, body) ==
    /\ request' = [request EXCEPT ![c] = NoRequest]
    /\ outcome' = [outcome EXCEPT ![c] = [kind |-> kind, body |-> body]]

\* get_formula for a name of the core repository.
GetFormula(c, n) ==
    /\ n \in Asks[c]
    /\ request[c].at = "idle"
    /\ request' = [request EXCEPT ![c] = [NoRequest EXCEPT !.at = "get", !.name = n, !.url = n]]
    /\ outcome' = [outcome EXCEPT ![c] = [kind |-> "none", body |-> 0]]
    /\ UNCHANGED <<world, apiCache, indexOf>>

\* fetch_formula_rb, with the checksum the formula's document gave, or none (0).
GetRubyFile(c, wanted) ==
    /\ RubyFile \in Asks[c]
    /\ request[c].at = "idle"
    /\ request' = [request EXCEPT ![c] = [NoRequest EXCEPT
                     !.at = "get", !.name = RubyFile, !.url = RubyFile, !.wanted = wanted]]
    /\ outcome' = [outcome EXCEPT ![c] = [kind |-> "none", body |-> 0]]
    /\ UNCHANGED <<world, apiCache, indexOf>>

Wanted(c, body) == request[c].wanted \in {0, body}

\* The cache is read and the request sent.  A cached ruby file is not asked for
\* again: it is what was wanted, or an error.
Get(c) ==
    LET row == apiCache[request[c].url] IN
    /\ request[c].at = "get"
    /\ IF request[c].url = RubyFile /\ row # NoRow
       THEN End(c, IF Wanted(c, row.body) THEN "file" ELSE "checksum", row.body)
       ELSE /\ request' = [request EXCEPT ![c].at = "sent",
                                          ![c].seen = row,
                                          ![c].during = {world[request[c].url]}]
            /\ UNCHANGED outcome
    /\ UNCHANGED <<world, apiCache, indexOf>>

\* If-None-Match decides where there is a tag, else If-Modified-Since.
NotModified(c) ==
    /\ request[c].url # RubyFile
    /\ request[c].seen # NoRow
    /\ request[c].seen.tag \in {world[request[c].url], DateOnly}

\* canonical_for_alias on the index, once it is there.
ResolveAlias(c) ==
    LET n == request[c].name IN
    IF CanonicalOf[n] # n
    THEN /\ request' = [request EXCEPT ![c] = [NoRequest EXCEPT
                          !.at = "get", !.name = n, !.url = CanonicalOf[n]]]
         /\ UNCHANGED outcome
    ELSE End(c, "missing", 0)

\* A body of the document at url; for the index, the alias comes next.
Parse(c, body) ==
    IF request[c].url = Index
    THEN IF body = Garbled THEN End(c, "missing", 0) ELSE ResolveAlias(c)
    ELSE End(c, IF body = Garbled THEN "unparsable" ELSE "formula", body)

LoadIndex(c, body) ==
    indexOf' = [indexOf EXCEPT ![c] = @ \/ (request[c].url = Index /\ body # Garbled)]

\* A plausible bug: the answer to a 304 is read from the table again, not kept from
\* before the request.
AnswerFromTable(c) ==
    /\ request[c].at = "sent"
    /\ NotModified(c)
    /\ world[request[c].url] # 0
    /\ Parse(c, apiCache[request[c].url].body)
    /\ LoadIndex(c, apiCache[request[c].url].body)
    /\ UNCHANGED <<world, apiCache>>

\* 304: the body read from the cache before the request.
AnswerNotModified(c) ==
    /\ request[c].at = "sent"
    /\ NotModified(c)
    /\ world[request[c].url] # 0
    /\ Parse(c, request[c].seen.body)
    /\ LoadIndex(c, request[c].seen.body)
    /\ UNCHANGED <<world, apiCache>>

\* 200: the head of the response arrives, the body follows.
AnswerBody(c) ==
    LET u == request[c].url IN
    /\ request[c].at = "sent"
    /\ ~NotModified(c)
    /\ world[u] # 0
    /\ request' = [request EXCEPT ![c].at = "body", ![c].seen = NoRow,
                                  ![c].got = [body |-> world[u], tag |-> world[u]]]
    /\ UNCHANGED <<world, apiCache, indexOf, outcome>>

\* A proxy answers 200 with something else.
AnswerGarbled(c) ==
    /\ request[c].at = "sent"
    /\ "proxy" \in ApiFaults
    /\ \E tag \in {NoTag, DateOnly} :
          request' = [request EXCEPT ![c].at = "body", ![c].seen = NoRow,
                                     ![c].got = [body |-> Garbled, tag |-> tag]]
    /\ UNCHANGED <<world, apiCache, indexOf, outcome>>

\* 404 for the name asked for: the index may know it as an alias.  A missing
\* index, or an index that is not there, leaves the name missing.
AnswerMissing(c) ==
    LET u == request[c].url IN
    /\ request[c].at = "sent"
    /\ world[u] = 0
    /\ IF u # request[c].name THEN End(c, "missing", 0)
       ELSE IF u = RubyFile THEN End(c, "error", 0)
       ELSE IF indexOf[c] THEN ResolveAlias(c)
       ELSE /\ request' = [request EXCEPT ![c] = [NoRequest EXCEPT
                             !.at = "get", !.name = u, !.url = Index]]
            /\ UNCHANGED outcome
    /\ UNCHANGED <<world, apiCache, indexOf>>

\* No answer, a bad status, or a body that breaks off.
AnswerError(c) ==
    /\ request[c].at \in {"sent", "body"}
    /\ "http" \in ApiFaults
    /\ End(c, IF request[c].url = Index THEN "missing" ELSE "error", 0)
    /\ UNCHANGED <<world, apiCache, indexOf>>

Put(u, row) ==
    \/ apiCache' = [apiCache EXCEPT ![u] = row]
    \/ "put" \in ApiFaults /\ UNCHANGED apiCache

\* The body is stored before anyone looks into it.
StoreBody(c) ==
    LET u == request[c].url
        row == request[c].got
    IN
    /\ request[c].at = "body"
    /\ u # RubyFile
    /\ Put(u, row)
    /\ Parse(c, row.body)
    /\ LoadIndex(c, row.body)
    /\ UNCHANGED world

\* A plausible bug: the file is stored before its checksum is looked at.
StoreRubyUnchecked(c) ==
    LET row == request[c].got IN
    /\ request[c].at = "body"
    /\ request[c].url = RubyFile
    /\ Put(RubyFile, [row EXCEPT !.tag = NoTag])
    /\ End(c, IF Wanted(c, row.body) THEN "file" ELSE "checksum", row.body)
    /\ UNCHANGED <<world, indexOf>>

\* A ruby file is checked first, and stored without a validator.
StoreRuby(c) ==
    LET row == request[c].got IN
    /\ request[c].at = "body"
    /\ request[c].url = RubyFile
    /\ IF Wanted(c, row.body)
       THEN /\ Put(RubyFile, [row EXCEPT !.tag = NoTag])
            /\ End(c, "file", row.body)
       ELSE UNCHANGED apiCache /\ End(c, "checksum", row.body)
    /\ UNCHANGED <<world, indexOf>>

\* zb update: clear_cache.
ClearCache(c) ==
    /\ request[c].at = "idle"
    /\ apiCache' = [u \in Urls |-> NoRow]
    /\ indexOf' = [indexOf EXCEPT ![c] = FALSE]
    /\ UNCHANGED <<world, request, outcome>>

\* The server publishes a new version, or a formula appears.  An alias has no
\* document of its own.
Publish(u) ==
    /\ world[u] < MaxVersion
    /\ world' = [world EXCEPT ![u] = @ + 1]
    /\ request' = [c \in Clients |->
          IF request[c].at \in {"sent", "body"} /\ request[c].url = u
          THEN [request[c] EXCEPT !.during = @ \cup {world[u] + 1}] ELSE request[c]]
    /\ UNCHANGED <<apiCache, indexOf, outcome>>

ApiStep(c) ==
    \/ Get(c) \/ AnswerNotModified(c) \/ AnswerBody(c) \/ AnswerGarbled(c)
    \/ AnswerMissing(c) \/ AnswerError(c) \/ StoreBody(c) \/ StoreRuby(c)

ApiNext ==
    \/ \E c \in Clients :
          \/ \E n \in FormulaNames : GetFormula(c, n)
          \/ \E v \in 0..world[RubyFile] : GetRubyFile(c, v)
          \/ ApiStep(c)
          \/ ClearCache(c)
    \/ \E u \in Published : Publish(u)

ApiSpec == ApiInit /\ [][ApiNext]_apiVars

-----------------------------------------------------------------------------
(* Properties.                                                             *)

Ends(c, kind) ==
    request[c].at # "idle" /\ request'[c].at = "idle" /\ outcome'[c].kind = kind

\* A formula a call returns was the server's document at some moment between that
\* request and its answer, whoever wrote the cache since.
ReturnsCurrent ==
    \A c \in Clients : Ends(c, "formula") => outcome'[c].body \in request[c].during

\* A call ends with a body it cannot parse only if a proxy garbled this very answer, or
\* an earlier one and left a row with a date and no tag, which the server keeps
\* confirming: any other garbled row heals with the next call.
GarbledRowsHeal ==
    \A c \in Clients :
       Ends(c, "unparsable") => request[c].got.body = Garbled \/ request[c].seen.tag = DateOnly

\* A ruby file that is kept, which is never asked for again, has the checksum its caller
\* wanted, unless the caller had none.
RubyRowsAreChecked ==
    LET row == apiCache'[RubyFile] IN
    row \notin {apiCache[RubyFile], NoRow} =>
       \E c \in Clients : /\ request[c].at = "body"
                          /\ request[c].url = RubyFile
                          /\ Wanted(c, row.body)

\* cached_get and fetch_formula_rb: what the cache answers is as good as what the server
\* would say, however two processes interleave their reads and writes of it.
CachedAnswersHold ==
    [][ReturnsCurrent /\ GarbledRowsHeal /\ RubyRowsAreChecked]_apiVars

\* Every call of the client ends.
ApiCallsEnd == \A c \in Clients : request[c].at # "idle" ~> request[c].at = "idle"
=============================================================================
