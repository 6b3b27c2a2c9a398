------------------------------ MODULE Download ------------------------------
(***************************************************************************)
(* The downloads of one install: the requests of its items, deduplicated   *)
(* by digest (network/download/parallel.rs), each leader trying a chunked  *)
(* download and then racing connections (single.rs, chunked.rs), the blob  *)
(* cache (storage/blob.rs) and the unpacking that discards a blob it finds *)
(* corrupt and asks again (prepare_bottle_item_with_parts).                *)
(*                                                                         *)
(* Requests, connections and chunks are tokio tasks; an action is what a   *)
(* task does between two awaits.  Aborted tasks are gone at once; the      *)
(* chunk tasks nobody aborts go on as strays.  What chunks hold and the    *)
(* order they are hashed in is not in this module.                         *)
(***************************************************************************)
EXTENDS Integers, FiniteSets

CONSTANTS
    Requests,            \* the items that ask for a download
    Shas,                \* digests
    ShaOf,               \* [Requests -> Shas]
    RacingConnections,   \* connections to the primary URL in a race
    Mirrors,             \* mirrors: one more URL and connection each
    NumChunks,           \* chunks of a large file
    MaxConcurrentChunks, \* chunk tasks of one file at a time
    Permits,             \* permits of the global semaphore
    MaxRetries,          \* MAX_CORRUPTION_RETRIES
    Faults,              \* "http": a request, "body": a body, "disk": a local
                         \* write, "unpack": an extraction may fail
    NoRequest

ASSUME DownloadAssumption ==
    /\ ShaOf \in [Requests -> Shas]
    /\ RacingConnections \in Nat \ {0}
    /\ Mirrors \in Nat
    /\ NumChunks \in Nat \ {0}
    /\ MaxConcurrentChunks \in Nat \ {0}
    /\ Permits \in Nat \ {0}
    /\ MaxRetries \in Nat \ {0}
    /\ Faults \subseteq {"http", "body", "disk", "unpack"}
    /\ NoRequest \notin Requests

VARIABLES
    blob,      \* blobs/<sha>.tar.gz: "absent", "good", "bad", or "vouched":
               \* damaged, but of the size and time its verified marker has
    entry,     \* has the store an entry for the digest?
    inflight,  \* the map of download_with_dedup: the leader of a digest
    pc,        \* what each request does next
    result,    \* what a leader will publish, or a follower's message
    url,       \* the URL a chunked attempt is at
    tries,     \* how often the item found its blob corrupt
    chunk,     \* the chunk tasks of a digest
    stray,     \* those of an attempt that ended without aborting them
    conn,      \* the racing connections of a digest
    gate,      \* body_download_gate: the connection that holds it, or 0
    done,      \* the race is won
    permits    \* tasks that hold a permit of the global semaphore

vars == <<blob, entry, inflight, pc, result, url, tries, chunk, stray, conn,
          gate, done, permits>>

Conns  == 1 .. (RacingConnections + Mirrors)
Chunks == 1 .. NumChunks

LeaderSteps == {"verify", "probe", "range", "whole", "chunks", "race", "publish"}
Steps == {"new", "wait", "unpack", "discard", "installed", "failed"} \cup LeaderSteps

ConnStates == {"off", "sleep", "request", "gate", "woken", "check", "permit",
               "body", "announce", "ok", "failed"}
ChunkStates == {"off", "queued", "active", "done"}

ConnTask(s, c)  == <<s, "conn", c>>
ChunkTask(s, k) == <<s, "chunk", k>>
StrayTask(s, k) == <<s, "stray", k>>
Tasks == (Shas \X {"conn"} \X Conns) \cup (Shas \X {"chunk", "stray"} \X Chunks)

Blobs == {"absent", "good", "bad", "vouched"}

TypeOK ==
    /\ blob \in [Shas -> Blobs]
    /\ entry \in [Shas -> BOOLEAN]
    /\ inflight \in [Shas -> Requests \cup {NoRequest}]
    /\ pc \in [Requests -> Steps]
    /\ result \in [Requests -> {"none", "ok", "error"}]
    /\ url \in [Requests -> 0..Mirrors]
    /\ tries \in [Requests -> 0..MaxRetries]
    /\ chunk \in [Shas -> [Chunks -> ChunkStates]]
    /\ stray \in [Shas -> [Chunks -> {"off", "queued", "active"}]]
    /\ conn \in [Shas -> [Conns -> ConnStates]]
    /\ gate \in [Shas -> {0} \cup Conns]
    /\ done \in [Shas -> BOOLEAN]
    /\ permits \in SUBSET Tasks

\* Blobs may be left over from earlier runs, damaged ones too.
Init ==
    /\ blob \in [Shas -> Blobs]
    /\ entry = [s \in Shas |-> FALSE]
    /\ inflight = [s \in Shas |-> NoRequest]
    /\ pc = [r \in Requests |-> "new"]
    /\ result = [r \in Requests |-> "none"]
    /\ url = [r \in Requests |-> 0]
    /\ tries = [r \in Requests |-> 0]
    /\ chunk = [s \in Shas |-> [k \in Chunks |-> "off"]]
    /\ stray = [s \in Shas |-> [k \in Chunks |-> "off"]]
    /\ conn = [s \in Shas |-> [c \in Conns |-> "off"]]
    /\ gate = [s \in Shas |-> 0]
    /\ done = [s \in Shas |-> FALSE]
    /\ permits = {}

Goto(r, step) == pc' = [pc EXCEPT ![r] = step]

\* verified_blob_path: a blob whose marker fits is not hashed again, of others a
\* good one stays and a bad one is removed.
Verified(s) == blob[s] \in {"good", "vouched"}
RemoveBad(s) == blob' = [blob EXCEPT ![s] = IF @ = "bad" THEN "absent" ELSE @]

-----------------------------------------------------------------------------
(* download_with_dedup: the leader of a digest and its followers.          *)

\* Under the mutex of the map: lead, or subscribe to the leader.
Join(r) ==
    LET s == ShaOf[r] IN
    /\ pc[r] = "new"
    /\ IF inflight[s] = NoRequest
       THEN inflight' = [inflight EXCEPT ![s] = r] /\ Goto(r, "verify")
       ELSE UNCHANGED inflight /\ Goto(r, "wait")
    /\ UNCHANGED <<blob, entry, result, url, tries, chunk, conn, gate, done,
                   permits, stray>>

Waiting(s) == {w \in Requests : ShaOf[w] = s /\ pc[w] = "wait" /\ result[w] = "none"}

\* A plausible bug: the leader leaves the map and tells nobody.
PublishForgetsWaiters(r) ==
    /\ pc[r] = "publish"
    /\ inflight' = [inflight EXCEPT ![ShaOf[r]] = NoRequest]
    /\ result' = [result EXCEPT ![r] = "none"]
    /\ Goto(r, IF result[r] = "ok" THEN "unpack" ELSE "failed")
    /\ UNCHANGED <<blob, entry, url, tries, chunk, conn, gate, done, permits, stray>>

\* The leader removes the entry of the map and sends its result, both under
\* the mutex.
Publish(r) ==
    LET s == ShaOf[r] IN
    /\ pc[r] = "publish"
    /\ inflight' = [inflight EXCEPT ![s] = NoRequest]
    /\ result' = [w \in Requests |->
           IF w \in Waiting(s) THEN result[r]
           ELSE IF w = r THEN "none" ELSE result[w]]
    /\ Goto(r, IF result[r] = "ok" THEN "unpack" ELSE "failed")
    /\ UNCHANGED <<blob, entry, url, tries, chunk, conn, gate, done, permits, stray>>

\* A follower receives the leader's result.
Receive(r) ==
    /\ pc[r] = "wait"
    /\ result[r] # "none"
    /\ result' = [result EXCEPT ![r] = "none"]
    /\ Goto(r, IF result[r] = "ok" THEN "unpack" ELSE "failed")
    /\ UNCHANGED <<blob, entry, inflight, url, tries, chunk, conn, gate, done,
                   permits, stray>>

\* The leader's download ends with an answer to publish.
Answer(r, a) == Goto(r, "publish") /\ result' = [result EXCEPT ![r] = a]

-----------------------------------------------------------------------------
(* download_with_progress and download_with_racing.                        *)

\* A plausible bug: a blob that is there is taken unverified.
VerifyTrustsFile(r) ==
    LET s == ShaOf[r] IN
    /\ pc[r] = "verify"
    /\ IF blob[s] # "absent" THEN Answer(r, "ok")
                             ELSE Goto(r, "probe") /\ UNCHANGED result
    /\ UNCHANGED <<blob, entry, inflight, url, tries, chunk, conn, gate, done,
                   permits, stray>>

\* The cached blob, if its digest matches, ends the download.
Verify(r) ==
    LET s == ShaOf[r] IN
    /\ pc[r] = "verify"
    /\ RemoveBad(s)
    /\ IF Verified(s) THEN Answer(r, "ok")
                      ELSE Goto(r, "probe") /\ UNCHANGED result
    /\ UNCHANGED <<entry, inflight, url, tries, chunk, conn, gate, done, permits, stray>>

\* The connections are spawned; they start 200 ms apart.
StartRace(r) ==
    LET s == ShaOf[r] IN
    /\ Goto(r, "race")
    /\ conn' = [conn EXCEPT ![s] = [c \in Conns |-> "sleep"]]
    /\ gate' = [gate EXCEPT ![s] = 0]
    /\ done' = [done EXCEPT ![s] = FALSE]

\* The HEAD request: a large file with ranges is downloaded in chunks.
Probe(r) ==
    /\ pc[r] = "probe"
    /\ \/ /\ Goto(r, "range")
          /\ url' = [url EXCEPT ![r] = 0]
          /\ UNCHANGED <<conn, gate, done>>
       \/ StartRace(r) /\ UNCHANGED url
    /\ UNCHANGED <<blob, entry, inflight, result, tries, chunk, permits, stray>>

\* A plausible bug: one URL more than there are.
OtherUrlOffByOne(r) ==
    IF url[r] <= Mirrors
    THEN /\ url' = [url EXCEPT ![r] = @ + 1]
         /\ Goto(r, "range")
         /\ UNCHANGED <<conn, gate, done>>
    ELSE StartRace(r) /\ UNCHANGED url

\* After a chunked attempt the next URL is tried, or the race starts.
OtherUrl(r) ==
    IF url[r] < Mirrors
    THEN /\ url' = [url EXCEPT ![r] = @ + 1]
         /\ Goto(r, "range")
         /\ UNCHANGED <<conn, gate, done>>
    ELSE StartRace(r) /\ UNCHANGED url

ChunksOff(s) == chunk' = [chunk EXCEPT ![s] = [k \in Chunks |-> "off"]]
ChunkPermitsOf(s) == {t \in permits : t[1] = s /\ t[2] = "chunk"}

\* A chunked attempt fails: its tasks are aborted.
NextUrl(r) ==
    /\ ChunksOff(ShaOf[r])
    /\ permits' = permits \ ChunkPermitsOf(ShaOf[r])
    /\ OtherUrl(r)

\* validate_range_support: the chunks start, or the server has no ranges and
\* one response is read as a whole, or the request fails.
ValidateRange(r) ==
    LET s == ShaOf[r] IN
    /\ pc[r] = "range"
    /\ \/ /\ chunk' = [chunk EXCEPT ![s] = [k \in Chunks |->
                 IF k <= MaxConcurrentChunks THEN "queued" ELSE "off"]]
          /\ Goto(r, "chunks")
          /\ UNCHANGED <<url, conn, gate, done, permits>>
       \/ /\ Goto(r, "whole")
          /\ UNCHANGED <<url, chunk, conn, gate, done, permits>>
       \/ "http" \in Faults /\ NextUrl(r)
    /\ UNCHANGED <<blob, entry, inflight, result, tries, stray>>

\* download_response_internal without a permit, for a server without ranges.
Whole(r) ==
    /\ pc[r] = "whole"
    /\ \/ /\ blob' = [blob EXCEPT ![ShaOf[r]] = "good"]
          /\ Answer(r, "ok")
          /\ UNCHANGED <<url, chunk, conn, gate, done, permits>>
       \/ /\ Faults \cap {"http", "body"} # {}
          /\ NextUrl(r)
          /\ UNCHANGED <<blob, result>>
    /\ UNCHANGED <<entry, inflight, tries, stray>>

RoomForOne == Cardinality(permits) < Permits

ChunkStart(s, k) ==
    /\ chunk[s][k] = "queued"
    /\ RoomForOne
    /\ permits' = permits \cup {ChunkTask(s, k)}
    /\ chunk' = [chunk EXCEPT ![s][k] = "active"]
    /\ UNCHANGED <<blob, entry, inflight, pc, result, url, tries, conn, gate, done, stray>>

\* A chunk is there: its task ends, and the next chunk not yet spawned is.
AfterChunk(s, k) ==
    [j \in Chunks |->
        IF j = k THEN "done"
        ELSE IF chunk[s][j] = "off" /\ \A i \in Chunks : i < j => chunk[s][i] # "off"
             THEN "queued" ELSE chunk[s][j]]

ChunkDone(r, k) ==
    LET s == ShaOf[r] IN
    /\ pc[r] = "chunks"
    /\ chunk[s][k] = "active"
    /\ permits' = permits \ {ChunkTask(s, k)}
    /\ chunk' = [chunk EXCEPT ![s] = AfterChunk(s, k)]
    /\ UNCHANGED <<blob, entry, inflight, pc, result, url, tries, conn, gate, done, stray>>

\* A chunk fails after its retries: the other tasks are aborted.
ChunkFail(r, k) ==
    /\ pc[r] = "chunks"
    /\ chunk[ShaOf[r]][k] = "active"
    /\ Faults \cap {"http", "body"} # {}
    /\ NextUrl(r)
    /\ UNCHANGED <<blob, entry, inflight, result, tries, stray>>

\* Bound: a digest has the strays of one attempt at a time.
StraysGone(s) == \A k \in Chunks : stray[s][k] = "off"

\* A chunk that arrived cannot be written: the attempt ends, its other tasks are
\* not aborted and go on, with the permits they hold or wait for.
ChunkNotWritten(r, k) ==
    LET s == ShaOf[r]
        left == [j \in Chunks |-> IF AfterChunk(s, k)[j] = "done" THEN "off"
                                  ELSE AfterChunk(s, k)[j]] IN
    /\ pc[r] = "chunks"
    /\ chunk[s][k] = "active"
    /\ "disk" \in Faults
    /\ StraysGone(s)
    /\ stray' = [stray EXCEPT ![s] = left]
    /\ ChunksOff(s)
    /\ permits' = (permits \ ChunkPermitsOf(s))
                     \cup {StrayTask(s, j) : j \in {i \in Chunks : left[i] = "active"}}
    /\ OtherUrl(r)
    /\ UNCHANGED <<blob, entry, inflight, result, tries>>

\* A stray gets a permit; its body ends, to no one, and the permit is dropped.
StrayStart(s, k) ==
    /\ stray[s][k] = "queued"
    /\ RoomForOne
    /\ permits' = permits \cup {StrayTask(s, k)}
    /\ stray' = [stray EXCEPT ![s][k] = "active"]
    /\ UNCHANGED <<blob, entry, inflight, pc, result, url, tries, chunk, conn, gate, done>>

StrayEnds(s, k) ==
    /\ stray[s][k] = "active"
    /\ permits' = permits \ {StrayTask(s, k)}
    /\ stray' = [stray EXCEPT ![s][k] = "off"]
    /\ UNCHANGED <<blob, entry, inflight, pc, result, url, tries, chunk, conn, gate, done>>

\* Every chunk is written and hashed: commit, or the digest does not match.
ChunkCommit(r) ==
    LET s == ShaOf[r] IN
    /\ pc[r] = "chunks"
    /\ \A k \in Chunks : chunk[s][k] = "done"
    /\ \/ /\ blob' = [blob EXCEPT ![s] = "good"]
          /\ Answer(r, "ok")
          /\ ChunksOff(s)
          /\ UNCHANGED <<url, conn, gate, done, permits>>
       \/ /\ "body" \in Faults
          /\ NextUrl(r)
          /\ UNCHANGED <<blob, result>>
    /\ UNCHANGED <<entry, inflight, tries, stray>>

-----------------------------------------------------------------------------
(* A racing connection.                                                    *)

ConnUnchanged == UNCHANGED <<entry, inflight, pc, result, url, tries, chunk, stray>>

SetConn(s, c, state) == conn' = [conn EXCEPT ![s][c] = state]

\* The task of the connection ends: what it holds is dropped.
EndConn(s, c, state) ==
    /\ SetConn(s, c, state)
    /\ gate' = [gate EXCEPT ![s] = IF @ = c THEN 0 ELSE @]
    /\ permits' = permits \ {ConnTask(s, c)}

\* After its delay: over, cached, or on with the request.
ConnStart(s, c) ==
    /\ conn[s][c] = "sleep"
    /\ IF done[s]
       THEN SetConn(s, c, "failed") /\ UNCHANGED blob
       ELSE /\ RemoveBad(s)
            /\ SetConn(s, c, IF Verified(s) THEN "announce" ELSE "request")
    /\ UNCHANGED <<gate, done, permits>>
    /\ ConnUnchanged

\* fetch_download_response_internal, with its retries.
ConnRequest(s, c) ==
    /\ conn[s][c] = "request"
    /\ \/ SetConn(s, c, "gate")
       \/ "http" \in Faults /\ SetConn(s, c, "failed")
    /\ UNCHANGED <<blob, gate, done, permits>>
    /\ ConnUnchanged

\* A plausible bug: a racer does not wait for its turn to write.
ConnIgnoresGate(s, c) ==
    /\ conn[s][c] \in {"gate", "woken"}
    /\ SetConn(s, c, "check")
    /\ gate' = [gate EXCEPT ![s] = c]
    /\ UNCHANGED <<blob, done, permits>>
    /\ ConnUnchanged

\* select!: the gate, or the notification of a winner.
ConnGate(s, c) ==
    /\ \/ /\ conn[s][c] \in {"gate", "woken"}
          /\ gate[s] = 0
          /\ gate' = [gate EXCEPT ![s] = c]
          /\ SetConn(s, c, "check")
       \/ /\ conn[s][c] = "woken"
          /\ SetConn(s, c, "failed")
          /\ UNCHANGED gate
    /\ UNCHANGED <<blob, done, permits>>
    /\ ConnUnchanged

\* Holding the gate, it looks again.
ConnCheck(s, c) ==
    /\ conn[s][c] = "check"
    /\ IF done[s]
       THEN EndConn(s, c, "failed") /\ UNCHANGED blob
       ELSE /\ RemoveBad(s)
            /\ SetConn(s, c, IF Verified(s) THEN "announce" ELSE "permit")
            /\ UNCHANGED <<gate, permits>>
    /\ UNCHANGED done
    /\ ConnUnchanged

ConnPermit(s, c) ==
    /\ conn[s][c] = "permit"
    /\ RoomForOne
    /\ permits' = permits \cup {ConnTask(s, c)}
    /\ SetConn(s, c, "body")
    /\ UNCHANGED <<blob, gate, done>>
    /\ ConnUnchanged

\* A plausible bug: the permit is not given back.
ConnBodyKeepsPermit(s, c) ==
    /\ conn[s][c] = "body"
    /\ \/ /\ blob' = [blob EXCEPT ![s] = "good"]
          /\ SetConn(s, c, "announce")
          /\ UNCHANGED <<gate, permits>>
       \/ /\ "body" \in Faults
          /\ SetConn(s, c, "failed")
          /\ gate' = [gate EXCEPT ![s] = 0]
          /\ UNCHANGED <<blob, permits>>
    /\ UNCHANGED done
    /\ ConnUnchanged

\* A plausible bug: the writer's gate is not given back.
ConnBodyKeepsGate(s, c) ==
    /\ conn[s][c] = "body"
    /\ \/ /\ blob' = [blob EXCEPT ![s] = "good"]
          /\ SetConn(s, c, "announce")
          /\ UNCHANGED <<gate, permits>>
       \/ /\ "body" \in Faults
          /\ SetConn(s, c, "failed")
          /\ permits' = permits \ {ConnTask(s, c)}
          /\ UNCHANGED <<blob, gate>>
    /\ UNCHANGED done
    /\ ConnUnchanged

\* download_response_internal: the blob is committed once its digest matches.
ConnBody(s, c) ==
    /\ conn[s][c] = "body"
    /\ \/ /\ blob' = [blob EXCEPT ![s] = "good"]
          /\ SetConn(s, c, "announce")
          /\ UNCHANGED <<gate, permits>>
       \/ /\ "body" \in Faults
          /\ EndConn(s, c, "failed")
          /\ UNCHANGED blob
    /\ UNCHANGED done
    /\ ConnUnchanged

\* done is set and the connections waiting at the gate are notified.
ConnAnnounce(s, c) ==
    /\ conn[s][c] = "announce"
    /\ done' = [done EXCEPT ![s] = TRUE]
    /\ conn' = [conn EXCEPT ![s] = [d \in Conns |->
           IF d = c THEN "ok" ELSE IF @[d] = "gate" THEN "woken" ELSE @[d]]]
    /\ gate' = [gate EXCEPT ![s] = IF @ = c THEN 0 ELSE @]
    /\ permits' = permits \ {ConnTask(s, c)}
    /\ UNCHANGED blob
    /\ ConnUnchanged

\* select_all: the first success aborts the other connections; without one
\* the last error is the result.
EndRace(r) ==
    LET s == ShaOf[r] IN
    /\ pc[r] = "race"
    /\ \/ /\ \E c \in Conns : conn[s][c] = "ok"
          /\ Answer(r, "ok")
       \/ /\ \A c \in Conns : conn[s][c] = "failed"
          /\ Answer(r, "error")
    /\ conn' = [conn EXCEPT ![s] = [c \in Conns |-> "off"]]
    /\ gate' = [gate EXCEPT ![s] = 0]
    /\ permits' = {t \in permits : ~(t[1] = s /\ t[2] = "conn")}
    /\ UNCHANGED <<blob, entry, inflight, url, tries, chunk, done, stray>>

-----------------------------------------------------------------------------
(* The item unpacks the blob it was given.                                 *)

\* ensure_entry: an entry that is there needs no blob.
Unpack(r) ==
    LET s == ShaOf[r] IN
    /\ pc[r] = "unpack"
    /\ \/ /\ entry[s] \/ blob[s] = "good"
          /\ entry' = [entry EXCEPT ![s] = TRUE]
          /\ Goto(r, "installed")
       \/ /\ ~entry[s]
          /\ blob[s] = "good" => "unpack" \in Faults
          /\ Goto(r, "discard")
          /\ UNCHANGED entry
    /\ UNCHANGED <<blob, inflight, result, url, tries, chunk, conn, gate, done,
                   permits, stray>>

\* The blob that could not be unpacked is removed, whoever wrote it, and asked
\* for again, at most MAX_CORRUPTION_RETRIES times.
Discard(r) ==
    /\ pc[r] = "discard"
    /\ blob' = [blob EXCEPT ![ShaOf[r]] = "absent"]
    /\ tries' = [tries EXCEPT ![r] = @ + 1]
    /\ Goto(r, IF tries[r] + 1 < MaxRetries THEN "new" ELSE "failed")
    /\ UNCHANGED <<entry, inflight, result, url, chunk, conn, gate, done, permits, stray>>

Request(r) ==
    \/ Join(r)
    \/ Publish(r)
    \/ Receive(r)
    \/ Verify(r)
    \/ Probe(r)
    \/ ValidateRange(r)
    \/ Whole(r)
    \/ ChunkCommit(r)
    \/ EndRace(r)
    \/ Unpack(r)
    \/ Discard(r)
    \/ \E k \in Chunks : ChunkDone(r, k) \/ ChunkFail(r, k) \/ ChunkNotWritten(r, k)

Task(s) ==
    \/ \E k \in Chunks : ChunkStart(s, k) \/ StrayStart(s, k) \/ StrayEnds(s, k)
    \/ \E c \in Conns :
          \/ ConnStart(s, c)
          \/ ConnRequest(s, c)
          \/ ConnGate(s, c)
          \/ ConnCheck(s, c)
          \/ ConnPermit(s, c)
          \/ ConnBody(s, c)
          \/ ConnAnnounce(s, c)

Next == \/ \E r \in Requests : Request(r)
        \/ \E s \in Shas : Task(s)

Spec == Init /\ [][Next]_vars

\* The runtime runs a ready task whenever there is one, timeouts end every
\* request to a server.
LiveSpec == Spec /\ WF_vars(Next)

-----------------------------------------------------------------------------
(* Properties.                                                             *)

\* The map of download_with_dedup names exactly the requests that download,
\* and a follower still without a result has a leader to wait for: no message
\* is missed, no digest is downloaded by two requests.
MapMatchesLeaders ==
    /\ \A r \in Requests : pc[r] \in LeaderSteps <=> inflight[ShaOf[r]] = r
    /\ \A s \in Shas : Waiting(s) # {} => inflight[s] # NoRequest

\* The permits of the global semaphore are held by tasks that read a body, for a
\* leader or as strays, or have just committed one: aborted and failed tasks
\* leak none.
PermitsHeldByReaders ==
    /\ Cardinality(permits) <= Permits
    /\ \A s \in Shas, k \in Chunks :
          /\ ChunkTask(s, k) \in permits <=> chunk[s][k] = "active"
          /\ StrayTask(s, k) \in permits <=> stray[s][k] = "active"
    /\ \A s \in Shas, c \in Conns :
          /\ conn[s][c] = "body" => ConnTask(s, c) \in permits
          /\ ConnTask(s, c) \in permits => conn[s][c] \in {"body", "announce"}

\* A digest is downloaded once at a time: one connection of a race reads a
\* body, none does while a chunked attempt runs, and one request leads.
OneDownloadPerDigest ==
    /\ \A r, q \in Requests :
          ShaOf[r] = ShaOf[q] /\ pc[r] \in LeaderSteps /\ pc[q] \in LeaderSteps
          => r = q
    /\ \A s \in Shas : \A c, d \in Conns :
          conn[s][c] = "body" /\ conn[s][d] = "body" => c = d
    /\ \A r \in Requests : pc[r] \in {"whole", "chunks"} =>
          \A c \in Conns : conn[ShaOf[r]][c] = "off"

\* A request that is told of a blob finds it, and with the right digest, unless
\* an item with that digest has discarded it since: of the damaged files of the
\* cache only one that its marker still vouches for is handed out.
GoodAnswers ==
    \A r \in Requests :
        pc[r] = "unpack" \/ result[r] = "ok" =>
            \/ blob[ShaOf[r]] \in {"good", "vouched"}
            \/ /\ blob[ShaOf[r]] = "absent"
               /\ \E w \in Requests : ShaOf[w] = ShaOf[r] /\ tries[w] > 0

\* Every item ends, installed or with an error: no connection is left at the
\* gate, no task waits for a permit forever, no follower is forgotten.
EveryItemEnds == <>[](\A r \in Requests : pc[r] \in {"installed", "failed"})

=============================================================================
