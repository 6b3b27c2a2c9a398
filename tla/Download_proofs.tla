--------------------------- MODULE Download_proofs ---------------------------
(***************************************************************************)
(* Proofs about Download, for any requests, digests, connections, chunks,  *)
(* permits and faults.  The inductive invariant is IInv.                   *)
(***************************************************************************)
EXTENDS Download, FiniteSetTheorems, TLAPS

-----------------------------------------------------------------------------
(* Types.                                                                  *)

\* An item that has not failed has not used up its retries.
TriesBounded == \A r \in Requests : pc[r] # "failed" => tries[r] < MaxRetries

LEMMA StepNames ==
    {"new", "wait", "unpack", "discard", "installed", "failed", "verify", "probe",
     "range", "whole", "chunks", "race", "publish"} = Steps
  BY DEF Steps, LeaderSteps

LEMMA ConnNames ==
    {"off", "sleep", "request", "gate", "woken", "check", "permit", "body",
     "announce", "ok", "failed"} = ConnStates
  BY DEF ConnStates

LEMMA GotoType ==
    ASSUME TypeOK, NEW r \in Requests
    PROVE  \A step \in Steps : Goto(r, step) => pc' \in [Requests -> Steps]
  BY DEF TypeOK, Goto

LEMMA SetConnType ==
    ASSUME TypeOK, NEW s \in Shas, NEW c \in Conns
    PROVE  \A x \in ConnStates :
               SetConn(s, c, x) => conn' \in [Shas -> [Conns -> ConnStates]]
  BY DEF TypeOK, SetConn

LEMMA EndConnType ==
    ASSUME TypeOK, NEW s \in Shas, NEW c \in Conns
    PROVE  \A x \in ConnStates : EndConn(s, c, x) =>
               /\ conn' \in [Shas -> [Conns -> ConnStates]]
               /\ gate' \in [Shas -> {0} \cup Conns]
               /\ permits' \in SUBSET Tasks
  <1> SUFFICES ASSUME NEW x \in ConnStates, EndConn(s, c, x)
               PROVE  /\ conn' \in [Shas -> [Conns -> ConnStates]]
                      /\ gate' \in [Shas -> {0} \cup Conns]
                      /\ permits' \in SUBSET Tasks
    OBVIOUS
  <1>1. conn' \in [Shas -> [Conns -> ConnStates]]
    BY SetConnType DEF EndConn
  <1>2. gate' \in [Shas -> {0} \cup Conns]
    BY DEF TypeOK, EndConn
  <1>3. permits' \in SUBSET Tasks
    BY DEF TypeOK, EndConn
  <1> QED BY <1>1, <1>2, <1>3

LEMMA RemoveBadType ==
    ASSUME TypeOK, NEW s \in Shas, RemoveBad(s)
    PROVE  blob' \in [Shas -> Blobs]
  BY DEF TypeOK, RemoveBad, Blobs

LEMMA StartRaceType ==
    ASSUME TypeOK, NEW r \in Requests, StartRace(r)
    PROVE  /\ pc' \in [Requests -> Steps]
           /\ conn' \in [Shas -> [Conns -> ConnStates]]
           /\ gate' \in [Shas -> {0} \cup Conns]
           /\ done' \in [Shas -> BOOLEAN]
  <1>1. pc' \in [Requests -> Steps]
    BY GotoType, StepNames DEF StartRace
  <1>2. [c \in Conns |-> "sleep"] \in [Conns -> ConnStates]
    BY DEF ConnStates
  <1>3. conn' \in [Shas -> [Conns -> ConnStates]]
    BY <1>2 DEF TypeOK, StartRace
  <1>4. gate' \in [Shas -> {0} \cup Conns] /\ done' \in [Shas -> BOOLEAN]
    BY DEF TypeOK, StartRace
  <1> QED BY <1>1, <1>3, <1>4

LEMMA OtherUrlType ==
    ASSUME TypeOK, NEW r \in Requests, OtherUrl(r)
    PROVE  /\ pc' \in [Requests -> Steps]
           /\ url' \in [Requests -> 0..Mirrors]
           /\ conn' \in [Shas -> [Conns -> ConnStates]]
           /\ gate' \in [Shas -> {0} \cup Conns]
           /\ done' \in [Shas -> BOOLEAN]
  <1>1. CASE url[r] < Mirrors
    <2>1. url' = [url EXCEPT ![r] = url[r] + 1] /\ url[r] \in 0..Mirrors
      BY <1>1 DEF OtherUrl, TypeOK
    <2>2. url[r] + 1 \in 0..Mirrors
      BY <1>1, <2>1, DownloadAssumption
    <2>3. url' \in [Requests -> 0..Mirrors]
      BY <2>1, <2>2 DEF TypeOK
    <2>4. pc' \in [Requests -> Steps]
      BY <1>1, GotoType, StepNames DEF OtherUrl
    <2> QED BY <1>1, <2>3, <2>4 DEF OtherUrl, TypeOK
  <1>2. CASE ~(url[r] < Mirrors)
    BY <1>2, StartRaceType DEF OtherUrl, TypeOK
  <1> QED BY <1>1, <1>2

LEMMA ChunksOffType ==
    ASSUME TypeOK, NEW s \in Shas, ChunksOff(s)
    PROVE  chunk' \in [Shas -> [Chunks -> ChunkStates]]
  <1>1. [k \in Chunks |-> "off"] \in [Chunks -> ChunkStates]
    BY DEF ChunkStates
  <1> QED BY <1>1 DEF TypeOK, ChunksOff

LEMMA NextUrlType ==
    ASSUME TypeOK, NEW r \in Requests, NextUrl(r)
    PROVE  /\ pc' \in [Requests -> Steps]
           /\ url' \in [Requests -> 0..Mirrors]
           /\ chunk' \in [Shas -> [Chunks -> ChunkStates]]
           /\ conn' \in [Shas -> [Conns -> ConnStates]]
           /\ gate' \in [Shas -> {0} \cup Conns]
           /\ done' \in [Shas -> BOOLEAN]
           /\ permits' \in SUBSET Tasks
  <1>1. ShaOf[r] \in Shas
    BY DownloadAssumption
  <1>2. chunk' \in [Shas -> [Chunks -> ChunkStates]]
    BY <1>1, ChunksOffType DEF NextUrl
  <1>3. permits' \in SUBSET Tasks
    BY DEF TypeOK, NextUrl
  <1> QED BY <1>2, <1>3, OtherUrlType DEF NextUrl

LEMMA AfterChunkType ==
    ASSUME TypeOK, NEW s \in Shas, NEW k \in Chunks
    PROVE  AfterChunk(s, k) \in [Chunks -> ChunkStates]
  BY DEF TypeOK, ChunkStates, AfterChunk

\* What a write that fails leaves behind.
LeftBy(s, k) == [j \in Chunks |-> IF AfterChunk(s, k)[j] = "done" THEN "off"
                                  ELSE AfterChunk(s, k)[j]]

LEMMA LeftByAt ==
    ASSUME TypeOK, NEW s \in Shas, NEW k \in Chunks
    PROVE  /\ LeftBy(s, k) \in [Chunks -> {"off", "queued", "active"}]
           /\ \A j \in Chunks : LeftBy(s, k)[j] = "active" => chunk[s][j] = "active"
  <1>1. \A j \in Chunks : AfterChunk(s, k)[j] = "active" => chunk[s][j] = "active"
    BY DEF AfterChunk
  <1>2. AfterChunk(s, k) \in [Chunks -> ChunkStates]
    BY AfterChunkType
  <1> QED BY <1>1, <1>2 DEF LeftBy, ChunkStates

\* What such a step does.
LEMMA NotWrittenAt ==
    ASSUME TypeOK, NEW r \in Requests, NEW k \in Chunks, ChunkNotWritten(r, k)
    PROVE  /\ pc[r] = "chunks" /\ ShaOf[r] \in Shas
           /\ StraysGone(ShaOf[r])
           /\ stray' = [stray EXCEPT ![ShaOf[r]] = LeftBy(ShaOf[r], k)]
           /\ ChunksOff(ShaOf[r])
           /\ permits' = (permits \ ChunkPermitsOf(ShaOf[r])) \cup
                  {StrayTask(ShaOf[r], j) :
                      j \in {i \in Chunks : LeftBy(ShaOf[r], k)[i] = "active"}}
           /\ OtherUrl(r)
           /\ UNCHANGED <<blob, entry, inflight, result, tries>>
  BY DownloadAssumption DEF ChunkNotWritten, LeftBy

LEMMA TypeFromNext ==
    ASSUME TypeOK, NEW r \in Requests, NextUrl(r),
           UNCHANGED <<blob, entry, inflight, result, tries, stray>>
    PROVE  TypeOK'
  <1>1. /\ pc' \in [Requests -> Steps]
         /\ url' \in [Requests -> 0..Mirrors]
         /\ chunk' \in [Shas -> [Chunks -> ChunkStates]]
         /\ conn' \in [Shas -> [Conns -> ConnStates]]
         /\ gate' \in [Shas -> {0} \cup Conns]
         /\ done' \in [Shas -> BOOLEAN]
         /\ permits' \in SUBSET Tasks
    BY NextUrlType
  <1> QED BY <1>1 DEF TypeOK

\* Every step keeps the types.
LEMMA TypeStep ==
    ASSUME TypeOK, TriesBounded, [Next]_vars
    PROVE  TypeOK'
<1> USE DownloadAssumption
<1>1. ASSUME NEW r \in Requests, Request(r) PROVE TypeOK'
  <2>0. ShaOf[r] \in Shas OBVIOUS
  <2>1. CASE Join(r)
    <3>1. inflight' \in [Shas -> Requests \cup {NoRequest}]
      BY <2>1, <2>0 DEF TypeOK, Join
    <3>2. pc' \in [Requests -> Steps]
      BY <2>1, <2>0, GotoType, StepNames DEF TypeOK, Join
    <3> QED BY <2>1, <3>1, <3>2 DEF TypeOK, Join
  <2>2. CASE Publish(r)
    <3>1. inflight' \in [Shas -> Requests \cup {NoRequest}]
      BY <2>2, <2>0 DEF TypeOK, Publish, Waiting
    <3>2. result' \in [Requests -> {"none", "ok", "error"}]
      BY <2>2, <2>0 DEF TypeOK, Publish, Waiting
    <3>3. pc' \in [Requests -> Steps]
      BY <2>2, <2>0, GotoType, StepNames DEF TypeOK, Publish, Waiting
    <3> QED BY <2>2, <3>1, <3>2, <3>3 DEF TypeOK, Publish, Waiting
  <2>3. CASE Receive(r)
    <3>1. result' \in [Requests -> {"none", "ok", "error"}]
      BY <2>3, <2>0 DEF TypeOK, Receive
    <3>2. pc' \in [Requests -> Steps]
      BY <2>3, <2>0, GotoType, StepNames DEF TypeOK, Receive
    <3> QED BY <2>3, <3>1, <3>2 DEF TypeOK, Receive
  <2>4. CASE Verify(r)
    <3>1. blob' \in [Shas -> Blobs]
      BY <2>4, <2>0 DEF Blobs, TypeOK, Verify, Answer, RemoveBad, Verified
    <3>2. result' \in [Requests -> {"none", "ok", "error"}]
      BY <2>4, <2>0 DEF TypeOK, Verify, Answer, RemoveBad, Verified
    <3>3. pc' \in [Requests -> Steps]
      BY <2>4, <2>0, GotoType, StepNames DEF TypeOK, Verify, Answer,
        RemoveBad, Verified
    <3> QED BY <2>4, <3>1, <3>2, <3>3 DEF TypeOK, Verify, Answer, RemoveBad,
      Verified
  <2>5. CASE Probe(r)
    <3>1. pc' \in [Requests -> Steps]
      BY <2>5, <2>0, GotoType, StepNames, StartRaceType DEF TypeOK, Probe
    <3>2. url' \in [Requests -> 0..Mirrors]
      <4>1. 0 \in 0..Mirrors
        OBVIOUS
      <4> QED BY <2>5, <4>1 DEF TypeOK, Probe
    <3>3. conn' \in [Shas -> [Conns -> ConnStates]]
      BY <2>5, <2>0, StartRaceType DEF TypeOK, Probe
    <3>4. gate' \in [Shas -> {0} \cup Conns]
      BY <2>5, <2>0, StartRaceType DEF TypeOK, Probe
    <3>5. done' \in [Shas -> BOOLEAN]
      BY <2>5, <2>0, StartRaceType DEF TypeOK, Probe
    <3> QED BY <2>5, <3>1, <3>2, <3>3, <3>4, <3>5 DEF TypeOK, Probe
  <2>6. CASE ValidateRange(r)
    <3>1. CASE NextUrl(r)
      BY <2>6, <3>1, NextUrlType, TypeFromNext DEF ValidateRange
    <3>2. CASE /\ Goto(r, "whole")
               /\ UNCHANGED <<url, chunk, conn, gate, done, permits>>
      <4>1. pc' \in [Requests -> Steps]
        BY <3>2, GotoType, StepNames
      <4> QED BY <2>6, <3>2, <4>1 DEF TypeOK, ValidateRange
    <3> DEFINE f == [k \in Chunks |->
                        IF k <= MaxConcurrentChunks THEN "queued" ELSE "off"]
    <3>3. CASE /\ chunk' = [chunk EXCEPT ![ShaOf[r]] = f]
               /\ Goto(r, "chunks")
               /\ UNCHANGED <<url, conn, gate, done, permits>>
      <4>1. f \in [Chunks -> ChunkStates]
        BY DEF ChunkStates
      <4>2. chunk' \in [Shas -> [Chunks -> ChunkStates]]
        <5> HIDE DEF f
        <5> QED BY <2>0, <3>3, <4>1 DEF TypeOK
      <4>3. pc' \in [Requests -> Steps]
        BY <3>3, GotoType, StepNames
      <4> QED BY <2>6, <3>3, <4>2, <4>3 DEF TypeOK, ValidateRange
    <3> QED BY <2>6, <3>1, <3>2, <3>3 DEF ValidateRange
  <2>7. CASE Whole(r)
    <3>1. blob' \in [Shas -> Blobs]
      BY <2>7, <2>0, NextUrlType DEF Blobs, TypeOK, Whole, Answer
    <3>2. result' \in [Requests -> {"none", "ok", "error"}]
      BY <2>7, <2>0, NextUrlType DEF TypeOK, Whole, Answer
    <3>3. pc' \in [Requests -> Steps]
      BY <2>7, <2>0, GotoType, StepNames, NextUrlType DEF TypeOK, Whole,
        Answer
    <3>4. url' \in [Requests -> 0..Mirrors]
      BY <2>7, <2>0, NextUrlType DEF TypeOK, Whole, Answer
    <3>5. chunk' \in [Shas -> [Chunks -> ChunkStates]]
      BY <2>7, <2>0, NextUrlType DEF TypeOK, Whole, Answer, ChunkStates
    <3>6. conn' \in [Shas -> [Conns -> ConnStates]]
      BY <2>7, <2>0, NextUrlType DEF TypeOK, Whole, Answer
    <3>7. gate' \in [Shas -> {0} \cup Conns]
      BY <2>7, <2>0, NextUrlType DEF TypeOK, Whole, Answer
    <3>8. done' \in [Shas -> BOOLEAN]
      BY <2>7, <2>0, NextUrlType DEF TypeOK, Whole, Answer
    <3>9. permits' \in SUBSET Tasks
      BY <2>7, <2>0, NextUrlType DEF TypeOK, Whole, Answer, Tasks, ChunkTask,
        ConnTask
    <3> QED BY <2>7, <3>1, <3>2, <3>3, <3>4, <3>5, <3>6, <3>7, <3>8, <3>9 DEF
      TypeOK, Whole, Answer
  <2>8. CASE ChunkCommit(r)
    <3>1. CASE NextUrl(r) /\ UNCHANGED <<blob, result>>
      BY <2>8, <3>1, NextUrlType, TypeFromNext DEF ChunkCommit
    <3>2. CASE /\ blob' = [blob EXCEPT ![ShaOf[r]] = "good"]
               /\ Answer(r, "ok")
               /\ ChunksOff(ShaOf[r])
               /\ UNCHANGED <<url, conn, gate, done, permits>>
      <4>2. chunk' \in [Shas -> [Chunks -> ChunkStates]]
        BY <2>0, <3>2, ChunksOffType
      <4>3. pc' \in [Requests -> Steps]
        BY <3>2, GotoType, StepNames DEF Answer
      <4>4. blob' \in [Shas -> Blobs]
            /\ result' \in [Requests -> {"none", "ok", "error"}]
        BY <2>0, <3>2 DEF Blobs, TypeOK, Answer
      <4> QED BY <2>8, <3>2, <4>2, <4>3, <4>4 DEF TypeOK, ChunkCommit
    <3> QED BY <2>8, <3>1, <3>2 DEF ChunkCommit
  <2>9. CASE EndRace(r)
    <3>1. pc' \in [Requests -> Steps]
      BY <2>9, <2>0, GotoType, StepNames DEF TypeOK, EndRace, Answer
    <3>2. result' \in [Requests -> {"none", "ok", "error"}]
      BY <2>9, <2>0 DEF TypeOK, EndRace, Answer
    <3>3. conn' \in [Shas -> [Conns -> ConnStates]]
      <4>1. [c \in Conns |-> "off"] \in [Conns -> ConnStates]
        BY DEF ConnStates
      <4> QED BY <2>9, <2>0, <4>1 DEF TypeOK, EndRace
    <3>4. gate' \in [Shas -> {0} \cup Conns]
      BY <2>9, <2>0 DEF TypeOK, EndRace, Answer
    <3>5. permits' \in SUBSET Tasks
      BY <2>9, <2>0 DEF TypeOK, EndRace, Answer, Tasks, ChunkTask, ConnTask
    <3> QED BY <2>9, <3>1, <3>2, <3>3, <3>4, <3>5 DEF TypeOK, EndRace, Answer
  <2>10. CASE Unpack(r)
    <3>1. entry' \in [Shas -> BOOLEAN]
      BY <2>10, <2>0 DEF TypeOK, Unpack
    <3>2. pc' \in [Requests -> Steps]
      BY <2>10, <2>0, GotoType, StepNames DEF TypeOK, Unpack
    <3> QED BY <2>10, <3>1, <3>2 DEF TypeOK, Unpack
  <2>11. CASE Discard(r)
    <3>1. tries[r] \in 0..MaxRetries /\ tries[r] < MaxRetries
      BY <2>11 DEF TypeOK, TriesBounded, Discard
    <3>2. tries[r] + 1 \in 0..MaxRetries
      BY <3>1, DownloadAssumption
    <3>3. tries' \in [Requests -> 0..MaxRetries]
      BY <2>11, <3>2 DEF TypeOK, Discard
    <3>4. pc' \in [Requests -> Steps]
      BY <2>11, GotoType, StepNames DEF Discard
    <3>5. blob' \in [Shas -> Blobs]
      BY <2>11, <2>0 DEF TypeOK, Discard, Blobs
    <3> QED BY <2>11, <2>0, <3>3, <3>4, <3>5 DEF TypeOK, Discard
  <2>12. ASSUME NEW k \in Chunks, ChunkDone(r, k) PROVE TypeOK'
    <3>1. permits' \in SUBSET Tasks
      BY <2>12, <2>0 DEF TypeOK, ChunkDone, Tasks, ChunkTask, ConnTask
    <3>2. chunk' \in [Shas -> [Chunks -> ChunkStates]]
      <4>1. AfterChunk(ShaOf[r], k) \in [Chunks -> ChunkStates]
        BY <2>0, AfterChunkType
      <4> QED BY <2>12, <2>0, <4>1 DEF ChunkDone, TypeOK
    <3> QED BY <2>12, <3>1, <3>2 DEF TypeOK, ChunkDone
  <2>13. ASSUME NEW k \in Chunks, ChunkFail(r, k) PROVE TypeOK'
    BY <2>13, NextUrlType, TypeFromNext DEF ChunkFail
  <2>14. ASSUME NEW k \in Chunks, ChunkNotWritten(r, k) PROVE TypeOK'
    <3>1. chunk' \in [Shas -> [Chunks -> ChunkStates]]
      BY <2>14, NotWrittenAt, ChunksOffType
    <3>2. stray' \in [Shas -> [Chunks -> {"off", "queued", "active"}]]
      <4>1. /\ stray' = [stray EXCEPT ![ShaOf[r]] = LeftBy(ShaOf[r], k)]
            /\ LeftBy(ShaOf[r], k) \in [Chunks -> {"off", "queued", "active"}]
        BY <2>14, <2>0, NotWrittenAt, LeftByAt
      <4> QED BY <2>0, <4>1 DEF TypeOK
    <3>3. permits' \in SUBSET Tasks
      BY <2>14, <2>0, NotWrittenAt DEF TypeOK, Tasks, StrayTask
    <3>4. /\ OtherUrl(r)
          /\ UNCHANGED <<blob, entry, inflight, result, tries>>
      BY <2>14, NotWrittenAt
    <3>5. /\ pc' \in [Requests -> Steps]
          /\ url' \in [Requests -> 0..Mirrors]
          /\ conn' \in [Shas -> [Conns -> ConnStates]]
          /\ gate' \in [Shas -> {0} \cup Conns]
          /\ done' \in [Shas -> BOOLEAN]
      BY <3>4, OtherUrlType
    <3> QED BY <3>1, <3>2, <3>3, <3>4, <3>5 DEF TypeOK
  <2> QED
    BY <1>1, <2>1, <2>2, <2>3, <2>4, <2>5, <2>6, <2>7, <2>8, <2>9, <2>10,
      <2>11, <2>12, <2>13, <2>14 DEF Request
<1>2. ASSUME NEW s \in Shas, Task(s) PROVE TypeOK'
  <2>1. ASSUME NEW k \in Chunks, ChunkStart(s, k) PROVE TypeOK'
    <3>1. permits' \in SUBSET Tasks
      BY <2>1 DEF TypeOK, ChunkStart, Tasks, ChunkTask, ConnTask
    <3>2. chunk' \in [Shas -> [Chunks -> ChunkStates]]
      BY <2>1 DEF TypeOK, ChunkStart, ChunkStates
    <3> QED BY <2>1, <3>1, <3>2 DEF TypeOK, ChunkStart
  <2>2. ASSUME NEW c \in Conns, ConnStart(s, c) PROVE TypeOK'
    <3>1. blob' \in [Shas -> Blobs]
      BY <2>2, RemoveBadType DEF TypeOK, ConnStart
    <3>2. conn' \in [Shas -> [Conns -> ConnStates]]
      BY <2>2, SetConnType, ConnNames DEF TypeOK, ConnStart, ConnUnchanged,
        RemoveBad, Verified
    <3> QED BY <2>2, <3>1, <3>2 DEF TypeOK, ConnStart, ConnUnchanged,
      RemoveBad, Verified
  <2>3. ASSUME NEW c \in Conns, ConnRequest(s, c) PROVE TypeOK'
    <3>1. conn' \in [Shas -> [Conns -> ConnStates]]
      BY <2>3, SetConnType, ConnNames DEF TypeOK, ConnRequest, ConnUnchanged
    <3> QED BY <2>3, <3>1 DEF TypeOK, ConnRequest, ConnUnchanged
  <2>4. ASSUME NEW c \in Conns, ConnGate(s, c) PROVE TypeOK'
    <3>1. gate' \in [Shas -> {0} \cup Conns]
      BY <2>4 DEF TypeOK, ConnGate, ConnUnchanged
    <3>2. conn' \in [Shas -> [Conns -> ConnStates]]
      BY <2>4, SetConnType, ConnNames DEF TypeOK, ConnGate, ConnUnchanged
    <3> QED BY <2>4, <3>1, <3>2 DEF TypeOK, ConnGate, ConnUnchanged
  <2>5. ASSUME NEW c \in Conns, ConnCheck(s, c) PROVE TypeOK'
    <3>1. blob' \in [Shas -> Blobs]
      BY <2>5, RemoveBadType DEF TypeOK, ConnCheck
    <3>2. conn' \in [Shas -> [Conns -> ConnStates]]
      BY <2>5, SetConnType, ConnNames, EndConnType DEF TypeOK, ConnCheck,
        ConnUnchanged, RemoveBad, Verified
    <3>3. gate' \in [Shas -> {0} \cup Conns]
      BY <2>5, EndConnType, ConnNames DEF TypeOK, ConnCheck, ConnUnchanged,
        RemoveBad, Verified
    <3>4. permits' \in SUBSET Tasks
      BY <2>5, EndConnType, ConnNames DEF TypeOK, ConnCheck, ConnUnchanged,
        RemoveBad, Verified, Tasks, ChunkTask, ConnTask
    <3> QED BY <2>5, <3>1, <3>2, <3>3, <3>4 DEF TypeOK, ConnCheck,
      ConnUnchanged, RemoveBad, Verified
  <2>6. ASSUME NEW c \in Conns, ConnPermit(s, c) PROVE TypeOK'
    <3>1. permits' \in SUBSET Tasks
      BY <2>6 DEF TypeOK, ConnPermit, ConnUnchanged, Tasks, ChunkTask,
        ConnTask
    <3>2. conn' \in [Shas -> [Conns -> ConnStates]]
      BY <2>6, SetConnType, ConnNames DEF TypeOK, ConnPermit, ConnUnchanged
    <3> QED BY <2>6, <3>1, <3>2 DEF TypeOK, ConnPermit, ConnUnchanged
  <2>7. ASSUME NEW c \in Conns, ConnBody(s, c) PROVE TypeOK'
    <3>1. blob' \in [Shas -> Blobs]
      BY <2>7, EndConnType, ConnNames DEF Blobs, TypeOK, ConnBody, ConnUnchanged
    <3>2. conn' \in [Shas -> [Conns -> ConnStates]]
      BY <2>7, SetConnType, ConnNames, EndConnType DEF TypeOK, ConnBody,
        ConnUnchanged
    <3>3. gate' \in [Shas -> {0} \cup Conns]
      BY <2>7, EndConnType, ConnNames DEF TypeOK, ConnBody, ConnUnchanged
    <3>4. permits' \in SUBSET Tasks
      BY <2>7, EndConnType, ConnNames DEF TypeOK, ConnBody, ConnUnchanged,
        Tasks, ChunkTask, ConnTask
    <3> QED BY <2>7, <3>1, <3>2, <3>3, <3>4 DEF TypeOK, ConnBody,
      ConnUnchanged
  <2>8. ASSUME NEW c \in Conns, ConnAnnounce(s, c) PROVE TypeOK'
    <3>1. done' \in [Shas -> BOOLEAN]
      BY <2>8 DEF TypeOK, ConnAnnounce, ConnUnchanged
    <3>2. conn' \in [Shas -> [Conns -> ConnStates]]
      <4>1. [d \in Conns |-> IF d = c THEN "ok" ELSE IF conn[s][d] = "gate"
                               THEN "woken" ELSE conn[s][d]] \in [Conns -> ConnStates]
        BY DEF TypeOK, ConnStates
      <4> QED BY <2>8, <4>1 DEF TypeOK, ConnAnnounce
    <3>3. gate' \in [Shas -> {0} \cup Conns]
      BY <2>8 DEF TypeOK, ConnAnnounce, ConnUnchanged
    <3>4. permits' \in SUBSET Tasks
      BY <2>8 DEF TypeOK, ConnAnnounce, ConnUnchanged, Tasks, ChunkTask,
        ConnTask
    <3> QED BY <2>8, <3>1, <3>2, <3>3, <3>4 DEF TypeOK, ConnAnnounce,
      ConnUnchanged
  <2>9. ASSUME NEW k \in Chunks, StrayStart(s, k) PROVE TypeOK'
    <3>1. permits' \in SUBSET Tasks
      BY <2>9 DEF TypeOK, StrayStart, Tasks, StrayTask
    <3>2. stray' \in [Shas -> [Chunks -> {"off", "queued", "active"}]]
      BY <2>9 DEF TypeOK, StrayStart
    <3> QED BY <2>9, <3>1, <3>2 DEF TypeOK, StrayStart
  <2>10. ASSUME NEW k \in Chunks, StrayEnds(s, k) PROVE TypeOK'
    <3>1. permits' \in SUBSET Tasks
      BY <2>10 DEF TypeOK, StrayEnds
    <3>2. stray' \in [Shas -> [Chunks -> {"off", "queued", "active"}]]
      BY <2>10 DEF TypeOK, StrayEnds
    <3> QED BY <2>10, <3>1, <3>2 DEF TypeOK, StrayEnds
  <2> QED
    BY <1>2, <2>1, <2>2, <2>3, <2>4, <2>5, <2>6, <2>7, <2>8, <2>9, <2>10 DEF Task
<1>3. CASE UNCHANGED vars
  BY <1>3 DEF vars, TypeOK
<1> QED BY <1>1, <1>2, <1>3 DEF Next

-----------------------------------------------------------------------------
(* The invariant.                                                          *)

\* A leader that publishes has something to publish.
PublishFits == \A r \in Requests : pc[r] = "publish" => result[r] # "none"

\* Connections and chunks work for a leader that waits for them.
RaceFits ==
    \A s \in Shas, c \in Conns : conn[s][c] # "off" =>
        \E r \in Requests : ShaOf[r] = s /\ pc[r] = "race"

ChunksFit ==
    \A s \in Shas, k \in Chunks : chunk[s][k] # "off" =>
        \E r \in Requests : ShaOf[r] = s /\ pc[r] = "chunks"

GateFits ==
    \A s \in Shas, c \in Conns :
        conn[s][c] \in {"check", "permit", "body"} => gate[s] = c

\* The blob is there, good or vouched for, or an item with the digest has
\* discarded it.
BlobKnown(s) ==
    \/ blob[s] \in {"good", "vouched"}
    \/ blob[s] = "absent" /\ \E w \in Requests : ShaOf[w] = s /\ tries[w] > 0

AnswersFit ==
    /\ \A r \in Requests :
          pc[r] = "unpack" \/ result[r] = "ok" => BlobKnown(ShaOf[r])
    /\ \A s \in Shas, c \in Conns :
          conn[s][c] \in {"announce", "ok"} => BlobKnown(s)

PermitsFit == IsFiniteSet(permits) /\ PermitsHeldByReaders

IInv == /\ TypeOK /\ TriesBounded /\ MapMatchesLeaders /\ PublishFits
        /\ RaceFits /\ ChunksFit /\ GateFits /\ AnswersFit /\ PermitsFit

-----------------------------------------------------------------------------
(* What the helpers of the actions change.                                 *)

LEMMA GotoAt ==
    ASSUME TypeOK, NEW r \in Requests
    PROVE  \A t : Goto(r, t) =>
               \A w \in Requests : pc'[w] = IF w = r THEN t ELSE pc[w]
  BY DEF TypeOK, Goto

LEMMA SetConnAt ==
    ASSUME TypeOK, NEW s \in Shas, NEW c \in Conns
    PROVE  \A x : SetConn(s, c, x) => \A t \in Shas, d \in Conns :
               conn'[t][d] = IF t = s /\ d = c THEN x ELSE conn[t][d]
  BY DEF TypeOK, SetConn

LEMMA EndConnAt ==
    ASSUME TypeOK, NEW s \in Shas, NEW c \in Conns
    PROVE  \A x : EndConn(s, c, x) =>
               /\ \A t \in Shas, d \in Conns :
                     conn'[t][d] = IF t = s /\ d = c THEN x ELSE conn[t][d]
               /\ \A t \in Shas :
                     gate'[t] = IF t = s /\ gate[s] = c THEN 0 ELSE gate[t]
               /\ permits' = permits \ {ConnTask(s, c)}
  <1> SUFFICES ASSUME NEW x, EndConn(s, c, x)
               PROVE  /\ \A t \in Shas, d \in Conns :
                            conn'[t][d] = IF t = s /\ d = c THEN x ELSE conn[t][d]
                      /\ \A t \in Shas :
                            gate'[t] = IF t = s /\ gate[s] = c THEN 0 ELSE gate[t]
                      /\ permits' = permits \ {ConnTask(s, c)}
    OBVIOUS
  <1>1. \A t \in Shas, d \in Conns :
            conn'[t][d] = IF t = s /\ d = c THEN x ELSE conn[t][d]
    BY SetConnAt DEF EndConn
  <1>2. \A t \in Shas : gate'[t] = IF t = s /\ gate[s] = c THEN 0 ELSE gate[t]
    BY DEF TypeOK, EndConn
  <1> QED BY <1>1, <1>2 DEF EndConn

LEMMA StartRaceAt ==
    ASSUME TypeOK, NEW r \in Requests, StartRace(r)
    PROVE  /\ Goto(r, "race")
           /\ \A t \in Shas, d \in Conns :
                 conn'[t][d] = IF t = ShaOf[r] THEN "sleep" ELSE conn[t][d]
           /\ \A t \in Shas : gate'[t] = IF t = ShaOf[r] THEN 0 ELSE gate[t]
  BY DownloadAssumption DEF TypeOK, StartRace

LEMMA NextUrlAt ==
    ASSUME TypeOK, NEW r \in Requests, NextUrl(r)
    PROVE  /\ \A t \in Shas, k \in Chunks :
                 chunk'[t][k] = IF t = ShaOf[r] THEN "off" ELSE chunk[t][k]
           /\ permits' = {t \in permits : ~(t[1] = ShaOf[r] /\ t[2] = "chunk")}
           /\ \/ Goto(r, "range") /\ UNCHANGED <<conn, gate, done>>
              \/ StartRace(r)
  <1>1. \A t \in Shas, k \in Chunks :
            chunk'[t][k] = IF t = ShaOf[r] THEN "off" ELSE chunk[t][k]
    BY DownloadAssumption DEF TypeOK, NextUrl, ChunksOff
  <1>2. permits' = {t \in permits : ~(t[1] = ShaOf[r] /\ t[2] = "chunk")}
    BY DEF NextUrl, ChunkPermitsOf
  <1> QED BY <1>1, <1>2 DEF NextUrl, OtherUrl

LEMMA OtherUrlAt ==
    ASSUME TypeOK, NEW r \in Requests, OtherUrl(r)
    PROVE  \/ Goto(r, "range") /\ UNCHANGED <<conn, gate, done>>
           \/ StartRace(r)
  BY DEF OtherUrl

\* The task of a connection moves on; no other task and no request does.
LEMMA ConnMoves ==
    ASSUME TypeOK, NEW s \in Shas, NEW c \in Conns,
           \/ ConnStart(s, c) \/ ConnRequest(s, c) \/ ConnGate(s, c)
           \/ ConnCheck(s, c) \/ ConnPermit(s, c) \/ ConnBody(s, c)
           \/ ConnAnnounce(s, c)
    PROVE  /\ UNCHANGED <<entry, inflight, pc, result, url, tries, chunk, stray>>
           /\ \A t \in Shas, d \in Conns :
                 conn'[t][d] # "off" => conn[t][d] # "off"
  <1>1. UNCHANGED <<entry, inflight, pc, result, url, tries, chunk, stray>>
    BY DEF ConnStart, ConnRequest, ConnGate, ConnCheck, ConnPermit, ConnBody,
      ConnAnnounce, ConnUnchanged
  <1> SUFFICES ASSUME NEW t \in Shas, NEW d \in Conns, conn'[t][d] # "off"
               PROVE  conn[t][d] # "off"
    BY <1>1
  <1>2. CASE ConnStart(s, c)
    BY <1>2, SetConnAt DEF ConnStart
  <1>3. CASE ConnRequest(s, c)
    BY <1>3, SetConnAt DEF ConnRequest
  <1>4. CASE ConnGate(s, c)
    BY <1>4, SetConnAt DEF ConnGate
  <1>5. CASE ConnCheck(s, c)
    BY <1>5, SetConnAt, EndConnAt DEF ConnCheck
  <1>6. CASE ConnPermit(s, c)
    BY <1>6, SetConnAt DEF ConnPermit
  <1>7. CASE ConnBody(s, c)
    BY <1>7, SetConnAt, EndConnAt DEF ConnBody
  <1>8. CASE ConnAnnounce(s, c)
    BY <1>8 DEF TypeOK, ConnAnnounce
  <1> QED BY <1>2, <1>3, <1>4, <1>5, <1>6, <1>7, <1>8

\* A leader that stays one leaves the map as it is.
LEMMA LeaderStays ==
    ASSUME TypeOK, MapMatchesLeaders, NEW r \in Requests, pc[r] \in LeaderSteps,
           UNCHANGED inflight,
           \E t \in LeaderSteps : Goto(r, t),
           \A w \in Requests \ {r} : result'[w] = result[w]
    PROVE  MapMatchesLeaders'
  <1> PICK t \in LeaderSteps : Goto(r, t) OBVIOUS
  <1>1. \A w \in Requests : pc'[w] = IF w = r THEN t ELSE pc[w]
    BY GotoAt
  <1>2. pc[r] # "wait" /\ t # "wait"
    BY DEF LeaderSteps
  <1>3. \A s \in Shas : Waiting(s)' = Waiting(s)
    BY <1>1, <1>2 DEF Waiting
  <1> QED BY <1>1, <1>3 DEF MapMatchesLeaders

\* A failed item is the only one without a try left.
LEMMA TriesStep ==
    ASSUME TypeOK, TriesBounded, [Next]_vars
    PROVE  TriesBounded'
<1> USE DownloadAssumption
<1>1. ASSUME NEW r \in Requests, Request(r) PROVE TriesBounded'
  <2>0. ShaOf[r] \in Shas OBVIOUS
  <2>1. CASE Join(r)
    BY <2>1, <2>0 DEF Join, Goto, TypeOK, TriesBounded
  <2>2. CASE Publish(r)
    BY <2>2, <2>0 DEF Publish, Goto, Waiting, TypeOK, TriesBounded
  <2>3. CASE Receive(r)
    BY <2>3, <2>0 DEF Receive, Goto, TypeOK, TriesBounded
  <2>4. CASE Verify(r)
    BY <2>4, <2>0 DEF Verify, Goto, Answer, RemoveBad, Verified, TypeOK,
      TriesBounded
  <2>5. CASE Probe(r)
    BY <2>5, <2>0 DEF Probe, Goto, StartRace, TypeOK, TriesBounded
  <2>6. CASE ValidateRange(r)
    BY <2>6, <2>0 DEF ValidateRange, Goto, NextUrl, OtherUrl, StartRace, TypeOK,
      TriesBounded
  <2>7. CASE Whole(r)
    BY <2>7, <2>0 DEF Whole, Goto, Answer, NextUrl, OtherUrl, StartRace, TypeOK,
      TriesBounded
  <2>8. CASE ChunkCommit(r)
    BY <2>8, <2>0 DEF ChunkCommit, Goto, Answer, NextUrl, OtherUrl, StartRace, TypeOK,
      TriesBounded
  <2>9. CASE EndRace(r)
    BY <2>9, <2>0 DEF EndRace, Goto, Answer, TypeOK, TriesBounded
  <2>10. CASE Unpack(r)
    BY <2>10, <2>0 DEF Unpack, Goto, TypeOK, TriesBounded
  <2>11. CASE Discard(r)
    BY <2>11, <2>0 DEF Discard, Goto, TypeOK, TriesBounded
  <2>12. ASSUME NEW k \in Chunks, ChunkDone(r, k) PROVE TriesBounded'
    BY <2>12, <2>0 DEF ChunkDone, TypeOK, TriesBounded
  <2>13. ASSUME NEW k \in Chunks, ChunkFail(r, k) PROVE TriesBounded'
    BY <2>13, <2>0 DEF ChunkFail, Goto, NextUrl, OtherUrl, StartRace, TypeOK,
      TriesBounded
  <2>14. ASSUME NEW k \in Chunks, ChunkNotWritten(r, k) PROVE TriesBounded'
    BY <2>14, NotWrittenAt DEF Goto, OtherUrl, StartRace, TypeOK, TriesBounded
  <2> QED
    BY <1>1, <2>1, <2>2, <2>3, <2>4, <2>5, <2>6, <2>7, <2>8, <2>9, <2>10,
      <2>11, <2>12, <2>13, <2>14 DEF Request
<1>2. ASSUME NEW s \in Shas, Task(s) PROVE TriesBounded'
  <2>1. ASSUME NEW k \in Chunks, ChunkStart(s, k) PROVE TriesBounded'
    BY <2>1 DEF ChunkStart, RoomForOne, TypeOK, TriesBounded
  <2>2. ASSUME NEW c \in Conns, ConnStart(s, c) PROVE TriesBounded'
    BY <2>2 DEF ConnStart, SetConn, ConnUnchanged, RemoveBad, Verified,
      TypeOK, TriesBounded
  <2>3. ASSUME NEW c \in Conns, ConnRequest(s, c) PROVE TriesBounded'
    BY <2>3 DEF ConnRequest, SetConn, ConnUnchanged, TypeOK, TriesBounded
  <2>4. ASSUME NEW c \in Conns, ConnGate(s, c) PROVE TriesBounded'
    BY <2>4 DEF ConnGate, SetConn, ConnUnchanged, TypeOK, TriesBounded
  <2>5. ASSUME NEW c \in Conns, ConnCheck(s, c) PROVE TriesBounded'
    BY <2>5 DEF ConnCheck, SetConn, EndConn, ConnUnchanged, RemoveBad,
      Verified, TypeOK, TriesBounded
  <2>6. ASSUME NEW c \in Conns, ConnPermit(s, c) PROVE TriesBounded'
    BY <2>6 DEF ConnPermit, SetConn, ConnUnchanged, RoomForOne, TypeOK,
      TriesBounded
  <2>7. ASSUME NEW c \in Conns, ConnBody(s, c) PROVE TriesBounded'
    BY <2>7 DEF ConnBody, SetConn, EndConn, ConnUnchanged, TypeOK,
      TriesBounded
  <2>8. ASSUME NEW c \in Conns, ConnAnnounce(s, c) PROVE TriesBounded'
    BY <2>8 DEF ConnAnnounce, ConnUnchanged, TypeOK, TriesBounded
  <2>9. ASSUME NEW k \in Chunks, StrayStart(s, k) PROVE TriesBounded'
    BY <2>9 DEF StrayStart, TriesBounded
  <2>10. ASSUME NEW k \in Chunks, StrayEnds(s, k) PROVE TriesBounded'
    BY <2>10 DEF StrayEnds, TriesBounded
  <2> QED
    BY <1>2, <2>1, <2>2, <2>3, <2>4, <2>5, <2>6, <2>7, <2>8, <2>9, <2>10 DEF Task
<1>3. CASE UNCHANGED vars
  BY <1>3 DEF vars, TriesBounded
<1> QED BY <1>1, <1>2, <1>3 DEF Next

\* publish is reached with an answer.
LEMMA PublishStep ==
    ASSUME TypeOK, PublishFits, [Next]_vars
    PROVE  PublishFits'
<1> USE DownloadAssumption
<1>1. ASSUME NEW r \in Requests, Request(r) PROVE PublishFits'
  <2>0. ShaOf[r] \in Shas OBVIOUS
  <2>1. CASE Join(r)
    BY <2>1, <2>0 DEF Join, Goto, TypeOK, PublishFits
  <2>2. CASE Publish(r)
    BY <2>2, <2>0 DEF Publish, Goto, Waiting, TypeOK, PublishFits
  <2>3. CASE Receive(r)
    BY <2>3, <2>0 DEF Receive, Goto, TypeOK, PublishFits
  <2>4. CASE Verify(r)
    BY <2>4, <2>0 DEF Verify, Goto, Answer, RemoveBad, Verified, TypeOK,
      PublishFits
  <2>5. CASE Probe(r)
    BY <2>5, <2>0 DEF Probe, Goto, StartRace, TypeOK, PublishFits
  <2>6. CASE ValidateRange(r)
    BY <2>6, <2>0 DEF ValidateRange, Goto, NextUrl, OtherUrl, StartRace, TypeOK,
      PublishFits
  <2>7. CASE Whole(r)
    BY <2>7, <2>0 DEF Whole, Goto, Answer, NextUrl, OtherUrl, StartRace, TypeOK,
      PublishFits
  <2>8. CASE ChunkCommit(r)
    BY <2>8, <2>0 DEF ChunkCommit, Goto, Answer, NextUrl, OtherUrl, StartRace, TypeOK,
      PublishFits
  <2>9. CASE EndRace(r)
    BY <2>9, <2>0 DEF EndRace, Goto, Answer, TypeOK, PublishFits
  <2>10. CASE Unpack(r)
    BY <2>10, <2>0 DEF Unpack, Goto, TypeOK, PublishFits
  <2>11. CASE Discard(r)
    BY <2>11, <2>0 DEF Discard, Goto, TypeOK, PublishFits
  <2>12. ASSUME NEW k \in Chunks, ChunkDone(r, k) PROVE PublishFits'
    BY <2>12, <2>0 DEF ChunkDone, TypeOK, PublishFits
  <2>13. ASSUME NEW k \in Chunks, ChunkFail(r, k) PROVE PublishFits'
    BY <2>13, <2>0 DEF ChunkFail, Goto, NextUrl, OtherUrl, StartRace, TypeOK,
      PublishFits
  <2>14. ASSUME NEW k \in Chunks, ChunkNotWritten(r, k) PROVE PublishFits'
    <3>1. OtherUrl(r) /\ UNCHANGED result
      BY <2>14, NotWrittenAt
    <3>2. Goto(r, "range") \/ Goto(r, "race")
      BY <3>1, OtherUrlAt, StartRaceAt
    <3> QED BY <3>1, <3>2, GotoAt DEF PublishFits
  <2> QED
    BY <1>1, <2>1, <2>2, <2>3, <2>4, <2>5, <2>6, <2>7, <2>8, <2>9, <2>10,
      <2>11, <2>12, <2>13, <2>14 DEF Request
<1>2. ASSUME NEW s \in Shas, Task(s) PROVE PublishFits'
  <2>1. ASSUME NEW k \in Chunks, ChunkStart(s, k) PROVE PublishFits'
    BY <2>1 DEF ChunkStart, RoomForOne, TypeOK, PublishFits
  <2>2. ASSUME NEW c \in Conns, ConnStart(s, c) PROVE PublishFits'
    BY <2>2 DEF ConnStart, SetConn, ConnUnchanged, RemoveBad, Verified,
      TypeOK, PublishFits
  <2>3. ASSUME NEW c \in Conns, ConnRequest(s, c) PROVE PublishFits'
    BY <2>3 DEF ConnRequest, SetConn, ConnUnchanged, TypeOK, PublishFits
  <2>4. ASSUME NEW c \in Conns, ConnGate(s, c) PROVE PublishFits'
    BY <2>4 DEF ConnGate, SetConn, ConnUnchanged, TypeOK, PublishFits
  <2>5. ASSUME NEW c \in Conns, ConnCheck(s, c) PROVE PublishFits'
    BY <2>5 DEF ConnCheck, SetConn, EndConn, ConnUnchanged, RemoveBad,
      Verified, TypeOK, PublishFits
  <2>6. ASSUME NEW c \in Conns, ConnPermit(s, c) PROVE PublishFits'
    BY <2>6 DEF ConnPermit, SetConn, ConnUnchanged, RoomForOne, TypeOK,
      PublishFits
  <2>7. ASSUME NEW c \in Conns, ConnBody(s, c) PROVE PublishFits'
    BY <2>7 DEF ConnBody, SetConn, EndConn, ConnUnchanged, TypeOK, PublishFits
  <2>8. ASSUME NEW c \in Conns, ConnAnnounce(s, c) PROVE PublishFits'
    BY <2>8 DEF ConnAnnounce, ConnUnchanged, TypeOK, PublishFits
  <2>9. ASSUME NEW k \in Chunks, StrayStart(s, k) PROVE PublishFits'
    BY <2>9 DEF StrayStart, PublishFits
  <2>10. ASSUME NEW k \in Chunks, StrayEnds(s, k) PROVE PublishFits'
    BY <2>10 DEF StrayEnds, PublishFits
  <2> QED
    BY <1>2, <2>1, <2>2, <2>3, <2>4, <2>5, <2>6, <2>7, <2>8, <2>9, <2>10 DEF Task
<1>3. CASE UNCHANGED vars
  BY <1>3 DEF vars, PublishFits
<1> QED BY <1>1, <1>2, <1>3 DEF Next

\* The map follows the leaders.
LEMMA MapStep ==
    ASSUME TypeOK, PublishFits, MapMatchesLeaders, [Next]_vars
    PROVE  MapMatchesLeaders'
<1> USE DownloadAssumption
<1>1. ASSUME NEW r \in Requests, Request(r) PROVE MapMatchesLeaders'
  <2>0. ShaOf[r] \in Shas OBVIOUS
  <2>1. CASE Join(r)
    <3>1. CASE inflight[ShaOf[r]] = NoRequest
      <4>1. \A w \in Requests : pc'[w] = IF w = r THEN "verify" ELSE pc[w]
        BY <2>1, <3>1, GotoAt DEF Join
      <4>2. \A s \in Shas : inflight'[s] = IF s = ShaOf[r] THEN r ELSE inflight[s]
        BY <2>1, <3>1, <2>0 DEF Join, TypeOK
      <4>3. \A s \in Shas : Waiting(s)' = Waiting(s)
        BY <2>1, <4>1 DEF Join, Waiting
      <4> QED BY <2>1, <3>1, <4>1, <4>2, <4>3 DEF Join, MapMatchesLeaders, LeaderSteps
    <3>2. CASE inflight[ShaOf[r]] # NoRequest
      <4>1. \A w \in Requests : pc'[w] = IF w = r THEN "wait" ELSE pc[w]
        BY <2>1, <3>2, GotoAt DEF Join
      <4>2. UNCHANGED <<inflight, result>>
        BY <2>1, <3>2 DEF Join
      <4>3. \A s \in Shas : Waiting(s)' \subseteq Waiting(s) \cup {r}
        BY <4>1, <4>2 DEF Waiting
      <4>4. \A s \in Shas : r \in Waiting(s)' => s = ShaOf[r]
        BY DEF Waiting
      <4>5. \A w \in Requests : pc'[w] \in LeaderSteps <=> inflight'[ShaOf[w]] = w
        BY <2>1, <4>1, <4>2 DEF Join, MapMatchesLeaders, LeaderSteps
      <4>6. \A s \in Shas : Waiting(s)' # {} => inflight'[s] # NoRequest
        BY <3>2, <4>2, <4>3, <4>4 DEF MapMatchesLeaders
      <4> QED BY <4>5, <4>6 DEF MapMatchesLeaders
    <3> QED BY <3>1, <3>2
  <2>2. CASE Publish(r)
    <3> DEFINE last == IF result[r] = "ok" THEN "unpack" ELSE "failed"
    <3>1. \A w \in Requests : pc'[w] = IF w = r THEN last ELSE pc[w]
      BY <2>2, GotoAt DEF Publish
    <3>2. \A s \in Shas :
              inflight'[s] = IF s = ShaOf[r] THEN NoRequest ELSE inflight[s]
      BY <2>2, <2>0 DEF Publish, TypeOK
    <3>3. inflight[ShaOf[r]] = r
      BY <2>2 DEF Publish, MapMatchesLeaders, LeaderSteps
    <3>4. \A w \in Requests : pc'[w] \in LeaderSteps <=> inflight'[ShaOf[w]] = w
      BY <2>2, <3>1, <3>2, <3>3 DEF MapMatchesLeaders, LeaderSteps
    <3>5. result[r] # "none"
      BY <2>2 DEF Publish, PublishFits
    <3>6. \A w \in Requests : w # r =>
              result'[w] = IF w \in Waiting(ShaOf[r]) THEN result[r] ELSE result[w]
      BY <2>2 DEF Publish
    <3>7. \A s \in Shas : Waiting(s)' \subseteq Waiting(s)
      BY <2>2, <3>1, <3>5, <3>6 DEF Waiting, Publish
    <3>8. Waiting(ShaOf[r])' = {}
      BY <2>2, <3>1, <3>5, <3>6 DEF Waiting, Publish
    <3>9. \A s \in Shas : Waiting(s)' # {} => inflight'[s] # NoRequest
      BY <3>2, <3>7, <3>8 DEF MapMatchesLeaders
    <3> QED BY <3>4, <3>9 DEF MapMatchesLeaders
  <2>3. CASE Receive(r)
    BY <2>3, <2>0 DEF Receive, Goto, TypeOK, MapMatchesLeaders, PublishFits,
      Waiting, LeaderSteps
  <2>4. CASE Verify(r)
    <3>1. pc[r] \in LeaderSteps /\ UNCHANGED inflight
      BY <2>4 DEF Verify, LeaderSteps
    <3>2. \E t \in LeaderSteps : Goto(r, t)
      BY <2>4 DEF Verify, LeaderSteps, Answer
    <3>3. \A w \in Requests \ {r} : result'[w] = result[w]
      BY <2>4 DEF Verify, TypeOK, Answer
    <3> QED BY <3>1, <3>2, <3>3, LeaderStays
  <2>5. CASE Probe(r)
    <3>1. pc[r] \in LeaderSteps /\ UNCHANGED inflight
      BY <2>5 DEF Probe, LeaderSteps
    <3>2. \E t \in LeaderSteps : Goto(r, t)
      BY <2>5, StartRaceAt DEF Probe, LeaderSteps
    <3>3. \A w \in Requests \ {r} : result'[w] = result[w]
      BY <2>5 DEF Probe, TypeOK
    <3> QED BY <3>1, <3>2, <3>3, LeaderStays
  <2>6. CASE ValidateRange(r)
    <3>1. pc[r] \in LeaderSteps /\ UNCHANGED inflight
      BY <2>6 DEF ValidateRange, LeaderSteps
    <3>2. \E t \in LeaderSteps : Goto(r, t)
      BY <2>6, NextUrlAt, StartRaceAt DEF ValidateRange, LeaderSteps
    <3>3. \A w \in Requests \ {r} : result'[w] = result[w]
      BY <2>6 DEF ValidateRange, TypeOK
    <3> QED BY <3>1, <3>2, <3>3, LeaderStays
  <2>7. CASE Whole(r)
    <3>1. pc[r] \in LeaderSteps /\ UNCHANGED inflight
      BY <2>7 DEF Whole, LeaderSteps
    <3>2. \E t \in LeaderSteps : Goto(r, t)
      BY <2>7, NextUrlAt, StartRaceAt DEF Whole, LeaderSteps, Answer
    <3>3. \A w \in Requests \ {r} : result'[w] = result[w]
      BY <2>7 DEF Whole, TypeOK, Answer
    <3> QED BY <3>1, <3>2, <3>3, LeaderStays
  <2>8. CASE ChunkCommit(r)
    <3>1. pc[r] \in LeaderSteps /\ UNCHANGED inflight
      BY <2>8 DEF ChunkCommit, LeaderSteps
    <3>2. \E t \in LeaderSteps : Goto(r, t)
      BY <2>8, NextUrlAt, StartRaceAt DEF ChunkCommit, LeaderSteps, Answer
    <3>3. \A w \in Requests \ {r} : result'[w] = result[w]
      BY <2>8 DEF ChunkCommit, TypeOK, Answer
    <3> QED BY <3>1, <3>2, <3>3, LeaderStays
  <2>9. CASE EndRace(r)
    <3>1. pc[r] \in LeaderSteps /\ UNCHANGED inflight
      BY <2>9 DEF EndRace, LeaderSteps
    <3>2. \E t \in LeaderSteps : Goto(r, t)
      BY <2>9 DEF EndRace, LeaderSteps, Answer
    <3>3. \A w \in Requests \ {r} : result'[w] = result[w]
      BY <2>9 DEF EndRace, TypeOK, Answer
    <3> QED BY <3>1, <3>2, <3>3, LeaderStays
  <2>10. CASE Unpack(r)
    <3>1. \A w \in Requests : /\ pc'[w] \in LeaderSteps <=> pc[w] \in LeaderSteps
                              /\ pc'[w] = "wait" <=> pc[w] = "wait"
      BY <2>10, GotoAt DEF Unpack, LeaderSteps
    <3>2. UNCHANGED <<inflight, result>>
      BY <2>10 DEF Unpack
    <3>3. \A t \in Shas : Waiting(t)' = Waiting(t)
      BY <3>1, <3>2 DEF Waiting
    <3> QED BY <3>1, <3>2, <3>3 DEF MapMatchesLeaders
  <2>11. CASE Discard(r)
    BY <2>11, <2>0 DEF Discard, Goto, TypeOK, MapMatchesLeaders, PublishFits,
      Waiting, LeaderSteps
  <2>12. ASSUME NEW k \in Chunks, ChunkDone(r, k) PROVE MapMatchesLeaders'
    BY <2>12, <2>0 DEF ChunkDone, TypeOK, MapMatchesLeaders, PublishFits,
      Waiting, LeaderSteps
  <2>13. ASSUME NEW k \in Chunks, ChunkFail(r, k) PROVE MapMatchesLeaders'
    <3>1. pc[r] \in LeaderSteps /\ UNCHANGED inflight
      BY <2>13 DEF ChunkFail, LeaderSteps
    <3>2. \E t \in LeaderSteps : Goto(r, t)
      BY <2>13, NextUrlAt, StartRaceAt DEF ChunkFail, LeaderSteps
    <3>3. \A w \in Requests \ {r} : result'[w] = result[w]
      BY <2>13 DEF ChunkFail, TypeOK
    <3> QED BY <3>1, <3>2, <3>3, LeaderStays
  <2>14. ASSUME NEW k \in Chunks, ChunkNotWritten(r, k) PROVE MapMatchesLeaders'
    <3>1. pc[r] \in LeaderSteps /\ UNCHANGED <<inflight, result>>
      BY <2>14, NotWrittenAt DEF LeaderSteps
    <3>2. \E t \in LeaderSteps : Goto(r, t)
      BY <2>14, NotWrittenAt, OtherUrlAt, StartRaceAt DEF LeaderSteps
    <3> QED BY <3>1, <3>2, LeaderStays
  <2> QED
    BY <1>1, <2>1, <2>2, <2>3, <2>4, <2>5, <2>6, <2>7, <2>8, <2>9, <2>10,
      <2>11, <2>12, <2>13, <2>14 DEF Request
<1>2. ASSUME NEW s \in Shas, Task(s) PROVE MapMatchesLeaders'
  <2>1. ASSUME NEW k \in Chunks, ChunkStart(s, k) PROVE MapMatchesLeaders'
    BY <2>1 DEF ChunkStart, RoomForOne, TypeOK, MapMatchesLeaders,
      PublishFits, Waiting, LeaderSteps
  <2>2. ASSUME NEW c \in Conns, ConnStart(s, c) PROVE MapMatchesLeaders'
    BY <2>2 DEF ConnStart, SetConn, ConnUnchanged, RemoveBad, Verified,
      TypeOK, MapMatchesLeaders, PublishFits, Waiting, LeaderSteps
  <2>3. ASSUME NEW c \in Conns, ConnRequest(s, c) PROVE MapMatchesLeaders'
    BY <2>3 DEF ConnRequest, SetConn, ConnUnchanged, TypeOK,
      MapMatchesLeaders, PublishFits, Waiting, LeaderSteps
  <2>4. ASSUME NEW c \in Conns, ConnGate(s, c) PROVE MapMatchesLeaders'
    BY <2>4 DEF ConnGate, SetConn, ConnUnchanged, TypeOK, MapMatchesLeaders,
      PublishFits, Waiting, LeaderSteps
  <2>5. ASSUME NEW c \in Conns, ConnCheck(s, c) PROVE MapMatchesLeaders'
    BY <2>5 DEF ConnCheck, SetConn, EndConn, ConnUnchanged, RemoveBad,
      Verified, TypeOK, MapMatchesLeaders, PublishFits, Waiting, LeaderSteps
  <2>6. ASSUME NEW c \in Conns, ConnPermit(s, c) PROVE MapMatchesLeaders'
    BY <2>6 DEF ConnPermit, SetConn, ConnUnchanged, RoomForOne, TypeOK,
      MapMatchesLeaders, PublishFits, Waiting, LeaderSteps
  <2>7. ASSUME NEW c \in Conns, ConnBody(s, c) PROVE MapMatchesLeaders'
    BY <2>7 DEF ConnBody, SetConn, EndConn, ConnUnchanged, TypeOK,
      MapMatchesLeaders, PublishFits, Waiting, LeaderSteps
  <2>8. ASSUME NEW c \in Conns, ConnAnnounce(s, c) PROVE MapMatchesLeaders'
    BY <2>8 DEF ConnAnnounce, ConnUnchanged, TypeOK, MapMatchesLeaders,
      PublishFits, Waiting, LeaderSteps
  <2>9. ASSUME NEW k \in Chunks, StrayStart(s, k) PROVE MapMatchesLeaders'
    BY <2>9 DEF StrayStart, MapMatchesLeaders, Waiting
  <2>10. ASSUME NEW k \in Chunks, StrayEnds(s, k) PROVE MapMatchesLeaders'
    BY <2>10 DEF StrayEnds, MapMatchesLeaders, Waiting
  <2> QED
    BY <1>2, <2>1, <2>2, <2>3, <2>4, <2>5, <2>6, <2>7, <2>8, <2>9, <2>10 DEF Task
<1>3. CASE UNCHANGED vars
  BY <1>3 DEF vars, MapMatchesLeaders, Waiting
<1> QED BY <1>1, <1>2, <1>3 DEF Next

\* A race lasts as long as its leader waits for it.
LEMMA RaceStep ==
    ASSUME TypeOK, RaceFits, [Next]_vars
    PROVE  RaceFits'
<1> USE DownloadAssumption
<1>1. ASSUME NEW r \in Requests, Request(r) PROVE RaceFits'
  <2>0. ShaOf[r] \in Shas OBVIOUS
  <2>1. CASE Join(r)
    BY <2>1, <2>0 DEF Join, Goto, TypeOK, RaceFits
  <2>2. CASE Publish(r)
    BY <2>2, <2>0 DEF Publish, Goto, Waiting, TypeOK, RaceFits
  <2>3. CASE Receive(r)
    BY <2>3, <2>0 DEF Receive, Goto, TypeOK, RaceFits
  <2>4. CASE Verify(r)
    BY <2>4, <2>0 DEF Verify, Goto, Answer, RemoveBad, Verified, TypeOK,
      RaceFits
  <2>5. CASE Probe(r)
    BY <2>5, <2>0, NextUrlAt, StartRaceAt, GotoAt
      DEF RaceFits, Answer, Probe
  <2>6. CASE ValidateRange(r)
    BY <2>6, <2>0, NextUrlAt, StartRaceAt, GotoAt
      DEF RaceFits, Answer, ValidateRange
  <2>7. CASE Whole(r)
    BY <2>7, <2>0, NextUrlAt, StartRaceAt, GotoAt
      DEF RaceFits, Answer, Whole
  <2>8. CASE ChunkCommit(r)
    BY <2>8, <2>0, NextUrlAt, StartRaceAt, GotoAt
      DEF RaceFits, Answer, ChunkCommit
  <2>9. CASE EndRace(r)
    BY <2>9, <2>0 DEF EndRace, Goto, Answer, TypeOK, RaceFits
  <2>10. CASE Unpack(r)
    BY <2>10, <2>0 DEF Unpack, Goto, TypeOK, RaceFits
  <2>11. CASE Discard(r)
    BY <2>11, <2>0 DEF Discard, Goto, TypeOK, RaceFits
  <2>12. ASSUME NEW k \in Chunks, ChunkDone(r, k) PROVE RaceFits'
    BY <2>12, <2>0 DEF ChunkDone, TypeOK, RaceFits
  <2>13. ASSUME NEW k \in Chunks, ChunkFail(r, k) PROVE RaceFits'
    BY <2>13, <2>0, NextUrlAt, StartRaceAt, GotoAt
      DEF RaceFits, Answer, ChunkFail
  <2>14. ASSUME NEW k \in Chunks, ChunkNotWritten(r, k) PROVE RaceFits'
    BY <2>14, <2>0, NotWrittenAt, OtherUrlAt, StartRaceAt, GotoAt DEF RaceFits
  <2> QED
    BY <1>1, <2>1, <2>2, <2>3, <2>4, <2>5, <2>6, <2>7, <2>8, <2>9, <2>10,
      <2>11, <2>12, <2>13, <2>14 DEF Request
<1>2. ASSUME NEW s \in Shas, Task(s) PROVE RaceFits'
  <2>1. ASSUME NEW k \in Chunks, ChunkStart(s, k) PROVE RaceFits'
    BY <2>1 DEF ChunkStart, RoomForOne, TypeOK, RaceFits
  <2>2. ASSUME NEW c \in Conns, ConnStart(s, c) PROVE RaceFits'
    BY <2>2, ConnMoves DEF RaceFits
  <2>3. ASSUME NEW c \in Conns, ConnRequest(s, c) PROVE RaceFits'
    BY <2>3, ConnMoves DEF RaceFits
  <2>4. ASSUME NEW c \in Conns, ConnGate(s, c) PROVE RaceFits'
    BY <2>4, ConnMoves DEF RaceFits
  <2>5. ASSUME NEW c \in Conns, ConnCheck(s, c) PROVE RaceFits'
    BY <2>5, ConnMoves DEF RaceFits
  <2>6. ASSUME NEW c \in Conns, ConnPermit(s, c) PROVE RaceFits'
    BY <2>6, ConnMoves DEF RaceFits
  <2>7. ASSUME NEW c \in Conns, ConnBody(s, c) PROVE RaceFits'
    BY <2>7, ConnMoves DEF RaceFits
  <2>8. ASSUME NEW c \in Conns, ConnAnnounce(s, c) PROVE RaceFits'
    BY <2>8, ConnMoves DEF RaceFits
  <2>9. ASSUME NEW k \in Chunks, StrayStart(s, k) PROVE RaceFits'
    BY <2>9 DEF StrayStart, RaceFits
  <2>10. ASSUME NEW k \in Chunks, StrayEnds(s, k) PROVE RaceFits'
    BY <2>10 DEF StrayEnds, RaceFits
  <2> QED
    BY <1>2, <2>1, <2>2, <2>3, <2>4, <2>5, <2>6, <2>7, <2>8, <2>9, <2>10 DEF Task
<1>3. CASE UNCHANGED vars
  BY <1>3 DEF vars, RaceFits
<1> QED BY <1>1, <1>2, <1>3 DEF Next

\* So do the chunks of a file.
LEMMA ChunksStep ==
    ASSUME TypeOK, ChunksFit, [Next]_vars
    PROVE  ChunksFit'
<1> USE DownloadAssumption
<1>1. ASSUME NEW r \in Requests, Request(r) PROVE ChunksFit'
  <2>0. ShaOf[r] \in Shas OBVIOUS
  <2>1. CASE Join(r)
    BY <2>1, <2>0 DEF Join, Goto, TypeOK, ChunksFit
  <2>2. CASE Publish(r)
    BY <2>2, <2>0 DEF Publish, Goto, Waiting, TypeOK, ChunksFit
  <2>3. CASE Receive(r)
    BY <2>3, <2>0 DEF Receive, Goto, TypeOK, ChunksFit
  <2>4. CASE Verify(r)
    BY <2>4, <2>0 DEF Verify, Goto, Answer, RemoveBad, Verified, TypeOK,
      ChunksFit
  <2>5. CASE Probe(r)
    BY <2>5, <2>0 DEF Probe, Goto, StartRace, TypeOK, ChunksFit
  <2>6. CASE ValidateRange(r)
    <3>1. CASE NextUrl(r)
      BY <2>6, <2>0, <3>1, NextUrlAt, StartRaceAt, GotoAt DEF ChunksFit, ValidateRange
    <3>2. CASE Goto(r, "whole") /\ UNCHANGED chunk
      BY <2>6, <3>2, GotoAt DEF ChunksFit, ValidateRange
    <3>3. CASE Goto(r, "chunks") /\ \A t \in Shas \ {ShaOf[r]} : chunk'[t] = chunk[t]
      BY <2>6, <2>0, <3>3, GotoAt DEF ChunksFit
    <3> QED BY <2>6, <3>1, <3>2, <3>3 DEF ValidateRange, TypeOK
  <2>7. CASE Whole(r)
    <3>1. CASE NextUrl(r)
      BY <2>7, <2>0, <3>1, NextUrlAt, StartRaceAt, GotoAt DEF ChunksFit, Whole
    <3>2. CASE Goto(r, "publish") /\ UNCHANGED chunk
      BY <2>7, <3>2, GotoAt DEF ChunksFit, Whole
    <3> QED BY <2>7, <3>1, <3>2 DEF Whole, Answer
  <2>8. CASE ChunkCommit(r)
    <3>1. CASE NextUrl(r)
      BY <2>8, <2>0, <3>1, NextUrlAt, StartRaceAt, GotoAt DEF ChunksFit, ChunkCommit
    <3>2. CASE /\ ChunksOff(ShaOf[r])
               /\ Goto(r, "publish")
      <4>1. \A t \in Shas, k \in Chunks :
                chunk'[t][k] = IF t = ShaOf[r] THEN "off" ELSE chunk[t][k]
        BY <3>2, <2>0 DEF TypeOK, ChunksOff
      <4> QED BY <2>8, <3>2, <4>1, GotoAt DEF ChunksFit
    <3> QED BY <2>8, <3>1, <3>2 DEF ChunkCommit, Answer
  <2>9. CASE EndRace(r)
    BY <2>9, <2>0 DEF EndRace, Goto, Answer, TypeOK, ChunksFit
  <2>10. CASE Unpack(r)
    BY <2>10, <2>0 DEF Unpack, Goto, TypeOK, ChunksFit
  <2>11. CASE Discard(r)
    BY <2>11, <2>0 DEF Discard, Goto, TypeOK, ChunksFit
  <2>12. ASSUME NEW k \in Chunks, ChunkDone(r, k) PROVE ChunksFit'
    BY <2>12, <2>0 DEF ChunkDone, TypeOK, ChunksFit
  <2>13. ASSUME NEW k \in Chunks, ChunkFail(r, k) PROVE ChunksFit'
    BY <2>13, <2>0, NextUrlAt, StartRaceAt, GotoAt DEF ChunksFit, ChunkFail
  <2>14. ASSUME NEW k \in Chunks, ChunkNotWritten(r, k) PROVE ChunksFit'
    <3>1. \A t \in Shas, j \in Chunks :
              chunk'[t][j] = IF t = ShaOf[r] THEN "off" ELSE chunk[t][j]
      BY <2>14, <2>0, NotWrittenAt DEF ChunksOff, TypeOK
    <3> QED BY <2>14, <3>1, NotWrittenAt, OtherUrlAt, StartRaceAt, GotoAt DEF ChunksFit
  <2> QED
    BY <1>1, <2>1, <2>2, <2>3, <2>4, <2>5, <2>6, <2>7, <2>8, <2>9, <2>10,
      <2>11, <2>12, <2>13, <2>14 DEF Request
<1>2. ASSUME NEW s \in Shas, Task(s) PROVE ChunksFit'
  <2>1. ASSUME NEW k \in Chunks, ChunkStart(s, k) PROVE ChunksFit'
    BY <2>1 DEF ChunkStart, RoomForOne, TypeOK, ChunksFit
  <2>2. ASSUME NEW c \in Conns, ConnStart(s, c) PROVE ChunksFit'
    BY <2>2, ConnMoves DEF ChunksFit
  <2>3. ASSUME NEW c \in Conns, ConnRequest(s, c) PROVE ChunksFit'
    BY <2>3, ConnMoves DEF ChunksFit
  <2>4. ASSUME NEW c \in Conns, ConnGate(s, c) PROVE ChunksFit'
    BY <2>4, ConnMoves DEF ChunksFit
  <2>5. ASSUME NEW c \in Conns, ConnCheck(s, c) PROVE ChunksFit'
    BY <2>5, ConnMoves DEF ChunksFit
  <2>6. ASSUME NEW c \in Conns, ConnPermit(s, c) PROVE ChunksFit'
    BY <2>6, ConnMoves DEF ChunksFit
  <2>7. ASSUME NEW c \in Conns, ConnBody(s, c) PROVE ChunksFit'
    BY <2>7, ConnMoves DEF ChunksFit
  <2>8. ASSUME NEW c \in Conns, ConnAnnounce(s, c) PROVE ChunksFit'
    BY <2>8, ConnMoves DEF ChunksFit
  <2>9. ASSUME NEW k \in Chunks, StrayStart(s, k) PROVE ChunksFit'
    BY <2>9 DEF StrayStart, ChunksFit
  <2>10. ASSUME NEW k \in Chunks, StrayEnds(s, k) PROVE ChunksFit'
    BY <2>10 DEF StrayEnds, ChunksFit
  <2> QED
    BY <1>2, <2>1, <2>2, <2>3, <2>4, <2>5, <2>6, <2>7, <2>8, <2>9, <2>10 DEF Task
<1>3. CASE UNCHANGED vars
  BY <1>3 DEF vars, ChunksFit
<1> QED BY <1>1, <1>2, <1>3 DEF Next

\* The gate belongs to the connection that is past it.
LEMMA GateStep ==
    ASSUME TypeOK, GateFits, [Next]_vars
    PROVE  GateFits'
<1> USE DownloadAssumption
<1>1. ASSUME NEW r \in Requests, Request(r) PROVE GateFits'
  <2>0. ShaOf[r] \in Shas OBVIOUS
  <2>1. CASE Join(r)
    BY <2>1, <2>0 DEF Join, Goto, TypeOK, GateFits
  <2>2. CASE Publish(r)
    BY <2>2, <2>0 DEF Publish, Goto, Waiting, TypeOK, GateFits
  <2>3. CASE Receive(r)
    BY <2>3, <2>0 DEF Receive, Goto, TypeOK, GateFits
  <2>4. CASE Verify(r)
    BY <2>4, <2>0 DEF Verify, Goto, Answer, RemoveBad, Verified, TypeOK,
      GateFits
  <2>5. CASE Probe(r)
    BY <2>5, NextUrlAt, StartRaceAt DEF GateFits, Probe
  <2>6. CASE ValidateRange(r)
    BY <2>6, NextUrlAt, StartRaceAt DEF GateFits, ValidateRange
  <2>7. CASE Whole(r)
    BY <2>7, NextUrlAt, StartRaceAt DEF GateFits, Whole
  <2>8. CASE ChunkCommit(r)
    BY <2>8, NextUrlAt, StartRaceAt DEF GateFits, ChunkCommit
  <2>9. CASE EndRace(r)
    BY <2>9, <2>0 DEF EndRace, Goto, Answer, TypeOK, GateFits
  <2>10. CASE Unpack(r)
    BY <2>10, <2>0 DEF Unpack, Goto, TypeOK, GateFits
  <2>11. CASE Discard(r)
    BY <2>11, <2>0 DEF Discard, Goto, TypeOK, GateFits
  <2>12. ASSUME NEW k \in Chunks, ChunkDone(r, k) PROVE GateFits'
    BY <2>12, <2>0 DEF ChunkDone, TypeOK, GateFits
  <2>13. ASSUME NEW k \in Chunks, ChunkFail(r, k) PROVE GateFits'
    BY <2>13, NextUrlAt, StartRaceAt DEF GateFits, ChunkFail
  <2>14. ASSUME NEW k \in Chunks, ChunkNotWritten(r, k) PROVE GateFits'
    BY <2>14, NotWrittenAt, OtherUrlAt, StartRaceAt DEF GateFits
  <2> QED
    BY <1>1, <2>1, <2>2, <2>3, <2>4, <2>5, <2>6, <2>7, <2>8, <2>9, <2>10,
      <2>11, <2>12, <2>13, <2>14 DEF Request
<1>2. ASSUME NEW s \in Shas, Task(s) PROVE GateFits'
  <2>1. ASSUME NEW k \in Chunks, ChunkStart(s, k) PROVE GateFits'
    BY <2>1 DEF ChunkStart, RoomForOne, TypeOK, GateFits
  <2>2. ASSUME NEW c \in Conns, ConnStart(s, c) PROVE GateFits'
    BY <2>2, SetConnAt DEF GateFits, ConnStart
  <2>3. ASSUME NEW c \in Conns, ConnRequest(s, c) PROVE GateFits'
    BY <2>3, SetConnAt DEF GateFits, ConnRequest
  <2>4. ASSUME NEW c \in Conns, ConnGate(s, c) PROVE GateFits'
    <3>1. \A t \in Shas : gate'[t] = gate[t] \/ (t = s /\ gate[t] = 0 /\ gate'[t] = c)
      BY <2>4 DEF ConnGate, TypeOK
    <3>2. \A t \in Shas, d \in Conns : t # s \/ d # c => conn'[t][d] = conn[t][d]
      BY <2>4, SetConnAt DEF ConnGate
    <3>3. conn'[s][c] \in {"check", "permit", "body"} => gate'[s] = c
      BY <2>4, SetConnAt DEF ConnGate, TypeOK
    <3>4. \A d \in Conns : d # 0
      BY DEF Conns
    <3> QED BY <3>1, <3>2, <3>3, <3>4 DEF GateFits
  <2>5. ASSUME NEW c \in Conns, ConnCheck(s, c) PROVE GateFits'
    BY <2>5, SetConnAt, EndConnAt DEF GateFits, ConnCheck
  <2>6. ASSUME NEW c \in Conns, ConnPermit(s, c) PROVE GateFits'
    BY <2>6, SetConnAt DEF GateFits, ConnPermit
  <2>7. ASSUME NEW c \in Conns, ConnBody(s, c) PROVE GateFits'
    BY <2>7, SetConnAt, EndConnAt DEF GateFits, ConnBody
  <2>8. ASSUME NEW c \in Conns, ConnAnnounce(s, c) PROVE GateFits'
    BY <2>8 DEF ConnAnnounce, ConnUnchanged, TypeOK, GateFits
  <2>9. ASSUME NEW k \in Chunks, StrayStart(s, k) PROVE GateFits'
    BY <2>9 DEF StrayStart, GateFits
  <2>10. ASSUME NEW k \in Chunks, StrayEnds(s, k) PROVE GateFits'
    BY <2>10 DEF StrayEnds, GateFits
  <2> QED
    BY <1>2, <2>1, <2>2, <2>3, <2>4, <2>5, <2>6, <2>7, <2>8, <2>9, <2>10 DEF Task
<1>3. CASE UNCHANGED vars
  BY <1>3 DEF vars, GateFits
<1> QED BY <1>1, <1>2, <1>3 DEF Next

-----------------------------------------------------------------------------
(* Answers.                                                                *)

LEMMA KnownStays ==
    ASSUME UNCHANGED tries,
           \A s \in Shas : \/ blob'[s] = blob[s]
                           \/ blob'[s] = "good"
                           \/ blob[s] = "bad"
    PROVE  \A s \in Shas : BlobKnown(s) => BlobKnown(s)'
  BY DEF BlobKnown

\* An answer ok is about a blob that was there.
LEMMA AnswersStep ==
    ASSUME TypeOK, AnswersFit, [Next]_vars
    PROVE  AnswersFit'
<1> USE DownloadAssumption
<1>1. ASSUME NEW r \in Requests, Request(r) PROVE AnswersFit'
  <2>0. ShaOf[r] \in Shas OBVIOUS
  <2>1. CASE Join(r)
    <3>1. \A t \in Shas : BlobKnown(t) => BlobKnown(t)'
      BY <2>1, <2>0, KnownStays DEF Join, TypeOK
    <3>2. \A w \in Requests :
              pc'[w] = "unpack" \/ result'[w] = "ok" =>
                  \/ pc[w] = "unpack" \/ result[w] = "ok"
                  \/ BlobKnown(ShaOf[w])'
      BY <2>1, GotoAt DEF Join
    <3>3. \A t \in Shas, d \in Conns :
              conn'[t][d] \in {"announce", "ok"} => conn[t][d] \in {"announce", "ok"}
      BY <2>1 DEF Join
    <3> QED BY <3>1, <3>2, <3>3 DEF AnswersFit
  <2>2. CASE Publish(r)
    <3>1. \A t \in Shas : BlobKnown(t) => BlobKnown(t)'
      BY <2>2, <2>0, KnownStays DEF Publish, TypeOK
    <3>2. \A w \in Requests :
              pc'[w] = "unpack" \/ result'[w] = "ok" =>
                  \/ pc[w] = "unpack" \/ result[w] = "ok"
                  \/ BlobKnown(ShaOf[w])'
      <4>1. result[r] = "ok" => BlobKnown(ShaOf[r])'
        BY <2>0, <3>1 DEF AnswersFit
      <4>2. \A w \in Waiting(ShaOf[r]) : ShaOf[w] = ShaOf[r]
        BY DEF Waiting
      <4> QED BY <2>2, <4>1, <4>2, GotoAt DEF Publish
    <3>3. \A t \in Shas, d \in Conns :
              conn'[t][d] \in {"announce", "ok"} => conn[t][d] \in {"announce", "ok"}
      BY <2>2 DEF Publish
    <3> QED BY <3>1, <3>2, <3>3 DEF AnswersFit
  <2>3. CASE Receive(r)
    <3>1. \A t \in Shas : BlobKnown(t) => BlobKnown(t)'
      BY <2>3, <2>0, KnownStays DEF Receive, TypeOK
    <3>2. \A w \in Requests :
              pc'[w] = "unpack" \/ result'[w] = "ok" =>
                  \/ pc[w] = "unpack" \/ result[w] = "ok"
                  \/ BlobKnown(ShaOf[w])'
      BY <2>3, GotoAt DEF Receive, TypeOK
    <3>3. \A t \in Shas, d \in Conns :
              conn'[t][d] \in {"announce", "ok"} => conn[t][d] \in {"announce", "ok"}
      BY <2>3 DEF Receive
    <3> QED BY <3>1, <3>2, <3>3 DEF AnswersFit
  <2>4. CASE Verify(r)
    <3>1. \A t \in Shas : BlobKnown(t) => BlobKnown(t)'
      BY <2>4, <2>0, KnownStays DEF Verify, TypeOK, RemoveBad
    <3>2. \A w \in Requests :
              pc'[w] = "unpack" \/ result'[w] = "ok" =>
                  \/ pc[w] = "unpack" \/ result[w] = "ok"
                  \/ BlobKnown(ShaOf[w])'
      BY <2>4, <2>0, GotoAt DEF Verify, Answer, RemoveBad, Verified, TypeOK,
        BlobKnown
    <3>3. \A t \in Shas, d \in Conns :
              conn'[t][d] \in {"announce", "ok"} => conn[t][d] \in {"announce", "ok"}
      BY <2>4 DEF Verify
    <3> QED BY <3>1, <3>2, <3>3 DEF AnswersFit
  <2>5. CASE Probe(r)
    <3>1. \A t \in Shas : BlobKnown(t) => BlobKnown(t)'
      BY <2>5, <2>0, KnownStays DEF Probe, TypeOK
    <3>2. \A w \in Requests :
              pc'[w] = "unpack" \/ result'[w] = "ok" =>
                  \/ pc[w] = "unpack" \/ result[w] = "ok"
                  \/ BlobKnown(ShaOf[w])'
      BY <2>5, GotoAt, NextUrlAt, StartRaceAt DEF Probe
    <3>3. \A t \in Shas, d \in Conns :
              conn'[t][d] \in {"announce", "ok"} => conn[t][d] \in {"announce", "ok"}
      BY <2>5, <2>0, NextUrlAt, StartRaceAt DEF Probe
    <3> QED BY <3>1, <3>2, <3>3 DEF AnswersFit
  <2>6. CASE ValidateRange(r)
    <3>1. \A t \in Shas : BlobKnown(t) => BlobKnown(t)'
      BY <2>6, <2>0, KnownStays DEF ValidateRange, TypeOK
    <3>2. \A w \in Requests :
              pc'[w] = "unpack" \/ result'[w] = "ok" =>
                  \/ pc[w] = "unpack" \/ result[w] = "ok"
                  \/ BlobKnown(ShaOf[w])'
      BY <2>6, GotoAt, NextUrlAt, StartRaceAt DEF ValidateRange
    <3>3. \A t \in Shas, d \in Conns :
              conn'[t][d] \in {"announce", "ok"} => conn[t][d] \in {"announce", "ok"}
      BY <2>6, <2>0, NextUrlAt, StartRaceAt DEF ValidateRange
    <3> QED BY <3>1, <3>2, <3>3 DEF AnswersFit
  <2>7. CASE Whole(r)
    <3>1. \A t \in Shas : BlobKnown(t) => BlobKnown(t)'
      BY <2>7, <2>0, KnownStays DEF Whole, TypeOK
    <3>2. \A w \in Requests :
              pc'[w] = "unpack" \/ result'[w] = "ok" =>
                  \/ pc[w] = "unpack" \/ result[w] = "ok"
                  \/ BlobKnown(ShaOf[w])'
      <4>1. CASE NextUrl(r) /\ UNCHANGED result
        BY <4>1, GotoAt, NextUrlAt, StartRaceAt
      <4>2. CASE blob' = [blob EXCEPT ![ShaOf[r]] = "good"] /\ Answer(r, "ok")
        <5>1. blob'[ShaOf[r]] = "good"
          BY <2>0, <4>2 DEF TypeOK
        <5>2. \A w \in Requests : w # r => pc'[w] = pc[w] /\ result'[w] = result[w]
          BY <4>2, GotoAt DEF Answer, TypeOK
        <5> QED BY <5>1, <5>2 DEF BlobKnown
      <4> QED BY <2>7, <4>1, <4>2 DEF Whole
    <3>3. \A t \in Shas, d \in Conns :
              conn'[t][d] \in {"announce", "ok"} => conn[t][d] \in {"announce", "ok"}
      BY <2>7, <2>0, NextUrlAt, StartRaceAt DEF Whole
    <3> QED BY <3>1, <3>2, <3>3 DEF AnswersFit
  <2>8. CASE ChunkCommit(r)
    <3>1. \A t \in Shas : BlobKnown(t) => BlobKnown(t)'
      BY <2>8, <2>0, KnownStays DEF ChunkCommit, TypeOK
    <3>2. \A w \in Requests :
              pc'[w] = "unpack" \/ result'[w] = "ok" =>
                  \/ pc[w] = "unpack" \/ result[w] = "ok"
                  \/ BlobKnown(ShaOf[w])'
      <4>1. CASE NextUrl(r) /\ UNCHANGED result
        BY <4>1, GotoAt, NextUrlAt, StartRaceAt
      <4>2. CASE blob' = [blob EXCEPT ![ShaOf[r]] = "good"] /\ Answer(r, "ok")
        <5>1. blob'[ShaOf[r]] = "good"
          BY <2>0, <4>2 DEF TypeOK
        <5>2. \A w \in Requests : w # r => pc'[w] = pc[w] /\ result'[w] = result[w]
          BY <4>2, GotoAt DEF Answer, TypeOK
        <5> QED BY <5>1, <5>2 DEF BlobKnown
      <4> QED BY <2>8, <4>1, <4>2 DEF ChunkCommit
    <3>3. \A t \in Shas, d \in Conns :
              conn'[t][d] \in {"announce", "ok"} => conn[t][d] \in {"announce", "ok"}
      BY <2>8, <2>0, NextUrlAt, StartRaceAt DEF ChunkCommit
    <3> QED BY <3>1, <3>2, <3>3 DEF AnswersFit
  <2>9. CASE EndRace(r)
    <3>1. \A t \in Shas : BlobKnown(t) => BlobKnown(t)'
      BY <2>9, <2>0, KnownStays DEF EndRace, TypeOK
    <3>2. \A w \in Requests :
              pc'[w] = "unpack" \/ result'[w] = "ok" =>
                  \/ pc[w] = "unpack" \/ result[w] = "ok"
                  \/ BlobKnown(ShaOf[w])'
      <4>1. CASE Answer(r, "ok") /\ \E c \in Conns : conn[ShaOf[r]][c] = "ok"
        <5>1. BlobKnown(ShaOf[r])'
          BY <2>0, <3>1, <4>1 DEF AnswersFit
        <5> QED BY <4>1, <5>1, GotoAt DEF Answer, TypeOK
      <4>2. CASE Answer(r, "error")
        BY <4>2, GotoAt DEF Answer, TypeOK
      <4> QED BY <2>9, <4>1, <4>2 DEF EndRace
    <3>3. \A t \in Shas, d \in Conns :
              conn'[t][d] \in {"announce", "ok"} => conn[t][d] \in {"announce", "ok"}
      BY <2>9, <2>0 DEF EndRace, TypeOK
    <3> QED BY <3>1, <3>2, <3>3 DEF AnswersFit
  <2>10. CASE Unpack(r)
    <3>1. \A t \in Shas : BlobKnown(t) => BlobKnown(t)'
      BY <2>10, <2>0, KnownStays DEF Unpack, TypeOK
    <3>2. \A w \in Requests :
              pc'[w] = "unpack" \/ result'[w] = "ok" =>
                  \/ pc[w] = "unpack" \/ result[w] = "ok"
                  \/ BlobKnown(ShaOf[w])'
      BY <2>10, GotoAt DEF Unpack
    <3>3. \A t \in Shas, d \in Conns :
              conn'[t][d] \in {"announce", "ok"} => conn[t][d] \in {"announce", "ok"}
      BY <2>10 DEF Unpack
    <3> QED BY <3>1, <3>2, <3>3 DEF AnswersFit
  <2>11. CASE Discard(r)
    <3>1. /\ blob'[ShaOf[r]] = "absent" /\ tries'[r] = tries[r] + 1
          /\ tries[r] \in Nat
          /\ \A s \in Shas \ {ShaOf[r]} : blob'[s] = blob[s]
          /\ \A w \in Requests \ {r} : tries'[w] = tries[w]
      BY <2>11, <2>0 DEF Discard, TypeOK
    <3>2. BlobKnown(ShaOf[r])'
      BY <3>1 DEF BlobKnown
    <3>3. ASSUME NEW s \in Shas, BlobKnown(s) PROVE BlobKnown(s)'
      <4>1. CASE s = ShaOf[r]
        BY <3>2, <4>1
      <4>2. CASE s # ShaOf[r]
        BY <3>1, <3>3, <4>2 DEF BlobKnown
      <4> QED BY <4>1, <4>2
    <3>4. \A w \in Requests : pc'[w] = "unpack" => pc[w] = "unpack"
      BY <2>11, GotoAt DEF Discard
    <3>5. UNCHANGED <<result, conn>>
      BY <2>11 DEF Discard
    <3> QED BY <3>3, <3>4, <3>5 DEF AnswersFit
  <2>12. ASSUME NEW k \in Chunks, ChunkDone(r, k) PROVE AnswersFit'
    BY <2>12, <2>0 DEF ChunkDone, TypeOK, AnswersFit, BlobKnown
  <2>13. ASSUME NEW k \in Chunks, ChunkFail(r, k) PROVE AnswersFit'
    <3>1. \A t \in Shas : BlobKnown(t) => BlobKnown(t)'
      BY <2>13, <2>0, KnownStays DEF ChunkFail, TypeOK
    <3>2. \A w \in Requests :
              pc'[w] = "unpack" \/ result'[w] = "ok" =>
                  \/ pc[w] = "unpack" \/ result[w] = "ok"
                  \/ BlobKnown(ShaOf[w])'
      BY <2>13, GotoAt, NextUrlAt, StartRaceAt DEF ChunkFail
    <3>3. \A t \in Shas, d \in Conns :
              conn'[t][d] \in {"announce", "ok"} => conn[t][d] \in {"announce", "ok"}
      BY <2>13, <2>0, NextUrlAt, StartRaceAt DEF ChunkFail
    <3> QED BY <3>1, <3>2, <3>3 DEF AnswersFit
  <2>14. ASSUME NEW k \in Chunks, ChunkNotWritten(r, k) PROVE AnswersFit'
    <3>1. \A t \in Shas : BlobKnown(t) => BlobKnown(t)'
      BY <2>14, <2>0, KnownStays, NotWrittenAt
    <3>2. \A w \in Requests :
              pc'[w] = "unpack" \/ result'[w] = "ok" =>
                  \/ pc[w] = "unpack" \/ result[w] = "ok"
                  \/ BlobKnown(ShaOf[w])'
      BY <2>14, NotWrittenAt, GotoAt, OtherUrlAt, StartRaceAt
    <3>3. \A t \in Shas, d \in Conns :
              conn'[t][d] \in {"announce", "ok"} => conn[t][d] \in {"announce", "ok"}
      BY <2>14, <2>0, NotWrittenAt, OtherUrlAt, StartRaceAt
    <3> QED BY <3>1, <3>2, <3>3 DEF AnswersFit
  <2> QED
    BY <1>1, <2>1, <2>2, <2>3, <2>4, <2>5, <2>6, <2>7, <2>8, <2>9, <2>10,
      <2>11, <2>12, <2>13, <2>14 DEF Request
<1>2. ASSUME NEW s \in Shas, Task(s) PROVE AnswersFit'
  <2>1. ASSUME NEW k \in Chunks, ChunkStart(s, k) PROVE AnswersFit'
    BY <2>1 DEF ChunkStart, RoomForOne, TypeOK, AnswersFit, BlobKnown
  <2>2. ASSUME NEW c \in Conns, ConnStart(s, c) PROVE AnswersFit'
    <3>1. \A t \in Shas : BlobKnown(t) => BlobKnown(t)'
      BY <2>2, KnownStays DEF ConnStart, TypeOK, ConnUnchanged, RemoveBad, Verified
    <3>2. \A t \in Shas, d \in Conns :
              conn'[t][d] \in {"announce", "ok"} => BlobKnown(t)'
      <4>1. \A t \in Shas, d \in Conns :
                \/ conn'[t][d] = conn[t][d]
                \/ conn'[t][d] \notin {"announce", "ok"}
                \/ t = s /\ blob'[s] \in {"good", "vouched"}
        <5>1. CASE Verified(s) /\ ~done[s]
          BY <2>2, <5>1, SetConnAt DEF ConnStart, TypeOK, RemoveBad, Verified
        <5>2. CASE ~Verified(s) \/ done[s]
          BY <2>2, <5>2, SetConnAt DEF ConnStart
        <5> QED BY <5>1, <5>2
      <4> QED BY <3>1, <4>1 DEF AnswersFit, BlobKnown
    <3>3. UNCHANGED <<pc, result>>
      BY <2>2 DEF ConnStart, ConnUnchanged
    <3> QED BY <3>1, <3>2, <3>3 DEF AnswersFit
  <2>3. ASSUME NEW c \in Conns, ConnRequest(s, c) PROVE AnswersFit'
    <3>1. \A t \in Shas : BlobKnown(t) => BlobKnown(t)'
      BY <2>3, KnownStays DEF ConnRequest, TypeOK, ConnUnchanged
    <3>2. \A t \in Shas, d \in Conns :
              conn'[t][d] \in {"announce", "ok"} => BlobKnown(t)'
      <4>1. \A t \in Shas, d \in Conns :
                \/ conn'[t][d] = conn[t][d]
                \/ conn'[t][d] \notin {"announce", "ok"}
                \/ t = s /\ blob'[s] \in {"good", "vouched"}
        BY <2>3, SetConnAt DEF ConnRequest, TypeOK
      <4> QED BY <3>1, <4>1 DEF AnswersFit, BlobKnown
    <3>3. UNCHANGED <<pc, result>>
      BY <2>3 DEF ConnRequest, ConnUnchanged
    <3> QED BY <3>1, <3>2, <3>3 DEF AnswersFit
  <2>4. ASSUME NEW c \in Conns, ConnGate(s, c) PROVE AnswersFit'
    <3>1. \A t \in Shas : BlobKnown(t) => BlobKnown(t)'
      BY <2>4, KnownStays DEF ConnGate, TypeOK, ConnUnchanged
    <3>2. \A t \in Shas, d \in Conns :
              conn'[t][d] \in {"announce", "ok"} => BlobKnown(t)'
      <4>1. \A t \in Shas, d \in Conns :
                \/ conn'[t][d] = conn[t][d]
                \/ conn'[t][d] \notin {"announce", "ok"}
                \/ t = s /\ blob'[s] \in {"good", "vouched"}
        BY <2>4, SetConnAt DEF ConnGate, TypeOK
      <4> QED BY <3>1, <4>1 DEF AnswersFit, BlobKnown
    <3>3. UNCHANGED <<pc, result>>
      BY <2>4 DEF ConnGate, ConnUnchanged
    <3> QED BY <3>1, <3>2, <3>3 DEF AnswersFit
  <2>5. ASSUME NEW c \in Conns, ConnCheck(s, c) PROVE AnswersFit'
    <3>1. \A t \in Shas : BlobKnown(t) => BlobKnown(t)'
      BY <2>5, KnownStays DEF ConnCheck, TypeOK, ConnUnchanged, RemoveBad, Verified
    <3>2. \A t \in Shas, d \in Conns :
              conn'[t][d] \in {"announce", "ok"} => BlobKnown(t)'
      <4>1. \A t \in Shas, d \in Conns :
                \/ conn'[t][d] = conn[t][d]
                \/ conn'[t][d] \notin {"announce", "ok"}
                \/ t = s /\ blob'[s] \in {"good", "vouched"}
        BY <2>5, SetConnAt, EndConnAt DEF ConnCheck, TypeOK, RemoveBad, Verified
      <4> QED BY <3>1, <4>1 DEF AnswersFit, BlobKnown
    <3>3. UNCHANGED <<pc, result>>
      BY <2>5 DEF ConnCheck, ConnUnchanged
    <3> QED BY <3>1, <3>2, <3>3 DEF AnswersFit
  <2>6. ASSUME NEW c \in Conns, ConnPermit(s, c) PROVE AnswersFit'
    <3>1. \A t \in Shas : BlobKnown(t) => BlobKnown(t)'
      BY <2>6, KnownStays DEF ConnPermit, TypeOK, ConnUnchanged
    <3>2. \A t \in Shas, d \in Conns :
              conn'[t][d] \in {"announce", "ok"} => BlobKnown(t)'
      <4>1. \A t \in Shas, d \in Conns :
                \/ conn'[t][d] = conn[t][d]
                \/ conn'[t][d] \notin {"announce", "ok"}
                \/ t = s /\ blob'[s] \in {"good", "vouched"}
        BY <2>6, SetConnAt DEF ConnPermit, TypeOK
      <4> QED BY <3>1, <4>1 DEF AnswersFit, BlobKnown
    <3>3. UNCHANGED <<pc, result>>
      BY <2>6 DEF ConnPermit, ConnUnchanged
    <3> QED BY <3>1, <3>2, <3>3 DEF AnswersFit
  <2>7. ASSUME NEW c \in Conns, ConnBody(s, c) PROVE AnswersFit'
    <3>1. \A t \in Shas : BlobKnown(t) => BlobKnown(t)'
      BY <2>7, KnownStays DEF ConnBody, TypeOK, ConnUnchanged
    <3>2. \A t \in Shas, d \in Conns :
              conn'[t][d] \in {"announce", "ok"} => BlobKnown(t)'
      <4>1. \A t \in Shas, d \in Conns :
                \/ conn'[t][d] = conn[t][d]
                \/ conn'[t][d] \notin {"announce", "ok"}
                \/ t = s /\ blob'[s] \in {"good", "vouched"}
        <5>1. CASE EndConn(s, c, "failed")
          BY <5>1, EndConnAt
        <5>2. CASE blob' = [blob EXCEPT ![s] = "good"] /\ SetConn(s, c, "announce")
          <6>1. blob'[s] = "good"
            BY <5>2 DEF TypeOK
          <6> QED BY <5>2, <6>1, SetConnAt
        <5> QED BY <2>7, <5>1, <5>2 DEF ConnBody
      <4> QED BY <3>1, <4>1 DEF AnswersFit, BlobKnown
    <3>3. UNCHANGED <<pc, result>>
      BY <2>7 DEF ConnBody, ConnUnchanged
    <3> QED BY <3>1, <3>2, <3>3 DEF AnswersFit
  <2>8. ASSUME NEW c \in Conns, ConnAnnounce(s, c) PROVE AnswersFit'
    <3>1. \A t \in Shas : BlobKnown(t) => BlobKnown(t)'
      BY <2>8, KnownStays DEF ConnAnnounce, ConnUnchanged
    <3>2. BlobKnown(s)
      BY <2>8 DEF ConnAnnounce, AnswersFit
    <3>3. \A t \in Shas, d \in Conns :
              conn'[t][d] \in {"announce", "ok"} => BlobKnown(t)'
      BY <2>8, <3>1, <3>2 DEF ConnAnnounce, AnswersFit, TypeOK
    <3>4. UNCHANGED <<pc, result>>
      BY <2>8 DEF ConnAnnounce, ConnUnchanged
    <3> QED BY <3>1, <3>3, <3>4 DEF AnswersFit
  <2>9. ASSUME NEW k \in Chunks, StrayStart(s, k) PROVE AnswersFit'
    BY <2>9 DEF StrayStart, AnswersFit, BlobKnown
  <2>10. ASSUME NEW k \in Chunks, StrayEnds(s, k) PROVE AnswersFit'
    BY <2>10 DEF StrayEnds, AnswersFit, BlobKnown
  <2> QED
    BY <1>2, <2>1, <2>2, <2>3, <2>4, <2>5, <2>6, <2>7, <2>8, <2>9, <2>10 DEF Task
<1>3. CASE UNCHANGED vars
  BY <1>3 DEF vars, AnswersFit, BlobKnown
<1> QED BY <1>1, <1>2, <1>3 DEF Next

-----------------------------------------------------------------------------
(* Permits.                                                                *)

\* Before and after its race a leader has no connections, before and after
\* its chunks it has no chunk tasks.
LEMMA OnlyInRace ==
    ASSUME TypeOK, MapMatchesLeaders, RaceFits, ChunksFit,
           NEW r \in Requests, pc[r] \in LeaderSteps
    PROVE  /\ pc[r] # "race" => \A c \in Conns : conn[ShaOf[r]][c] = "off"
           /\ pc[r] # "chunks" => \A k \in Chunks : chunk[ShaOf[r]][k] = "off"
  <1>1. \A q \in Requests : ShaOf[q] = ShaOf[r] /\ pc[q] \in LeaderSteps => q = r
    BY DEF MapMatchesLeaders
  <1>2. ShaOf[r] \in Shas
    BY DownloadAssumption
  <1> QED BY <1>1, <1>2 DEF RaceFits, ChunksFit, LeaderSteps

LEMMA FewerPermits ==
    ASSUME IsFiniteSet(permits), Cardinality(permits) <= Permits,
           permits' \subseteq permits
    PROVE  IsFiniteSet(permits') /\ Cardinality(permits') <= Permits
  BY FS_Subset, FS_CardinalityType, DownloadAssumption

LEMMA OneMorePermit ==
    ASSUME IsFiniteSet(permits), RoomForOne, NEW t, permits' = permits \cup {t}
    PROVE  IsFiniteSet(permits') /\ Cardinality(permits') <= Permits
  <1>1. Cardinality(permits) \in Nat /\ Cardinality(permits) < Permits
    BY FS_CardinalityType DEF RoomForOne
  <1>2. /\ IsFiniteSet(permits')
        /\ \/ Cardinality(permits') = Cardinality(permits)
           \/ Cardinality(permits') = Cardinality(permits) + 1
    BY FS_AddElement
  <1> QED BY <1>1, <1>2, DownloadAssumption

LEMMA TaskNames ==
    /\ \A s, t : \A c, d : ConnTask(s, c) = ConnTask(t, d) <=> s = t /\ c = d
    /\ \A s, t : \A k, j : ChunkTask(s, k) = ChunkTask(t, j) <=> s = t /\ k = j
    /\ \A s, t : \A k, j : StrayTask(s, k) = StrayTask(t, j) <=> s = t /\ k = j
    /\ \A s, t : \A c, k : ConnTask(s, c) # ChunkTask(t, k)
    /\ \A s, t : \A c, k : ConnTask(s, c) # StrayTask(t, k)
    /\ \A s, t : \A j, k : ChunkTask(s, j) # StrayTask(t, k)
    /\ \A s, c : ConnTask(s, c)[1] = s /\ ConnTask(s, c)[2] = "conn"
    /\ \A s, k : ChunkTask(s, k)[1] = s /\ ChunkTask(s, k)[2] = "chunk"
    /\ \A s, k : StrayTask(s, k)[1] = s /\ StrayTask(s, k)[2] = "stray"
  BY DEF ConnTask, ChunkTask, StrayTask

CountFits == IsFiniteSet(permits) /\ Cardinality(permits) <= Permits

ChunkPermits ==
    \A s \in Shas, k \in Chunks :
        ChunkTask(s, k) \in permits <=> chunk[s][k] = "active"

StrayPermits ==
    \A s \in Shas, k \in Chunks :
        StrayTask(s, k) \in permits <=> stray[s][k] = "active"

ConnPermits ==
    \A s \in Shas, c \in Conns :
        /\ conn[s][c] = "body" => ConnTask(s, c) \in permits
        /\ ConnTask(s, c) \in permits => conn[s][c] \in {"body", "announce"}

LEMMA PermitParts ==
    /\ PermitsFit <=> CountFits /\ ChunkPermits /\ StrayPermits /\ ConnPermits
    /\ PermitsFit' <=> CountFits' /\ ChunkPermits' /\ StrayPermits' /\ ConnPermits'
  BY DEF PermitsFit, PermitsHeldByReaders, CountFits, ChunkPermits, StrayPermits, ConnPermits

\* An attempt in chunks that fails, or is not made, holds no permit after it.
LEMMA NextUrlPermits ==
    ASSUME TypeOK, MapMatchesLeaders, RaceFits, ChunksFit, PermitsFit,
           NEW r \in Requests, NextUrl(r), pc[r] \in LeaderSteps \ {"race"}, UNCHANGED stray
    PROVE  PermitsFit'
  <1>0. ShaOf[r] \in Shas
    BY DownloadAssumption
  <1>1. CountFits'
    BY NextUrlAt, FewerPermits, PermitParts DEF CountFits
  <1>2. ChunkPermits'
    BY NextUrlAt, TaskNames, PermitParts DEF ChunkPermits
  <1>3. \A t \in Shas, c \in Conns :
            \/ conn'[t][c] = conn[t][c]
            \/ t = ShaOf[r] /\ conn'[t][c] = "sleep"
    BY NextUrlAt, StartRaceAt
  <1>4. \A c \in Conns : conn[ShaOf[r]][c] = "off"
    BY OnlyInRace
  <1>5. \A t \in Shas, c \in Conns :
            ConnTask(t, c) \in permits' <=> ConnTask(t, c) \in permits
    BY NextUrlAt, TaskNames
  <1>6. ConnPermits'
    BY <1>0, <1>3, <1>4, <1>5, PermitParts DEF ConnPermits
  <1>7. StrayPermits'
    BY NextUrlAt, TaskNames, PermitParts DEF StrayPermits
  <1> QED BY <1>1, <1>2, <1>6, <1>7, PermitParts

\* Permits that change hands: each new one was that of a task that ended.
LEMMA HandedOver ==
    ASSUME CountFits, NEW Old, NEW New, NEW From,
           permits' = (permits \ Old) \cup New,
           \A t \in New : From[t] \in permits \cap Old,
           \A t, u \in New : From[t] = From[u] => t = u
    PROVE  CountFits'
  <1> DEFINE Back(t) == IF t \in permits \ Old THEN t ELSE From[t]
  <1>1. \A t \in permits' : Back(t) \in permits
    OBVIOUS
  <1>2. \A t, u \in permits' : Back(t) = Back(u) => t = u
    OBVIOUS
  <1> DEFINE f == [t \in permits' |-> Back(t)]
  <1>3. f \in Injection(permits', permits)
    BY <1>1, <1>2 DEF Injection, IsInjective
  <1>4. IsFiniteSet(permits') /\ Cardinality(permits') <= Cardinality(permits)
    BY <1>3, FS_Injection DEF CountFits
  <1> QED BY <1>4, FS_CardinalityType, DownloadAssumption DEF CountFits

\* The tasks a failed write leaves keep the permits they have.
LEMMA StraysPermits ==
    ASSUME TypeOK, MapMatchesLeaders, RaceFits, ChunksFit, PermitsFit,
           NEW r \in Requests, NEW k \in Chunks, ChunkNotWritten(r, k)
    PROVE  PermitsFit'
  <1> DEFINE s == ShaOf[r]
             left == LeftBy(s, k)
             new == {StrayTask(s, j) : j \in {i \in Chunks : left[i] = "active"}}
  <1>1. /\ s \in Shas /\ pc[r] = "chunks" /\ StraysGone(s)
        /\ stray' = [stray EXCEPT ![s] = left]
        /\ permits' = (permits \ ChunkPermitsOf(s)) \cup new
    BY NotWrittenAt
  <1>2. /\ left \in [Chunks -> {"off", "queued", "active"}]
        /\ \A j \in Chunks : left[j] = "active" => chunk[s][j] = "active"
    BY <1>1, LeftByAt
  <1>3. \A t \in Shas, j \in Chunks :
            stray'[t][j] = IF t = s THEN left[j] ELSE stray[t][j]
    <2> HIDE DEF s, left, new
    <2> QED BY <1>1 DEF TypeOK
  <1>4. \A t \in Shas, j \in Chunks :
            chunk'[t][j] = IF t = s THEN "off" ELSE chunk[t][j]
    BY <1>1, NotWrittenAt DEF TypeOK, ChunksOff
  <1>5. \A t \in Shas, c \in Conns :
            \/ conn'[t][c] = conn[t][c]
            \/ t = s /\ conn'[t][c] = "sleep"
    BY NotWrittenAt, OtherUrlAt, StartRaceAt
  <1>6. \A c \in Conns : conn[s][c] = "off"
    BY <1>1, OnlyInRace DEF LeaderSteps
  <1>7. \A t \in Shas, j \in Chunks :
            StrayTask(t, j) \in new <=> t = s /\ left[j] = "active"
    BY TaskNames
  <1>8. \A t : t \in ChunkPermitsOf(s) <=> t \in permits /\ t[1] = s /\ t[2] = "chunk"
    BY DEF ChunkPermitsOf
  <1>9. \A t \in new : t[2] = "stray"
    BY TaskNames
  <1> HIDE DEF s, left
  <1>10. CountFits'
    <2> DEFINE From == [t \in new |-> ChunkTask(s, t[3])]
    <2>1. \A j : StrayTask(s, j)[3] = j
      BY DEF StrayTask
    <2>2. \A t \in new : From[t] \in permits \cap ChunkPermitsOf(s)
      <3> SUFFICES ASSUME NEW j \in Chunks, left[j] = "active"
                   PROVE  ChunkTask(s, j) \in permits \cap ChunkPermitsOf(s)
        BY <2>1
      <3>1. ChunkTask(s, j) \in permits
        BY <1>1, <1>2, PermitParts DEF ChunkPermits
      <3> QED BY <3>1, <1>8, TaskNames
    <2>3. \A t, u \in new : From[t] = From[u] => t = u
      BY <2>1, TaskNames
    <2>4. CountFits
      BY PermitParts
    <2> HIDE DEF new, From
    <2> QED BY <1>1, <2>2, <2>3, <2>4, HandedOver
  <1> HIDE DEF new
  <1>11. ChunkPermits'
    BY <1>1, <1>4, <1>8, <1>9, TaskNames, PermitParts DEF ChunkPermits
  <1>12. StrayPermits'
    BY <1>1, <1>3, <1>7, <1>8, TaskNames, PermitParts DEF StrayPermits, StraysGone
  <1>13. ConnPermits'
    <2>1. \A t \in Shas, c \in Conns :
              ConnTask(t, c) \in permits' <=> ConnTask(t, c) \in permits
      BY <1>1, <1>8, <1>9, TaskNames
    <2> QED BY <1>5, <1>6, <2>1, PermitParts DEF ConnPermits
  <1> QED BY <1>10, <1>11, <1>12, <1>13, PermitParts

\* Every way out of a body gives its permit back.
LEMMA PermitStep ==
    ASSUME TypeOK, MapMatchesLeaders, RaceFits, ChunksFit, PermitsFit, [Next]_vars
    PROVE  PermitsFit'
<1> USE DownloadAssumption
<1>1. ASSUME NEW r \in Requests, Request(r) PROVE PermitsFit'
  <2>0. ShaOf[r] \in Shas OBVIOUS
  <2>1. CASE Join(r)
    BY <2>1 DEF Join, PermitsFit, PermitsHeldByReaders
  <2>2. CASE Publish(r)
    BY <2>2 DEF Publish, PermitsFit, PermitsHeldByReaders
  <2>3. CASE Receive(r)
    BY <2>3 DEF Receive, PermitsFit, PermitsHeldByReaders
  <2>4. CASE Verify(r)
    BY <2>4 DEF Verify, PermitsFit, PermitsHeldByReaders
  <2>5. CASE Probe(r)
    <3>1. \A c \in Conns : conn[ShaOf[r]][c] = "off"
      BY <2>5, OnlyInRace DEF Probe, LeaderSteps
    <3>2. \A t \in Shas, c \in Conns :
              \/ conn'[t][c] = conn[t][c]
              \/ t = ShaOf[r] /\ conn'[t][c] = "sleep"
      BY <2>5, StartRaceAt DEF Probe
    <3>3. UNCHANGED <<permits, chunk, stray>>
      BY <2>5 DEF Probe
    <3>4. ConnPermits'
      BY <2>0, <3>1, <3>2, <3>3, PermitParts DEF ConnPermits
    <3> QED BY <3>3, <3>4, PermitParts DEF CountFits, ChunkPermits, StrayPermits
  <2>6. CASE ValidateRange(r)
    <3>1. CASE NextUrl(r)
      BY <2>6, <3>1, NextUrlPermits DEF ValidateRange, LeaderSteps
    <3>2. CASE UNCHANGED <<chunk, stray, conn, permits>>
      BY <3>2 DEF PermitsFit, PermitsHeldByReaders
    <3> DEFINE f == [k \in Chunks |->
                        IF k <= MaxConcurrentChunks THEN "queued" ELSE "off"]
    <3>3. CASE chunk' = [chunk EXCEPT ![ShaOf[r]] = f] /\ UNCHANGED <<stray, conn, permits>>
      <4>1. \A t \in Shas, k \in Chunks :
                \/ chunk'[t][k] = chunk[t][k]
                \/ t = ShaOf[r] /\ chunk'[t][k] # "active"
        BY <2>0, <3>3 DEF TypeOK
      <4>2. \A k \in Chunks : chunk[ShaOf[r]][k] = "off"
        BY <2>6, OnlyInRace DEF ValidateRange, LeaderSteps
      <4>3. ChunkPermits'
        BY <3>3, <4>1, <4>2, PermitParts DEF ChunkPermits
      <4> QED BY <3>3, <4>3, PermitParts DEF CountFits, StrayPermits, ConnPermits
    <3> QED BY <2>6, <3>1, <3>2, <3>3 DEF ValidateRange
  <2>7. CASE Whole(r)
    <3>1. CASE NextUrl(r)
      BY <2>7, <3>1, NextUrlPermits DEF Whole, LeaderSteps
    <3>2. CASE UNCHANGED <<chunk, stray, conn, permits>>
      BY <3>2 DEF PermitsFit, PermitsHeldByReaders
    <3> QED BY <2>7, <3>1, <3>2 DEF Whole
  <2>8. CASE ChunkCommit(r)
    <3>1. CASE NextUrl(r)
      BY <2>8, <3>1, NextUrlPermits DEF ChunkCommit, LeaderSteps
    <3>2. CASE /\ ChunksOff(ShaOf[r])
               /\ UNCHANGED <<stray, conn, permits>>
      <4>1. \A t \in Shas, k \in Chunks :
                chunk'[t][k] = IF t = ShaOf[r] THEN "off" ELSE chunk[t][k]
        BY <2>0, <3>2 DEF TypeOK, ChunksOff
      <4>2. \A k \in Chunks : chunk[ShaOf[r]][k] = "done"
        BY <2>8 DEF ChunkCommit
      <4>3. ChunkPermits'
        BY <3>2, <4>1, <4>2, PermitParts DEF ChunkPermits
      <4> QED BY <3>2, <4>3, PermitParts DEF CountFits, StrayPermits, ConnPermits
    <3> QED BY <2>8, <3>1, <3>2 DEF ChunkCommit
  <2>9. CASE EndRace(r)
    <3>1. permits' = {t \in permits : ~(t[1] = ShaOf[r] /\ t[2] = "conn")}
      BY <2>9 DEF EndRace
    <3>2. \A t \in Shas, c \in Conns :
              conn'[t][c] = IF t = ShaOf[r] THEN "off" ELSE conn[t][c]
      BY <2>9, <2>0 DEF EndRace, TypeOK
    <3>3. CountFits'
      BY <3>1, FewerPermits, PermitParts DEF CountFits
    <3>4. ChunkPermits'
      BY <2>9, <3>1, TaskNames, PermitParts DEF ChunkPermits, EndRace
    <3>5. ConnPermits'
      BY <3>1, <3>2, TaskNames, PermitParts DEF ConnPermits
    <3>6. StrayPermits'
      BY <2>9, <3>1, TaskNames, PermitParts DEF StrayPermits, EndRace
    <3> QED BY <3>3, <3>4, <3>5, <3>6, PermitParts
  <2>10. CASE Unpack(r)
    BY <2>10 DEF Unpack, PermitsFit, PermitsHeldByReaders
  <2>11. CASE Discard(r)
    BY <2>11 DEF Discard, PermitsFit, PermitsHeldByReaders
  <2>12. ASSUME NEW k \in Chunks, ChunkDone(r, k) PROVE PermitsFit'
    <3>1. /\ permits' = permits \ {ChunkTask(ShaOf[r], k)}
          /\ UNCHANGED <<conn, stray>>
      BY <2>12 DEF ChunkDone
    <3>2. /\ chunk'[ShaOf[r]][k] = "done"
          /\ \A t \in Shas, j \in Chunks : t # ShaOf[r] \/ j # k =>
                chunk'[t][j] = "active" <=> chunk[t][j] = "active"
      <4>1. \A t \in Shas : chunk'[t] = IF t = ShaOf[r] THEN AfterChunk(ShaOf[r], k)
                                                      ELSE chunk[t]
        BY <2>12, <2>0 DEF ChunkDone, TypeOK
      <4>2. /\ AfterChunk(ShaOf[r], k)[k] = "done"
            /\ \A j \in Chunks \ {k} :
                  AfterChunk(ShaOf[r], k)[j] = "active" <=> chunk[ShaOf[r]][j] = "active"
        BY DEF AfterChunk
      <4> QED BY <2>0, <4>1, <4>2
    <3>3. CountFits'
      BY <3>1, FewerPermits, PermitParts DEF CountFits
    <3>4. ChunkPermits'
      BY <3>1, <3>2, TaskNames, PermitParts DEF ChunkPermits
    <3>5. ConnPermits'
      BY <3>1, TaskNames, PermitParts DEF ConnPermits
    <3>6. StrayPermits'
      BY <3>1, TaskNames, PermitParts DEF StrayPermits
    <3> QED BY <3>3, <3>4, <3>5, <3>6, PermitParts
  <2>13. ASSUME NEW k \in Chunks, ChunkFail(r, k) PROVE PermitsFit'
    BY <2>13, NextUrlPermits DEF ChunkFail, LeaderSteps
  <2>14. ASSUME NEW k \in Chunks, ChunkNotWritten(r, k) PROVE PermitsFit'
    BY <2>14, StraysPermits
  <2> QED
    BY <1>1, <2>1, <2>2, <2>3, <2>4, <2>5, <2>6, <2>7, <2>8, <2>9, <2>10,
      <2>11, <2>12, <2>13, <2>14 DEF Request
<1>2. ASSUME NEW s \in Shas, Task(s) PROVE PermitsFit'
  <2>1. ASSUME NEW k \in Chunks, ChunkStart(s, k) PROVE PermitsFit'
    <3>1. /\ permits' = permits \cup {ChunkTask(s, k)} /\ RoomForOne
          /\ UNCHANGED <<conn, stray>>
      BY <2>1 DEF ChunkStart
    <3>2. \A t \in Shas, j \in Chunks :
              chunk'[t][j] = IF t = s /\ j = k THEN "active" ELSE chunk[t][j]
      BY <2>1 DEF ChunkStart, TypeOK
    <3>3. CountFits'
      BY <3>1, OneMorePermit, PermitParts DEF CountFits
    <3>4. ChunkPermits'
      BY <3>1, <3>2, TaskNames, PermitParts DEF ChunkPermits
    <3>5. ConnPermits'
      BY <3>1, TaskNames, PermitParts DEF ConnPermits
    <3>6. StrayPermits'
      BY <3>1, TaskNames, PermitParts DEF StrayPermits
    <3> QED BY <3>3, <3>4, <3>5, <3>6, PermitParts
  <2>2. ASSUME NEW c \in Conns, ConnStart(s, c) PROVE PermitsFit'
    <3>1. UNCHANGED <<permits, chunk, stray>>
      BY <2>2 DEF ConnStart, ConnUnchanged
    <3>2. \A t \in Shas, d \in Conns :
              \/ conn'[t][d] = conn[t][d]
              \/ conn[t][d] \notin {"body", "announce"} /\ conn'[t][d] # "body"
      BY <2>2, SetConnAt DEF ConnStart
    <3>3. ConnPermits'
      BY <3>1, <3>2, PermitParts DEF ConnPermits
    <3> QED BY <3>1, <3>3, PermitParts DEF CountFits, ChunkPermits, StrayPermits
  <2>3. ASSUME NEW c \in Conns, ConnRequest(s, c) PROVE PermitsFit'
    <3>1. UNCHANGED <<permits, chunk, stray>>
      BY <2>3 DEF ConnRequest, ConnUnchanged
    <3>2. \A t \in Shas, d \in Conns :
              \/ conn'[t][d] = conn[t][d]
              \/ conn[t][d] \notin {"body", "announce"} /\ conn'[t][d] # "body"
      BY <2>3, SetConnAt DEF ConnRequest
    <3>3. ConnPermits'
      BY <3>1, <3>2, PermitParts DEF ConnPermits
    <3> QED BY <3>1, <3>3, PermitParts DEF CountFits, ChunkPermits, StrayPermits
  <2>4. ASSUME NEW c \in Conns, ConnGate(s, c) PROVE PermitsFit'
    <3>1. UNCHANGED <<permits, chunk, stray>>
      BY <2>4 DEF ConnGate, ConnUnchanged
    <3>2. \A t \in Shas, d \in Conns :
              \/ conn'[t][d] = conn[t][d]
              \/ conn[t][d] \notin {"body", "announce"} /\ conn'[t][d] # "body"
      BY <2>4, SetConnAt DEF ConnGate
    <3>3. ConnPermits'
      BY <3>1, <3>2, PermitParts DEF ConnPermits
    <3> QED BY <3>1, <3>3, PermitParts DEF CountFits, ChunkPermits, StrayPermits
  <2>5. ASSUME NEW c \in Conns, ConnCheck(s, c) PROVE PermitsFit'
    <3>1. CASE ~done[s]
      <4>1. UNCHANGED <<permits, chunk, stray>>
        BY <2>5, <3>1 DEF ConnCheck, ConnUnchanged
      <4>2. ConnPermits'
        BY <2>5, <3>1, <4>1, SetConnAt, PermitParts DEF ConnPermits, ConnCheck
      <4> QED BY <4>1, <4>2, PermitParts DEF CountFits, ChunkPermits, StrayPermits
    <3>2. CASE EndConn(s, c, "failed")
      <4>1. permits' = permits \ {ConnTask(s, c)} /\ UNCHANGED <<chunk, stray>>
        BY <2>5, <3>2 DEF ConnCheck, ConnUnchanged, EndConn
      <4>2. \A t \in Shas, d \in Conns :
                \/ conn'[t][d] = conn[t][d] /\ ~(t = s /\ d = c)
                \/ t = s /\ d = c /\ conn'[t][d] = "failed"
        BY <2>5, <3>2, EndConnAt
      <4>3. CountFits'
        BY <4>1, FewerPermits, PermitParts DEF CountFits
      <4>4. ChunkPermits'
        BY <4>1, TaskNames, PermitParts DEF ChunkPermits
      <4>5. ConnPermits'
        BY <4>1, <4>2, TaskNames, PermitParts DEF ConnPermits
      <4>6. StrayPermits'
        BY <4>1, TaskNames, PermitParts DEF StrayPermits
      <4> QED BY <4>3, <4>4, <4>5, <4>6, PermitParts
    <3> QED BY <2>5, <3>1, <3>2 DEF ConnCheck
  <2>6. ASSUME NEW c \in Conns, ConnPermit(s, c) PROVE PermitsFit'
    <3>1. permits' = permits \cup {ConnTask(s, c)} /\ RoomForOne /\ UNCHANGED <<chunk, stray>>
      BY <2>6 DEF ConnPermit, ConnUnchanged
    <3>2. CountFits'
      BY <3>1, OneMorePermit, PermitParts DEF CountFits
    <3>3. ChunkPermits'
      BY <3>1, TaskNames, PermitParts DEF ChunkPermits
    <3>4. ConnPermits'
      BY <2>6, <3>1, SetConnAt, TaskNames, PermitParts DEF ConnPermits, ConnPermit
    <3>5. StrayPermits'
      BY <3>1, TaskNames, PermitParts DEF StrayPermits
    <3> QED BY <3>2, <3>3, <3>4, <3>5, PermitParts
  <2>7. ASSUME NEW c \in Conns, ConnBody(s, c) PROVE PermitsFit'
    <3>1. CASE SetConn(s, c, "announce") /\ UNCHANGED permits
      <4>1. UNCHANGED <<permits, chunk, stray>>
        BY <2>7, <3>1 DEF ConnBody, ConnUnchanged
      <4>2. ConnPermits'
        BY <2>7, <3>1, <4>1, SetConnAt, PermitParts DEF ConnPermits, ConnBody
      <4> QED BY <4>1, <4>2, PermitParts DEF CountFits, ChunkPermits, StrayPermits
    <3>2. CASE EndConn(s, c, "failed")
      <4>1. permits' = permits \ {ConnTask(s, c)} /\ UNCHANGED <<chunk, stray>>
        BY <2>7, <3>2 DEF ConnBody, ConnUnchanged, EndConn
      <4>2. \A t \in Shas, d \in Conns :
                \/ conn'[t][d] = conn[t][d] /\ ~(t = s /\ d = c)
                \/ t = s /\ d = c /\ conn'[t][d] = "failed"
        BY <2>7, <3>2, EndConnAt
      <4>3. CountFits'
        BY <4>1, FewerPermits, PermitParts DEF CountFits
      <4>4. ChunkPermits'
        BY <4>1, TaskNames, PermitParts DEF ChunkPermits
      <4>5. ConnPermits'
        BY <4>1, <4>2, TaskNames, PermitParts DEF ConnPermits
      <4>6. StrayPermits'
        BY <4>1, TaskNames, PermitParts DEF StrayPermits
      <4> QED BY <4>3, <4>4, <4>5, <4>6, PermitParts
    <3> QED BY <2>7, <3>1, <3>2 DEF ConnBody
  <2>8. ASSUME NEW c \in Conns, ConnAnnounce(s, c) PROVE PermitsFit'
    <3>1. permits' = permits \ {ConnTask(s, c)} /\ UNCHANGED <<chunk, stray>>
      BY <2>8 DEF ConnAnnounce, ConnUnchanged
    <3>2. \A t \in Shas, d \in Conns :
              \/ conn'[t][d] = conn[t][d] /\ ~(t = s /\ d = c)
              \/ t = s /\ d = c
              \/ conn[t][d] = "gate" /\ conn'[t][d] = "woken"
      BY <2>8 DEF ConnAnnounce, TypeOK
    <3>3. conn'[s][c] = "ok"
      BY <2>8 DEF ConnAnnounce, TypeOK
    <3>4. CountFits'
      BY <3>1, FewerPermits, PermitParts DEF CountFits
    <3>5. ChunkPermits'
      BY <3>1, TaskNames, PermitParts DEF ChunkPermits
    <3>6. ConnPermits'
      BY <3>1, <3>2, <3>3, TaskNames, PermitParts DEF ConnPermits
    <3>7. StrayPermits'
      BY <3>1, TaskNames, PermitParts DEF StrayPermits
    <3> QED BY <3>4, <3>5, <3>6, <3>7, PermitParts
  <2>9. ASSUME NEW k \in Chunks, StrayStart(s, k) PROVE PermitsFit'
    <3>1. /\ permits' = permits \cup {StrayTask(s, k)} /\ RoomForOne
          /\ UNCHANGED <<conn, chunk>>
      BY <2>9 DEF StrayStart
    <3>2. \A t \in Shas, j \in Chunks :
              stray'[t][j] = IF t = s /\ j = k THEN "active" ELSE stray[t][j]
      BY <2>9 DEF StrayStart, TypeOK
    <3>3. CountFits'
      BY <3>1, OneMorePermit, PermitParts DEF CountFits
    <3>4. StrayPermits'
      BY <3>1, <3>2, TaskNames, PermitParts DEF StrayPermits
    <3>5. ConnPermits' /\ ChunkPermits'
      BY <3>1, TaskNames, PermitParts DEF ConnPermits, ChunkPermits
    <3> QED BY <3>3, <3>4, <3>5, PermitParts
  <2>10. ASSUME NEW k \in Chunks, StrayEnds(s, k) PROVE PermitsFit'
    <3>1. permits' = permits \ {StrayTask(s, k)} /\ UNCHANGED <<conn, chunk>>
      BY <2>10 DEF StrayEnds
    <3>2. \A t \in Shas, j \in Chunks :
              stray'[t][j] = IF t = s /\ j = k THEN "off" ELSE stray[t][j]
      BY <2>10 DEF StrayEnds, TypeOK
    <3>3. CountFits'
      BY <3>1, FewerPermits, PermitParts DEF CountFits
    <3>4. StrayPermits'
      BY <3>1, <3>2, TaskNames, PermitParts DEF StrayPermits
    <3>5. ConnPermits' /\ ChunkPermits'
      BY <3>1, TaskNames, PermitParts DEF ConnPermits, ChunkPermits
    <3> QED BY <3>3, <3>4, <3>5, PermitParts
  <2> QED
    BY <1>2, <2>1, <2>2, <2>3, <2>4, <2>5, <2>6, <2>7, <2>8, <2>9, <2>10 DEF Task
<1>3. CASE UNCHANGED vars
  BY <1>3 DEF vars, PermitsFit, PermitsHeldByReaders
<1> QED BY <1>1, <1>2, <1>3 DEF Next

-----------------------------------------------------------------------------
(* Theorems.                                                               *)

LEMMA InvInit == Init => IInv
<1> SUFFICES ASSUME Init PROVE IInv OBVIOUS
<1> USE DownloadAssumption
<1>1. TypeOK
  <2>1. [c \in Conns |-> "off"] \in [Conns -> ConnStates]
    BY DEF ConnStates
  <2>2. [k \in Chunks |-> "off"] \in [Chunks -> ChunkStates]
    BY DEF ChunkStates
  <2>3. pc \in [Requests -> Steps]
    BY StepNames DEF Init
  <2>4. url \in [Requests -> 0..Mirrors] /\ tries \in [Requests -> 0..MaxRetries]
    BY DEF Init
  <2>5. [k \in Chunks |-> "off"] \in [Chunks -> {"off", "queued", "active"}]
    OBVIOUS
  <2>6. stray \in [Shas -> [Chunks -> {"off", "queued", "active"}]]
    BY <2>5 DEF Init
  <2>7. chunk \in [Shas -> [Chunks -> ChunkStates]]
    BY <2>2 DEF Init
  <2> QED BY <2>1, <2>3, <2>4, <2>6, <2>7 DEF Init, TypeOK
<1>2. TriesBounded /\ PublishFits
  BY DEF Init, TriesBounded, PublishFits
<1>3. MapMatchesLeaders
  BY DEF Init, MapMatchesLeaders, LeaderSteps, Waiting
<1>4. RaceFits /\ ChunksFit /\ GateFits /\ AnswersFit
  BY DEF Init, RaceFits, ChunksFit, GateFits, AnswersFit
<1>5. PermitsFit
  BY FS_EmptySet DEF Init, PermitsFit, PermitsHeldByReaders
<1> QED BY <1>1, <1>2, <1>3, <1>4, <1>5 DEF IInv

LEMMA InvStep == IInv /\ [Next]_vars => IInv'
  BY TypeStep, TriesStep, PublishStep, MapStep, RaceStep, ChunksStep, GateStep,
    AnswersStep, PermitStep DEF IInv

THEOREM Invariance == Spec => []IInv
  BY InvInit, InvStep, PTL DEF Spec

\* All variables keep their types (the state of network/download).
THEOREM TypeCorrect == Spec => []TypeOK
<1>1. IInv => TypeOK
  BY DEF IInv
<1> QED BY <1>1, Invariance, PTL

\* The in-flight map names the leaders, and no follower waits without one
\* (download_with_dedup).
THEOREM MapCorrect == Spec => []MapMatchesLeaders
<1>1. IInv => MapMatchesLeaders
  BY DEF IInv
<1> QED BY <1>1, Invariance, PTL

\* The permits are those of tasks that read, and never too many
\* (global_semaphore).
THEOREM PermitsCorrect == Spec => []PermitsHeldByReaders
<1>1. IInv => PermitsHeldByReaders
  BY DEF IInv, PermitsFit
<1> QED BY <1>1, Invariance, PTL

\* No digest is downloaded twice at once (body_download_gate, the map).
THEOREM OneDownloadCorrect == Spec => []OneDownloadPerDigest
<1>1. IInv => OneDownloadPerDigest
  <2> SUFFICES ASSUME IInv PROVE OneDownloadPerDigest OBVIOUS
  <2>1. \A r, q \in Requests :
            ShaOf[r] = ShaOf[q] /\ pc[r] \in LeaderSteps /\ pc[q] \in LeaderSteps
            => r = q
    BY DEF IInv, MapMatchesLeaders
  <2>2. \A s \in Shas : \A c, d \in Conns :
            conn[s][c] = "body" /\ conn[s][d] = "body" => c = d
    BY DEF IInv, GateFits
  <2>3. \A r \in Requests : pc[r] \in {"whole", "chunks"} =>
            \A c \in Conns : conn[ShaOf[r]][c] = "off"
    BY OnlyInRace DEF IInv, LeaderSteps
  <2> QED BY <2>1, <2>2, <2>3 DEF OneDownloadPerDigest
<1> QED BY <1>1, Invariance, PTL

\* No damaged blob is handed out (verified_blob_path, the digest checks).
THEOREM AnswersCorrect == Spec => []GoodAnswers
<1>1. IInv => GoodAnswers
  BY DEF IInv, AnswersFit, BlobKnown, GoodAnswers
<1> QED BY <1>1, Invariance, PTL

=============================================================================
