---------------------------- MODULE ChunkedFile ----------------------------
(***************************************************************************)
(* One chunked download (download_with_chunks): the file is cut into       *)
(* ranges, a bounded number of tasks fetch them, chunks are written at     *)
(* their offsets as they arrive and hashed in the order of the file.       *)
(* A unit stands for MIN_CHUNK_SIZE bytes; its content is "right", or      *)
(* "wrong" when a server sends other bytes than the digest is of.          *)
(***************************************************************************)
EXTENDS Naturals, Sequences, FiniteSets

CONSTANTS
    FileSizes,      \* sizes a file may have
    MinChunk,       \* MIN_CHUNK_SIZE
    MaxChunk,       \* MAX_CHUNK_SIZE
    TargetChunks,   \* MAX_CONCURRENT_CHUNKS, target and limit alike
    ChunkFaults     \* "fetch": a task fails, "bytes": wrong bytes,
                    \* "write": a seek or write to the blob fails

ASSUME ChunkedAssumption ==
    /\ FileSizes \subseteq Nat \ {0}
    /\ MinChunk \in Nat \ {0}
    /\ MaxChunk \in Nat /\ MinChunk <= MaxChunk
    /\ TargetChunks \in Nat \ {0}
    /\ ChunkFaults \subseteq {"fetch", "bytes", "write"}

VARIABLES
    fileSize,   \* size of the file, from the probe
    unspawned,  \* ranges no task fetches yet, in order
    fetching,   \* ranges a task fetches
    buffered,   \* chunks that arrived and are not hashed: [offset, data]
    blobFile,   \* the units of the blob's temporary file written so far
    hashed,     \* the units hashed so far, in the order they were
    phase       \* "loop", "committed" or why the download failed

chunkVars == <<fileSize, unspawned, fetching, buffered, blobFile, hashed, phase>>

Clamp(n, low, high) == IF n < low THEN low ELSE IF n > high THEN high ELSE n

\* A plausible bug: no upper bound.
ChunkSizeUnbounded(size) ==
    IF size \div TargetChunks < MinChunk THEN MinChunk ELSE size \div TargetChunks

\* calculate_chunk_size
ChunkSize(size) == Clamp(size \div TargetChunks, MinChunk, MaxChunk)

\* A plausible bug: the bytes after the last full chunk are left out.
ChunkRangesDropsRest(size) ==
    LET c == ChunkSize(size) IN
    [i \in 1 .. (IF size < c THEN 1 ELSE size \div c) |->
        [offset |-> (i - 1) * c, size |-> IF size < c THEN size ELSE c]]

\* calculate_chunk_ranges: the last range takes what remains.
ChunkRanges(size) ==
    LET c == ChunkSize(size)
        from[offset \in 0..size] ==
            IF offset >= size THEN <<>>
            ELSE LET n == IF size - offset < c THEN size - offset ELSE c
                 IN  <<[offset |-> offset, size |-> n]>> \o from[offset + n]
    IN  from[0]

ChunkedTypeOK ==
    /\ fileSize \in FileSizes
    /\ fetching \subseteq [offset : 0..fileSize, size : 1..MaxChunk]
    /\ \A i \in 1..Len(unspawned) : unspawned[i] \in [offset : 0..fileSize, size : 1..MaxChunk]
    /\ blobFile \in [0..fileSize-1 -> {"hole", "right", "wrong"}]
    /\ hashed \in Seq({"right", "wrong"})
    /\ phase \in {"loop", "committed", "fetch", "write", "short", "digest"}

\* The first tasks are spawned at once, as many as may run.
ChunkedInit ==
    /\ fileSize \in FileSizes
    /\ LET all == ChunkRanges(fileSize)
           first == IF Len(all) < TargetChunks THEN Len(all) ELSE TargetChunks
       IN  /\ fetching = {all[i] : i \in 1..first}
           /\ unspawned = SubSeq(all, first + 1, Len(all))
    /\ buffered = {}
    /\ blobFile = [u \in 0..fileSize-1 |-> "hole"]
    /\ hashed = <<>>
    /\ phase = "loop"

\* A plausible bug: chunks are hashed as they arrive.
HashingArrived(chunks) ==
    hashed \o (CHOOSE c \in chunks : \A d \in chunks : d.offset <= c.offset).data

\* The bytes hashed once every chunk that is next in the file is taken.
Hashing(chunks) ==
    LET round[n \in 0..Cardinality(chunks)] ==
            IF n = 0 THEN hashed
            ELSE LET sofar == round[n - 1]
                     next  == {c \in chunks : c.offset = Len(sofar)}
                 IN  IF next = {} THEN sofar
                     ELSE sofar \o (CHOOSE c \in next : TRUE).data
    IN  round[Cardinality(chunks)]

\* A task ends with its bytes: a next one is spawned, the chunk is written at
\* its offset and buffered, and the hash takes what is next in the file.
Arrive(r) ==
    /\ phase = "loop"
    /\ r \in fetching
    /\ fetching' = (fetching \ {r}) \cup {unspawned[i] : i \in {1} \cap DOMAIN unspawned}
    /\ unspawned' = SubSeq(unspawned, 2, Len(unspawned))
    /\ \E bytes \in {"right"} \cup (IF "bytes" \in ChunkFaults THEN {"wrong"} ELSE {}) :
          LET chunk == [offset |-> r.offset, data |-> [i \in 1..r.size |-> bytes]]
              here  == buffered \cup {chunk}
          IN  /\ blobFile' = [u \in DOMAIN blobFile |->
                    IF r.offset <= u /\ u < r.offset + r.size THEN bytes ELSE blobFile[u]]
              /\ hashed' = Hashing(here)
              /\ buffered' = {c \in here : c.offset >= Len(hashed')}
    /\ UNCHANGED <<fileSize, phase>>

\* A task fails, retries included: the others are aborted.
ChunkFails(r) ==
    /\ phase = "loop"
    /\ r \in fetching
    /\ "fetch" \in ChunkFaults
    /\ fetching' = {}
    /\ phase' = "fetch"
    /\ UNCHANGED <<fileSize, unspawned, buffered, blobFile, hashed>>

\* A seek or write fails: the function returns and the other tasks go on.
WriteFails(r) ==
    /\ phase = "loop"
    /\ r \in fetching
    /\ "write" \in ChunkFaults
    /\ fetching' = (fetching \ {r}) \cup {unspawned[i] : i \in {1} \cap DOMAIN unspawned}
    /\ unspawned' = SubSeq(unspawned, 2, Len(unspawned))
    /\ phase' = "write"
    /\ UNCHANGED <<fileSize, buffered, blobFile, hashed>>

\* A task nobody waits for ends.
Abandoned(r) ==
    /\ phase = "write"
    /\ r \in fetching
    /\ fetching' = fetching \ {r}
    /\ UNCHANGED <<fileSize, unspawned, buffered, blobFile, hashed, phase>>

\* No task is left: the counts and the digest decide.
Finish ==
    /\ phase = "loop"
    /\ fetching = {}
    /\ phase' = IF buffered # {} \/ Len(hashed) # fileSize THEN "short"
                ELSE IF \E i \in 1..Len(hashed) : hashed[i] = "wrong" THEN "digest"
                ELSE "committed"
    /\ UNCHANGED <<fileSize, unspawned, fetching, buffered, blobFile, hashed>>

ChunkedNext ==
    \/ \E r \in fetching : Arrive(r) \/ ChunkFails(r) \/ WriteFails(r) \/ Abandoned(r)
    \/ Finish


-----------------------------------------------------------------------------
(* Properties.                                                             *)

\* What is hashed is the beginning of the file, unit by unit, in whatever order
\* the chunks arrive, and every unit not hashed is buffered, being fetched, or
\* waits to be fetched: exactly one of them.
HashFollowsFile ==
    /\ \A i \in 1..Len(hashed) : i <= fileSize /\ hashed[i] = blobFile[i - 1]
    /\ phase = "loop" =>
         \A u \in Len(hashed) .. fileSize - 1 :
            Cardinality({c \in buffered : c.offset <= u /\ u < c.offset + Len(c.data)})
            + Cardinality({r \in fetching : r.offset <= u /\ u < r.offset + r.size})
            + Cardinality({i \in DOMAIN unspawned :
                             unspawned[i].offset <= u
                             /\ u < unspawned[i].offset + unspawned[i].size}) = 1

\* A committed file is the file: every unit written, none wrong.  Without faults
\* a download is never refused for its own arithmetic, and its tasks outlive it only
\* when a local write failed.
CommitIsExact ==
    /\ phase = "committed" => \A u \in DOMAIN blobFile : blobFile[u] = "right"
    /\ phase # "short"
    /\ phase \notin {"loop", "write"} => fetching = {}
    /\ phase = "digest" => \E u \in DOMAIN blobFile : blobFile[u] = "wrong"
=============================================================================
