---------------------------- MODULE ObjectReads -----------------------------
(***************************************************************************)
(* A download: files::raw parses the Range header against the size in the  *)
(* row, and Store::get_stream or get_range_stream read the object, which   *)
(* is plaintext, sealed as a whole (v1) or sealed chunk by chunk (v2), and *)
(* of which the end may be missing.  Any request to the backend may fail,  *)
(* and the reader may go away.  A byte of plaintext is its position, from  *)
(* 1; any byte of a sealed object is 0.                                    *)
(***************************************************************************)
EXTENDS Common, Integers, SequencesExt

CONSTANTS
  Longest,   \* a bound on the plaintext
  Chunk,     \* STREAM_CHUNK_PT, plaintext bytes of a chunk
  Single,    \* SPAN_SINGLE_MAX, the longest span read by one request
  Magic,     \* the bytes of the probe
  Header,    \* STREAM_HEADER_LEN
  Tag        \* the bytes a chunk grows by when it is sealed

ASSUME ReadsAssumption ==
  /\ Longest \in Nat /\ Tag \in Nat \ {0}
  /\ Chunk \in Nat \ {0} /\ Single \in Nat \ {0}
  /\ Magic \in Nat \ {0} /\ Header \in Nat /\ Magic <= Header

VARIABLES
  source,  \* the object under the key: format, plaintext size, bytes that are there
  key,     \* is the encryption key configured?
  asked,   \* the Range header
  answer,  \* what range::parse makes of it
  reading, \* where the read is
  probe,   \* the format the probe found, or "err"
  at,      \* the next stored byte, or the index of the next chunk
  skip,    \* plaintext bytes to leave out before the span
  take,    \* plaintext bytes to send
  sent     \* the bytes sent

readvars == <<source, key, asked, answer, reading, probe, at, skip, take, sent>>
request == <<source, key, asked, answer>>

(***************************************************************************)
(* Objects.                                                                *)
(***************************************************************************)
\* object_crypt::stream_chunk_count
ChunkCount(n) == (n + Chunk - 1) \div Chunk

Sealed == source.format # "plain"

\* The bytes of an object of which nothing is missing.
StoredLen(format, n) ==
  CASE format = "plain" -> n
    [] format = "v1"    -> Header + n + Tag
    [] format = "v2"    -> Header + n + Tag * ChunkCount(n)

Objects ==
  {o \in [format : {"plain", "v1", "v2"}, n : 1..Longest, stored : 0..StoredLen("v2", Longest)] :
     o.stored <= StoredLen(o.format, o.n)}

\* Stored bytes from a to b.
Bytes(a, b) == [i \in 1..(b - a) |-> IF Sealed THEN 0 ELSE a + i]

\* Plaintext from a to b.
Plain(a, b) == [i \in 1..(b - a) |-> a + i]

\* raw_get_range: all of the bytes or an error.
InRange(off, len) == off + len <= source.stored

\* raw_get_range_relaxed: the bytes that are there.
Relaxed(off, len) == Max({0, Min({len, source.stored - off})})

ChunkAt(index) == Header + index * (Chunk + Tag)
ChunkEnd(index) == Min({(index + 1) * Chunk, source.n})

\* open_chunk: the tag verifies nothing but the whole chunk of this index.
Opens(index, off, len) ==
  /\ off = ChunkAt(index) /\ index < ChunkCount(source.n)
  /\ len = ChunkEnd(index) - index * Chunk + Tag

(***************************************************************************)
(* The Range header.                                                       *)
(***************************************************************************)
Ranges ==
  [kind : {"none", "malformed"}] \cup [kind : {"suffix"}, last : 0..Longest + 1]
  \cup [kind : {"from"}, first : 0..Longest + 1]
  \cup [kind : {"span"}, first : 0..Longest + 1, last : 0..Longest + 1]

Outcome(kind, start, end) == [kind |-> kind, start |-> start, end |-> end]

\* range::parse
parse(r, len) ==
  LET Invalid == Outcome("invalid", 0, 0)
      From(first, last) == IF first >= len THEN Outcome("unsatisfiable", 0, 0)
                           ELSE Outcome("satisfiable", first, Min({last, len - 1}))
  IN CASE r.kind = "none"      -> Outcome("full", 0, len - 1)
       [] r.kind = "malformed" -> Invalid
       [] r.kind = "suffix"    -> IF r.last = 0 THEN Outcome("unsatisfiable", 0, 0)
                                  ELSE From(Max({0, len - r.last}), len - 1)
       [] r.kind = "from"      -> From(r.first, len - 1)
       [] r.kind = "span"      -> IF r.last < r.first THEN Invalid ELSE From(r.first, r.last)

Full == answer.kind = "full"
SpanLen == answer.end - answer.start + 1

(***************************************************************************)
(* The handler and the probe.                                              *)
(***************************************************************************)
raw(o, k, r) ==
  /\ source' = o /\ key' = k /\ asked' = r /\ answer' = parse(r, o.n)
  /\ reading' = IF answer'.kind \in {"full", "satisfiable"} THEN "probe" ELSE answer'.kind
  /\ UNCHANGED <<probe, at, skip, take, sent>>

\* raw_stream for the full object, raw_span_stream for a span of it.
ReadRaw ==
  /\ reading' = IF Full \/ SpanLen > Single THEN "stream" ELSE "fetch"
  /\ at' = 0 /\ skip' = answer.start /\ take' = SpanLen

\* Any failure of the probe but "not found" passes for an object that is shorter.
ProbeFails ==
  /\ reading = "probe"
  /\ probe' = "err" /\ ReadRaw
  /\ UNCHANGED <<request, sent>>

Probe ==
  /\ reading = "probe" /\ InRange(0, Magic)
  /\ probe' = source.format
  /\ IF Sealed /\ ~key THEN reading' = "error" /\ UNCHANGED <<at, skip, take>>
     ELSE IF source.format = "v2" THEN reading' = "header" /\ UNCHANGED <<at, skip, take>>
     ELSE IF Sealed \/ (key /\ Full) THEN reading' = "whole" /\ UNCHANGED <<at, skip, take>>
     ELSE ReadRaw
  /\ UNCHANGED <<request, sent>>

\* The object is gone, a request to the backend fails, or its answer breaks off.
Fails ==
  /\ reading \in {"probe", "fetch", "stream", "whole", "header", "chunks"}
  /\ reading' = "error"
  /\ UNCHANGED <<request, probe, at, skip, take, sent>>

\* Nobody takes what is sent.
Gone ==
  /\ reading \in {"stream", "chunks"}
  /\ reading' = "gone"
  /\ UNCHANGED <<request, probe, at, skip, take, sent>>

(***************************************************************************)
(* Objects that are read as they are.                                      *)
(***************************************************************************)
\* A short span is one request.
Fetch ==
  /\ reading = "fetch" /\ InRange(skip, take)
  /\ sent' = Bytes(skip, skip + take) /\ reading' = "end"
  /\ UNCHANGED <<request, probe, at, skip, take>>

\* decrypt_if_needed: a whole object opens or fails; a span is cut out of it.
Whole ==
  /\ reading = "whole"
  /\ Sealed => source.stored = StoredLen(source.format, source.n)
  /\ sent' = IF Sealed THEN Plain(answer.start, answer.end + 1) ELSE Bytes(0, source.stored)
  /\ reading' = "end"
  /\ UNCHANGED <<request, probe, at, skip, take>>

\* The next piece of raw_stream, of any length the backend likes.
StreamPiece(len) ==
  /\ reading = "stream" /\ Full /\ InRange(at, len)
  /\ sent' = sent \o Bytes(at, at + len) /\ at' = at + len
  /\ UNCHANGED <<request, reading, probe, skip, take>>

\* The end of the object is the end of the full stream, an error of a span.
StreamEnds ==
  /\ reading = "stream" /\ at = source.stored
  /\ reading' = IF Full THEN "end" ELSE "error"
  /\ UNCHANGED <<request, probe, at, skip, take, sent>>

\* raw_span_stream: pieces before the span are left out, the last one is cut.
SpanPiece(len) ==
  /\ reading = "stream" /\ ~Full /\ InRange(at, len)
  /\ at' = at + len
  /\ IF skip >= len THEN skip' = skip - len /\ UNCHANGED <<reading, take, sent>>
     ELSE LET end == Min({skip + take, len}) IN
            /\ sent' = sent \o Bytes(at + skip, at + end)
            /\ skip' = 0 /\ take' = take - (end - skip)
            /\ reading' = IF take' = 0 THEN "end" ELSE "stream"
  /\ UNCHANGED <<request, probe>>

(***************************************************************************)
(* Objects sealed chunk by chunk.                                          *)
(***************************************************************************)
ReadHeader ==
  /\ reading = "header" /\ InRange(0, Header)
  /\ at' = answer.start \div Chunk /\ skip' = answer.start % Chunk /\ take' = SpanLen
  /\ reading' = "chunks"
  /\ UNCHANGED <<request, probe, sent>>

\* get_stream: the lengths follow from the size in the row, so that an object
\* that lacks its end has no chunk that long.  What does not open is an error.
NextChunk ==
  /\ reading = "chunks" /\ Full
  /\ LET here == Min({take, Chunk})
         opens == InRange(ChunkAt(at), here + Tag) /\ Opens(at, ChunkAt(at), here + Tag)
     IN IF at = ChunkCount(source.n) THEN reading' = "end" /\ UNCHANGED <<at, take, sent>>
        ELSE IF ~opens THEN reading' = "error" /\ UNCHANGED <<at, take, sent>>
        ELSE /\ sent' = sent \o Plain(at * Chunk, at * Chunk + here)
             /\ at' = at + 1 /\ take' = take - here /\ UNCHANGED reading
  /\ UNCHANGED <<request, probe, skip>>

\* Mutant: the last chunk is counted from the first one.
LastChunkCounted == answer.start \div Chunk + (SpanLen - 1) \div Chunk

LastChunk == answer.end \div Chunk

\* Mutant: bytes are left out of every chunk.
NextSpanTrimmed ==
  /\ reading = "chunks" /\ ~Full
  /\ LET got == Relaxed(ChunkAt(at), Chunk + Tag)
         from == at * Chunk + skip
         to == Min({from + take, ChunkEnd(at)})
     IN IF at > LastChunk THEN reading' = "end" /\ UNCHANGED <<at, skip, take, sent>>
        ELSE IF ~Opens(at, ChunkAt(at), got)
          THEN reading' = "error" /\ UNCHANGED <<at, skip, take, sent>>
        ELSE /\ sent' = sent \o Plain(from, to)
             /\ at' = at + 1 /\ take' = take - (to - from) /\ UNCHANGED skip
             /\ reading' = IF take' = 0 THEN "end" ELSE "chunks"
  /\ UNCHANGED <<request, probe>>

\* v2_span_stream: the last chunk may come back short, and its tag tells whether
\* it is the whole one.  The first one is longer than what is left out of it.
NextSpan ==
  /\ reading = "chunks" /\ ~Full
  /\ LET got == Relaxed(ChunkAt(at), Chunk + Tag)
         from == at * Chunk + skip
         to == Min({from + take, ChunkEnd(at)})
     IN IF at > LastChunk THEN reading' = "end" /\ UNCHANGED <<at, skip, take, sent>>
        ELSE IF ~Opens(at, ChunkAt(at), got)
          THEN reading' = "error" /\ UNCHANGED <<at, skip, take, sent>>
        ELSE /\ sent' = sent \o Plain(from, to)
             /\ at' = at + 1 /\ take' = take - (to - from) /\ skip' = 0
             /\ reading' = IF take' = 0 THEN "end" ELSE "chunks"
  /\ UNCHANGED <<request, probe>>

-----------------------------------------------------------------------------
ReadsInit ==
  /\ source = [format |-> "plain", n |-> 0, stored |-> 0]
  /\ key = FALSE /\ asked = [kind |-> "none"] /\ answer = Outcome("full", 0, 0)
  /\ reading = "idle" /\ probe = None /\ at = 0 /\ skip = 0 /\ take = 0 /\ sent = <<>>

ReadsNext ==
  \/ reading = "idle" /\ \E o \in Objects, k \in BOOLEAN, r \in Ranges : raw(o, k, r)
  \/ ProbeFails \/ Probe \/ Fails \/ Gone
  \/ Fetch \/ Whole
  \/ \E len \in 1..Chunk : StreamPiece(len) \/ SpanPiece(len)
  \/ StreamEnds
  \/ ReadHeader \/ NextChunk \/ NextSpan

ReadsSpec == ReadsInit /\ [][ReadsNext]_readvars

-----------------------------------------------------------------------------
ReadsTypeOK ==
  /\ source.format \in {"plain", "v1", "v2"} /\ key \in BOOLEAN /\ asked \in Ranges
  /\ answer.kind \in {"full", "satisfiable", "unsatisfiable", "invalid"}
  /\ answer.start <= answer.end
  /\ reading \in {"idle", "probe", "fetch", "stream", "whole", "header", "chunks",
                  "end", "error", "gone", "unsatisfiable", "invalid"}
  /\ at \in Nat /\ skip \in Nat /\ take \in Nat

\* The positions a Range header asks for, as RFC 9110 has it.
Asked(p) ==
  CASE asked.kind = "suffix" -> p > source.n - asked.last
    [] asked.kind = "from"   -> p > asked.first
    [] asked.kind = "span"   -> p > asked.first /\ p <= asked.last + 1
    [] OTHER                 -> TRUE
Wanted == {p \in 1..source.n : Asked(p)}

\* The probe of a sealed object was not answered.
Misread == Sealed /\ probe = "err"

\* Nothing is ever sent that is not the plaintext asked for, from its first byte
\* on and in its order, in whatever pieces the backend hands it out and whatever
\* the object lacks: the byte in the place i has i - 1 of those asked for before it.
\* The exception is in the code: see FailsClosed.
SentPrefix ==
  Misread \/ \A i \in DOMAIN sent : /\ sent[i] \in Wanted
                                   /\ Cardinality({p \in Wanted : p < sent[i]}) = i - 1

\* A body that ends without an error is the whole span, and only a span that has no
\* byte in the file is refused as unsatisfiable.  The exception is a plain object
\* that lacks its end: only its length tells the reader.
EndsWhole ==
  /\ reading = "end" => Misread \/ Len(sent) = Cardinality(Wanted) \/ (~Sealed /\ Full)
  /\ reading = "unsatisfiable" <=> (reading # "idle" /\ answer.kind # "invalid" /\ Wanted = {})

\* "Fail closed on sealed objects instead of leaking ciphertext as a download",
\* "never returns ciphertext as if it were plaintext".
FailsClosed == \A i \in DOMAIN sent : sent[i] # 0
=============================================================================
