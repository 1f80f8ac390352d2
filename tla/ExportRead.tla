----------------------------- MODULE ExportRead -----------------------------
(***************************************************************************)
(* One connection of the NBD server and the image behind it: the fixed     *)
(* newstyle handshake, the options, and the requests, which are answered   *)
(* one after the other.  A read is filled chunk by chunk from the slots    *)
(* that the chain walk produced, through a cache of one chunk that is      *)
(* shared by all reads.                                                    *)
(***************************************************************************)
EXTENDS Integers, Sequences

CONSTANTS
    ImageSize,      \* bytes of the source
    ChunkSize,      \* bytes of a chunk
    Contents,       \* the images: functions 0..ImageSize-1 -> byte, or Nil if unreadable
    Nil

ChunkCount == (ImageSize + ChunkSize - 1) \div ChunkSize

ExportReadAssumption == ImageSize \in Nat \ {0} /\ ChunkSize \in Nat \ {0}

VARIABLES
    img,        \* the image: byte by byte, Nil where the source was unreadable
    slots,      \* chunk number -> what the chain walk found
    phase,      \* the connection
    cache,      \* the chunk read last, or Nil
    req,        \* the request being answered, or Nil
    reply       \* the last answer, with its request, or Nil

vars == <<img, slots, phase, cache, req, reply>>

\* chunk_length: the last chunk ends with the image
Within(n) == {p \in 0..(ImageSize - 1) : p \div ChunkSize = n}

\* The chain walk: a chunk with a bad sector is bad, an all-zero chunk is
\* recorded as zeros or, if the file system does not use it, not at all.
SlotsOf(i) ==
    {f \in [0..(ChunkCount - 1) -> {"unused", "zero", "bad", "stored"}] :
        \A n \in DOMAIN f :
            CASE \E p \in Within(n) : i[p] = Nil -> f[n] = "bad"
              [] \A p \in Within(n) : i[p] = 0     -> f[n] \in {"unused", "zero"}
              [] OTHER                             -> f[n] = "stored"}

Init ==
    /\ img \in Contents /\ slots \in SlotsOf(img)
    /\ phase = "hello" /\ cache = Nil /\ req = Nil /\ reply = Nil

\* The client accepts the fixed newstyle handshake, or the connection ends.
Handshake ==
    /\ phase = "hello"
    /\ phase' \in {"options", "closed"}
    /\ UNCHANGED <<img, slots, cache, req, reply>>

\* GO and EXPORT_NAME end the options with the size and the read-only flag;
\* LIST, INFO, a malformed request and an unknown option are answered and the
\* loop goes on; ABORT, a wrong magic and a disconnect end the connection.
Options ==
    /\ phase = "options"
    /\ \/ phase' = "transmission"
       \/ phase' = "options"
       \/ phase' = "closed"
    /\ UNCHANGED <<img, slots, cache, req, reply>>

Answer(r, code, bytes) ==
    /\ reply' = [req |-> r, code |-> code, bytes |-> bytes]
    /\ req' = Nil

\* transmission: a read is checked against the size before it starts, writes
\* are refused, flush and trim do nothing, the rest is not supported.
Request(cmd, off, len) ==
    LET r == [cmd |-> cmd, off |-> off, len |-> len, bytes |-> <<>>] IN
    /\ phase = "transmission" /\ req = Nil
    /\ CASE cmd = "read" /\ off + len > ImageSize -> Answer(r, "EIO", <<>>)
         [] cmd = "read" /\ off + len <= ImageSize -> req' = r /\ reply' = Nil
         [] cmd \in {"flush", "trim"} -> Answer(r, "ok", <<>>)
         [] cmd \in {"write", "write_zeroes"} -> Answer(r, "EPERM", <<>>)
         [] OTHER -> Answer(r, "ENOTSUP", <<>>)
    /\ UNCHANGED <<img, slots, phase, cache>>

Disconnect ==
    /\ phase = "transmission" /\ req = Nil
    /\ phase' = "closed"
    /\ UNCHANGED <<img, slots, cache, req, reply>>

\* chunk: the cached copy, zeros, or the plaintext of the member that stores it
Bytes(n) ==
    IF cache # Nil /\ cache.number = n THEN cache.bytes
    ELSE [k \in 1..ChunkSize |-> IF slots[n] = "stored" /\ n * ChunkSize + k <= ImageSize
                                 THEN img[n * ChunkSize + k - 1] ELSE 0]

Lower(a, b) == IF a < b THEN a ELSE b

\* One turn of read_at's loop: as many bytes as the chunk still has.
ReadChunk ==
    LET filled == Len(req.bytes)
        at == req.off + filled
        n == at \div ChunkSize
        take == Lower(Lower((n + 1) * ChunkSize, ImageSize) - at, req.len - filled) IN
    /\ phase = "transmission" /\ req # Nil /\ Len(req.bytes) < req.len
    /\ IF slots[n] = "bad" /\ (cache = Nil \/ cache.number # n)
       THEN /\ Answer([req EXCEPT !.bytes = <<>>], "EIO", <<>>)
            /\ UNCHANGED cache
       ELSE /\ req' = [req EXCEPT !.bytes =
                         @ \o SubSeq(Bytes(n), (at % ChunkSize) + 1, (at % ChunkSize) + take)]
            /\ cache' = [number |-> n, bytes |-> Bytes(n)]
            /\ UNCHANGED reply
    /\ UNCHANGED <<img, slots, phase>>

ReadDone ==
    /\ phase = "transmission" /\ req # Nil /\ Len(req.bytes) = req.len
    /\ Answer([req EXCEPT !.bytes = <<>>], "ok", req.bytes)
    /\ UNCHANGED <<img, slots, phase, cache>>

\* accept: the next client; the backend and its cache are shared.
Accept ==
    /\ phase = "closed"
    /\ phase' = "hello" /\ reply' = Nil
    /\ UNCHANGED <<img, slots, cache, req>>

Commands == {"read", "flush", "trim", "write", "write_zeroes", "other"}

Next ==
    \/ Handshake \/ Options \/ Disconnect \/ ReadChunk \/ ReadDone \/ Accept
    \/ \E cmd \in Commands :
         IF cmd = "read"
         THEN \E off, len \in 0..(ImageSize + 1) : Request(cmd, off, len)
         ELSE Request(cmd, 0, 1)

Spec == Init /\ [][Next]_vars

(***************************************************************************)
(* Every successful read returns the bytes of the image, whatever was read *)
(* before and however the read crosses chunks; a read fails exactly if it  *)
(* leaves the image or meets a chunk that could not be captured: unreadable *)
(* data is never shown as zeros.                                           *)
(***************************************************************************)
ReadsAreTheImage ==
    reply # Nil /\ reply.req.cmd = "read" =>
        LET off == reply.req.off
            len == reply.req.len
            lost == \E p \in off..(off + len - 1) :
                      p < ImageSize /\ \E q \in Within(p \div ChunkSize) : img[q] = Nil IN
        /\ reply.code = "ok" <=> off + len <= ImageSize /\ ~lost
        /\ reply.code = "ok" => reply.bytes = [k \in 1..len |-> img[off + k - 1]]
=============================================================================
