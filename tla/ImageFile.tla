----------------------------- MODULE ImageFile -----------------------------
(* One .lrimg file: what ImageWriter puts into it, what can happen to it,   *)
(* and what ImageReader makes of it.                                        *)
(*                                                                          *)
(* The file is a sequence of items, the superblock first: chunk records,    *)
(* then sealed metadata pages, then the footer.  The position of an item    *)
(* stands for its offset.  A sealed record carries the key, the nonce and   *)
(* the associated data it was sealed with: opening it with any other fails. *)
(* The hash of a plaintext is the plaintext.                                *)
EXTENDS Naturals, Sequences, FiniteSets, SequencesExt

CONSTANTS
    Data,           \* plaintexts of chunks, and records of the other streams
    Levels,         \* consistency levels; "none" is the inconsistent one
    PageLen,        \* records in a metadata page
    Slots,          \* INLINE_PAGE_TABLE_SLOTS
    MaxTable,       \* MAX_PAGE_TABLE_BYTES, in entries
    Corrupt,        \* an error of the format, as a result
    MaxCounter,     \* largest nonce counter
    MaxChunks,      \* bound on the chunks of the image
    MaxRecords,     \* bound on the records of a stream
    MaxFaults       \* bound on the faults the file meets

ImageFileAssumption ==
    /\ PageLen \in Nat \ {0} /\ Slots \in Nat \ {0} /\ MaxCounter \in Nat
    /\ MaxTable \in Nat
    /\ "none" \in Levels /\ MaxChunks \in Nat /\ MaxRecords \in Nat

VARIABLES
    file,       \* the items of the file
    writer,     \* the fields of ImageWriter
    stream,     \* the PageStream that is open
    refs,       \* ChunkRef of every appended chunk
    written,    \* history: the records given to every stream
    sealed,     \* history: every (key, nonce) a record was sealed with
    reader,     \* superblock and footer an ImageReader holds
    faults,
    pc

vars == <<file, writer, stream, refs, written, sealed, reader, faults, pc>>

Manifest == 1
HashIndex == 2
Extras == 3
PageTable == 4
Streams == 1..4

Torn == [type |-> "torn"]
NoStream == [id |-> 0, buf |-> <<>>, page |-> 0]

(* Superblock *)

\* authentication_key: without a meta key the MAC has a fixed, public one.
AuthenticationKey(encrypted) == IF encrypted THEN "meta" ELSE "public"

Superblock(encrypted, level) ==
    [type |-> "superblock", encrypted |-> encrypted, consistency |-> level,
     inconsistent |-> level = "none", mac |-> AuthenticationKey(encrypted)]

\* decode and validate_header, of what the properties tell apart.
SuperblockDecodes(i) ==
    /\ i.type = "superblock"
    /\ i.inconsistent <=> i.consistency = "none"

(* Nonces: a counter that refuses to wrap. *)

NonceLeft(counter) == counter <= MaxCounter

(* Sealed records *)

PageAd(s, no) == <<"page", s, no>>

ChunkAd(hash) == <<"chunk", hash>>

SealPage(key, s, no, buf, counter) ==
    [type |-> "page", key |-> key, nonce |-> counter, ad |-> PageAd(s, no), data |-> buf]

\* open_page of the record at an entry, as page no of stream s.
OpenPage(f, e, key, s, no) ==
    IF /\ e.offset <= Len(f)
       /\ f[e.offset].type = "page"
       /\ Len(f[e.offset].data) = e.len
       /\ f[e.offset].key = key
       /\ f[e.offset].ad = PageAd(s, no)
    THEN f[e.offset].data
    ELSE Corrupt

SealChunk(encrypted, counter, plaintext) ==
    [type |-> "chunk", encrypted |-> encrypted,
     nonce |-> IF encrypted THEN counter ELSE 0,
     ad |-> IF encrypted THEN ChunkAd(plaintext) ELSE <<>>, data |-> plaintext]

InChunkRegion(offset, dataEnd) == offset > 1 /\ offset < dataEnd

DecodesChunk(f, offset) == offset <= Len(f) /\ f[offset].type = "chunk"

\* read_record, then open_chunk against the hash the manifest gives.
OpenChunk(f, dataEnd, ref, haveKey) ==
    IF /\ InChunkRegion(ref.offset, dataEnd)
       /\ DecodesChunk(f, ref.offset)
       /\ f[ref.offset].encrypted => haveKey /\ f[ref.offset].ad = ChunkAd(ref.hash)
       /\ f[ref.offset].data = ref.hash
    THEN f[ref.offset].data
    ELSE Corrupt

(* Writing *)

\* Metadata pages are keyed even in an image that is not encrypted; the MACs then
\* have the public key.
PageKey == "meta"
MacKey == AuthenticationKey(writer.superblock.encrypted)

Position == Len(file) + 1

Init ==
    \E encrypted \in BOOLEAN, level \in Levels :
        LET sb == Superblock(encrypted, level) IN
        /\ file = <<sb>>
        /\ writer = [superblock |-> sb, table |-> <<>>, dataEnd |-> 0, chunks |-> 0,
                     next |-> [s \in Streams |-> 0], meta |-> 0, data |-> 0]
        /\ stream = NoStream
        /\ refs = <<>>
        /\ written = [s \in Streams |-> <<>>]
        /\ sealed = <<>>
        /\ reader = Corrupt
        /\ faults = 0
        /\ pc = "chunks"

Fail ==
    /\ pc' = "failed"
    /\ UNCHANGED <<file, writer, stream, refs, written, sealed, reader, faults>>

\* update_consistency: the superblock on disk and the writer's copy together.
UpdateConsistency(level) ==
    /\ pc \in {"chunks", "streams"} /\ stream = NoStream
    /\ level # writer.superblock.consistency
    /\ LET sb == [writer.superblock EXCEPT !.consistency = level,
                                           !.inconsistent = (level = "none")] IN
       /\ file' = [file EXCEPT ![1] = sb]
       /\ writer' = [writer EXCEPT !.superblock = sb]
    /\ UNCHANGED <<stream, refs, written, sealed, reader, faults, pc>>

\* append_chunk: seal, append the record, remember where it is.
AppendChunk(d) ==
    /\ pc = "chunks" /\ writer.chunks < MaxChunks
    /\ LET encrypted == writer.superblock.encrypted IN
       IF encrypted /\ ~NonceLeft(writer.data) THEN Fail
       ELSE /\ file' = Append(file, SealChunk(encrypted, writer.data, d))
            /\ refs' = Append(refs, [offset |-> Position, hash |-> d])
            /\ writer' = [writer EXCEPT !.chunks = @ + 1,
                                        !.data = IF encrypted THEN @ + 1 ELSE @]
            /\ sealed' = IF encrypted THEN Append(sealed, <<"data", writer.data>>) ELSE sealed
            /\ UNCHANGED <<stream, written, reader, faults, pc>>

(* Where flush_page leaves the writer, the file and the nonces, for the     *)
(* buffer of stream st; Corrupt when the writer refuses the page.           *)
FlushPage(w, f, used, st, key) ==
    CASE st.buf = <<>> -> [w |-> w, f |-> f, used |-> used, page |-> st.page]
      [] st.buf # <<>> /\ (~NonceLeft(w.meta) \/ st.page # w.next[st.id]) -> Corrupt
      [] OTHER ->
           [w |-> [w EXCEPT !.meta = @ + 1,
                            !.next[st.id] = @ + 1,
                            !.dataEnd = IF @ = 0 THEN Len(f) + 1 ELSE @,
                            !.table = Append(@, [stream |-> st.id, offset |-> Len(f) + 1,
                                                 len |-> Len(st.buf)])],
            f |-> Append(f, SealPage(key, st.id, st.page, st.buf, w.meta)),
            used |-> Append(used, <<key, w.meta>>),
            page |-> st.page + 1]

OpenStream(s) ==
    /\ pc \in {"chunks", "streams"} /\ stream = NoStream
    /\ s # PageTable
    /\ pc' = "streams"
    /\ stream' = [id |-> s, buf |-> <<>>, page |-> 0]
    /\ UNCHANGED <<file, writer, refs, written, sealed, reader, faults>>

\* The records the caller gives: chunk references go into the manifest.
NextRecords(s) ==
    IF s = Manifest
    THEN IF Len(written[s]) < Len(refs) THEN {refs[Len(written[s]) + 1]} ELSE {}
    ELSE IF Len(written[s]) < MaxRecords THEN Data ELSE {}

\* write: buffer the record; a full buffer becomes a page.
WriteRecord(r) ==
    /\ stream # NoStream /\ pc = "streams"
    /\ r \in NextRecords(stream.id)
    /\ LET st == [stream EXCEPT !.buf = Append(@, r)]
           after == FlushPage(writer, file, sealed, st, PageKey) IN
       /\ written' = [written EXCEPT ![st.id] = Append(@, r)]
       /\ IF Len(st.buf) < PageLen
          THEN /\ stream' = st
               /\ UNCHANGED <<file, writer, sealed, pc>>
          ELSE IF after = Corrupt
          THEN /\ pc' = "failed"
               /\ UNCHANGED <<file, writer, sealed, stream>>
          ELSE /\ stream' = [st EXCEPT !.buf = <<>>, !.page = after.page]
               /\ file' = after.f /\ writer' = after.w /\ sealed' = after.used
               /\ UNCHANGED pc
       /\ UNCHANGED <<refs, reader, faults>>

FinishStream ==
    /\ stream # NoStream /\ pc = "streams"
    /\ stream.id = Manifest => NextRecords(Manifest) = {}
    /\ LET after == FlushPage(writer, file, sealed, stream, PageKey) IN
       IF after = Corrupt THEN Fail
       ELSE /\ file' = after.f /\ writer' = after.w /\ sealed' = after.used
            /\ stream' = NoStream
            /\ UNCHANGED <<refs, written, reader, faults, pc>>

(* The page table as stream 4: whole pages while the buffer fills, then     *)
(* the rest, exactly as PageStream cuts them.                               *)
TablePages(table) ==
    [i \in 1..((Len(table) + PageLen - 1) \div PageLen) |->
        SubSeq(table, (i - 1) * PageLen + 1,
               IF i * PageLen < Len(table) THEN i * PageLen ELSE Len(table))]

AppendTable(pages) ==
    FoldLeft(LAMBDA at, buf :
                IF at = Corrupt THEN at
                ELSE FlushPage(at.w, at.f, at.used,
                               [id |-> PageTable, buf |-> buf, page |-> at.page], PageKey),
             [w |-> writer, f |-> file, used |-> sealed, page |-> 0], pages)

Footer(w, table, inStream) ==
    [type |-> "footer", chunks |-> w.chunks, dataEnd |-> w.dataEnd, table |-> table,
     inStream4 |-> inStream, copy |-> w.superblock, mac |-> w.superblock.mac]

\* encode refuses a table that does not fit, and a flagged empty one.
FooterEncodes(foot) ==
    /\ Len(foot.table) <= Slots
    /\ foot.inStream4 => foot.table # <<>>

Published(after, table, inStream) ==
    LET foot == Footer(after.w, table, inStream) IN
    IF after.w.dataEnd = 0 \/ ~FooterEncodes(foot) THEN Fail
    ELSE /\ file' = Append(after.f, foot)
         /\ writer' = after.w /\ sealed' = after.used
         /\ pc' = "finished"
         /\ UNCHANGED <<stream, refs, written, reader, faults>>

\* finish: a table that does not fit inline becomes stream 4.
Finish ==
    /\ pc \in {"chunks", "streams"} /\ stream = NoStream
    /\ pc = "streams" => Len(written[Manifest]) = Len(refs)
    /\ IF writer.dataEnd # 0 /\ Len(writer.table) > Slots
       THEN LET after == AppendTable(TablePages(writer.table)) IN
            IF after = Corrupt THEN Fail
            ELSE Published(after, SubSeq(after.w.table, Len(writer.table) + 1,
                                         Len(after.w.table)), TRUE)
       ELSE Published([w |-> writer, f |-> file, used |-> sealed], writer.table, FALSE)

(* What happens to the file *)

Fault(f) ==
    /\ faults < MaxFaults
    /\ file' = f /\ faults' = faults + 1
    /\ UNCHANGED <<writer, stream, refs, written, sealed, reader>>

\* The program stops, or the storage loses the tail: the last item may be torn.
Stop ==
    /\ \E n \in 1..Len(file), torn \in BOOLEAN :
          Fault(IF torn THEN [SubSeq(file, 1, n) EXCEPT ![n] = Torn] ELSE SubSeq(file, 1, n))
    /\ pc' = IF pc \in {"chunks", "streams"} THEN "failed" ELSE pc

Scramble ==
    /\ pc = "finished"
    /\ \E n \in 1..Len(file) : Fault([file EXCEPT ![n] = Torn])
    /\ UNCHANGED pc

Exchange ==
    /\ pc = "finished"
    /\ \E a, b \in 2..Len(file) :
          /\ a < b
          /\ Fault([file EXCEPT ![a] = file[b], ![b] = file[a]])
    /\ UNCHANGED pc

\* The rewrite of the superblock is the one write that is not an append.
LoseRewrite ==
    /\ pc = "finished"
    /\ \E level \in Levels \ {writer.superblock.consistency} :
          Fault([file EXCEPT ![1] = Superblock(writer.superblock.encrypted, level)])
    /\ UNCHANGED pc

(* Reading *)

(* Mutation: the superblock and its copy are not compared. *)
FooterDecodesAlone(i, sb) == i.type = "footer" /\ Len(i.table) <= Slots

FooterDecodes(i, sb) ==
    /\ i.type = "footer"
    /\ i.copy = sb
    /\ Len(i.table) <= Slots

ValidateLayout(foot, length) ==
    /\ foot.dataEnd > 1 /\ foot.dataEnd <= length
    /\ foot.chunks <= foot.dataEnd - 2
    /\ \A k \in 1..Len(foot.table) :
          foot.table[k].offset >= foot.dataEnd /\ foot.table[k].offset < length

Opens(f) ==
    /\ Len(f) >= 2
    /\ SuperblockDecodes(f[1])
    /\ FooterDecodes(f[Len(f)], f[1])
    /\ ValidateLayout(f[Len(f)], Len(f))

Open ==
    /\ reader = Corrupt
    /\ Opens(file)
    /\ reader' = [type |-> "reader", superblock |-> file[1], footer |-> file[Len(file)],
                  length |-> Len(file)]
    /\ UNCHANGED <<file, writer, stream, refs, written, sealed, faults, pc>>

SuperblockMac(r, key) == r.superblock.mac = key

Authenticates(r, key) == SuperblockMac(r, key) /\ r.footer.mac = key

(* The pages of a stream by offset, opened in that order: the page number   *)
(* is the index, whatever the table says.                                   *)
ReadPages(r, entries, key, s) ==
    LET sorted == SortSeq(entries, LAMBDA a, b : a.offset < b.offset)
        pages == [k \in 1..Len(sorted) |-> OpenPage(file, sorted[k], key, s, k - 1)] IN
    IF \/ \E k \in 1..Len(sorted) : sorted[k].offset > r.length
       \/ \E k \in 1..Len(pages) : pages[k] = Corrupt
    THEN Corrupt
    ELSE FlattenSeq(pages)

EntriesFor(table, s) == SelectSeq(table, LAMBDA e : e.stream = s)

\* page_table: a table of its own stream is read up to the accepted size.
ReadTable(r, key) ==
    LET table == ReadPages(r, EntriesFor(r.footer.table, PageTable), key, PageTable)
    IN  IF ~r.footer.inStream4 THEN r.footer.table
        ELSE IF table # Corrupt /\ Len(table) > MaxTable THEN Corrupt
        ELSE table

ReadStream(r, s, key) ==
    LET table == ReadTable(r, key) IN
    IF table = Corrupt THEN Corrupt ELSE ReadPages(r, EntriesFor(table, s), key, s)

\* scan_chunk_headers: records fill the region exactly, as many as declared.
ScanChunkHeaders(r) ==
    /\ \A k \in 2..(r.footer.dataEnd - 1) : k <= Len(file) /\ file[k].type = "chunk"
    /\ r.footer.dataEnd - 2 = r.footer.chunks

HasRepeatedPageNonces(r, key) ==
    LET table == ReadTable(r, key)
        all == table \o EntriesFor(r.footer.table, PageTable) IN
    \E a, b \in 1..Len(all) :
        a # b /\ file[all[a].offset].nonce = file[all[b].offset].nonce

Done ==
    /\ pc \in {"failed", "finished"}
    /\ UNCHANGED vars

Write ==
    \/ \E level \in Levels : UpdateConsistency(level)
    \/ \E d \in Data : AppendChunk(d)
    \/ \E s \in Streams : OpenStream(s)
    \/ stream # NoStream /\ \E r \in NextRecords(stream.id) : WriteRecord(r)
    \/ FinishStream
    \/ Finish

Next == Write \/ Stop \/ Scramble \/ Exchange \/ LoseRewrite \/ Open \/ Done

Spec == Init /\ [][Next]_vars

(* Properties *)

(* Whatever a reader gets out of the file is what the writer put in at that *)
(* place: every other content of the file is an error, although the file    *)
(* may be cut short, damaged, lose the rewrite of its superblock or have    *)
(* its records exchanged, before or after it is opened.  A file whose       *)
(* writer did not finish is never opened.                                   *)
ReadsWhatWasWritten ==
    reader # Corrupt =>
        /\ pc = "finished"
        /\ reader.superblock = writer.superblock
        /\ \A s \in {Manifest, HashIndex, Extras} :
              ReadStream(reader, s, PageKey) \in {written[s], Corrupt}
        /\ \A k \in 1..Len(refs) :
              OpenChunk(file, reader.footer.dataEnd, refs[k], TRUE)
                  \in {refs[k].hash, Corrupt}

(* A finished image that nothing damaged opens, authenticates with its own  *)
(* key only, and gives back every chunk and, unless its page table is       *)
(* longer than a reader accepts, every stream.                              *)
FinishedImageReads ==
    pc = "finished" /\ faults = 0 =>
        /\ Opens(file)
        /\ reader # Corrupt =>
              /\ Authenticates(reader, MacKey)
              /\ ~\E key \in {"meta", "public"} \ {MacKey} : Authenticates(reader, key)
              /\ ScanChunkHeaders(reader)
              /\ Len(writer.table) <= MaxTable =>
                    /\ ~HasRepeatedPageNonces(reader, PageKey)
                    /\ \A s \in {Manifest, HashIndex, Extras} :
                          ReadStream(reader, s, PageKey) = written[s]
              /\ \A k \in 1..Len(refs) :
                    OpenChunk(file, reader.footer.dataEnd, refs[k], TRUE) = refs[k].hash

(* No nonce seals two records under one key, whichever streams they are in  *)
(* and whether or not the record reaches the file.                          *)
NoncesNeverRepeat == IsInjective(sealed)
=============================================================================
