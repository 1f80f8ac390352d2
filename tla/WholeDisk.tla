------------------------------ MODULE WholeDisk ------------------------------
(* Images of a whole disk: discovery of its partition table, the regions    *)
(* the table is cut into, one manifest per region, and the restore that     *)
(* writes them back and fits the GPT to the new disk.                       *)
(*                                                                          *)
(* A disk is a function from logical blocks 0 .. size-1 to contents, the    *)
(* table's own blocks included: what is restored is what was discovered.    *)
EXTENDS Naturals, Sequences, FiniteSets, SequencesExt, FiniteSetsExt

CONSTANTS
    Disks,      \* sources: [disk, kernel, file, fs, maps, bad, mounted]
    Targets,    \* sizes of the target
    Chunk,      \* blocks of a chunk
    MaxLeading, \* MAX_LEADING_BYTES, in blocks
    OnBad       \* on_bad_sector: subset of {"abort", "record"}

Zero == [is |-> "zero"]
Data(at) == [is |-> "data", at |-> at]
Old(at) == [is |-> "old", at |-> at]
Mbr(parts) == [is |-> "mbr", parts |-> parts]
Array(parts) == [is |-> "array", parts |-> parts]
Header(ok, my, alt, array, usable) ==
    [is |-> "gpt", ok |-> ok, my |-> my, alt |-> alt, array |-> array, usable |-> usable]

VARIABLES
    src,        \* the source disk
    onBad,      \* the request's bad-sector policy
    layout,     \* what discovery reported
    regions,    \* regions of the disk header
    entries,    \* manifest entries written so far, one sequence per region
    image,      \* {} or the published image
    target,     \* contents of the restore target
    at,         \* <<region, chunk>> in hand
    pc, why     \* why: what an error return named

vars == <<src, onBad, layout, regions, entries, image, target, at, pc, why>>

SizeOf(disk) == Cardinality(DOMAIN disk)
EmptyLayout == [kind |-> "none", parts |-> {}]

Init ==
    /\ src \in Disks /\ onBad \in OnBad
    /\ \E n \in Targets : target = [b \in 0 .. n - 1 |-> Old(b)]
    /\ layout = EmptyLayout /\ regions = <<>> /\ entries = <<>> /\ image = {}
    /\ at = <<1, 0>> /\ pc = "discover" /\ why = "none"

Fail(reason) == pc' = "failed" /\ why' = reason
------------------------------------------------------------------------------
(* Discovery.                                                               *)

\* The GPT library accepts a table when one of its two headers is whole.
GptHeaders(disk) ==
    {h \in {disk[1], disk[SizeOf(disk) - 1]} : h.is = "gpt" /\ h.ok}

(* The signature in block 1 decides; a GPT that cannot be read is no table. *)
ProbePartitionTable(disk) ==
    IF SizeOf(disk) > 1 /\ disk[1].is = "gpt"
    THEN IF GptHeaders(disk) # {} THEN "gpt" ELSE "none"
    ELSE IF disk[0].is = "mbr" THEN "mbr" ELSE "none"

\* Partitions of the array the library's chosen header points to.
GptPartitions(disk) ==
    LET h == IF disk[1].ok THEN disk[1] ELSE disk[SizeOf(disk) - 1]
    IN  disk[h.array].parts

MbrPartitions(disk) == disk[0].parts

ReadTable(disk) ==
    CASE ProbePartitionTable(disk) = "gpt" -> GptPartitions(disk)
      [] ProbePartitionTable(disk) = "mbr" -> MbrPartitions(disk)
      [] OTHER -> {}

\* Partition devices of the kernel; an image file has none.
SysfsPartitionIndex == IF src.file THEN {} ELSE src.kernel

\* The file system found through the partition's device, or in the file itself.
PartitionFsProbe(p, path) == IF path \/ src.file THEN src.fs[p.index] ELSE "none"

DiscoverSource ==
    /\ pc = "discover" /\ pc' = "preflight"
    /\ LET listed == ReadTable(src.disk)
           more == {k \in SysfsPartitionIndex : \A p \in listed : p.index # k.index}
           Path(p) == \E k \in SysfsPartitionIndex : k.index = p.index
       IN  layout' = [kind |-> ProbePartitionTable(src.disk),
                      parts |-> {[index |-> p.index, start |-> p.start, size |-> p.size,
                                  path |-> Path(p), fs |-> PartitionFsProbe(p, Path(p))]
                                    : p \in listed \cup more}]
    /\ UNCHANGED <<src, onBad, regions, entries, image, target, at, why>>
------------------------------------------------------------------------------
(* Backup.                                                                  *)

(* A disk with a mounted or held partition has no consistent method.        *)
Preflight ==
    /\ pc = "preflight"
    /\ \/ layout.parts = {} /\ Fail("no partitions")
       \/ layout.parts # {} /\ src.mounted /\ Fail("in use")
       \/ /\ layout.parts # {} /\ ~src.mounted
          /\ pc' = "regions" /\ why' = why
    /\ UNCHANGED <<src, onBad, layout, regions, entries, image, target, at>>

PlanPartition(p) ==
    [kind |-> CASE p.fs = "swap" -> "swap"
                [] p.fs = "ext4" -> "fs"
                [] OTHER -> "raw",
     index |-> p.index, start |-> p.start, size |-> p.size, path |-> p.path]

\* Everything before the first partition, up to the cap.
Leading(parts) ==
    LET first == Min({p.start : p \in parts})
        size == IF first < MaxLeading THEN first ELSE MaxLeading
    IN  IF size = 0 THEN <<>>
        ELSE <<[kind |-> "leading", index |-> 0, start |-> 0, size |-> size, path |-> FALSE]>>

\* Partitions by start, then by number; one without blocks has no region.
RegionsOf(parts) ==
    LET Before(p, q) == p.start < q.start \/ (p.start = q.start /\ p.index < q.index)
        plans == {PlanPartition(p) : p \in {q \in parts : q.size > 0}}
    IN  Leading(parts) \o SetToSortSeq(plans, Before)

End(r) == r.start + r.size
Validate(rs, size) ==
    /\ \A i \in DOMAIN rs : End(rs[i]) <= size
    /\ \A i \in 2 .. Len(rs) : rs[i].start >= End(rs[i - 1])

(* Under the claim, the regions are laid out, the swap headers read and the *)
(* disk header checked; overlapping partitions end the backup here.         *)
LayOutRegions ==
    LET rs == RegionsOf(layout.parts)
        swaps == {i \in DOMAIN rs : rs[i].kind = "swap"}
    IN  /\ pc = "regions"
        /\ \/ /\ \E i \in swaps : rs[i].start \in src.bad
              /\ Fail("bad sector") /\ UNCHANGED <<regions, entries>>
           \/ /\ \A i \in swaps : rs[i].start \notin src.bad
              /\ ~Validate(rs, SizeOf(src.disk))
              /\ Fail("overlap") /\ UNCHANGED <<regions, entries>>
           \/ /\ pc' = "read" /\ why' = why
              /\ \A i \in swaps : rs[i].start \notin src.bad
              /\ Validate(rs, SizeOf(src.disk))
              /\ regions' = rs /\ entries' = [i \in DOMAIN rs |-> <<>>]
        /\ UNCHANGED <<src, onBad, layout, image, target, at>>

ChunkCount(r) == (r.size + Chunk - 1) \div Chunk
\* Blocks of a region's chunk; the last one is cut at the region's end.
Span(r, chunk) ==
    LET first == r.start + chunk * Chunk
        last == Min({first + Chunk, End(r)}) - 1
    IN  first .. last

\* Mutation: a map that is not complete narrows what is read all the same.
RegionSourceMapPartial(r) ==
    IF r.kind = "fs" /\ r.path
    THEN {r.start + b : b \in src.maps[r.index].used}
    ELSE r.start .. End(r) - 1

(* Only a complete map of a partition that has a device narrows what is     *)
(* read; every other region but swap is read whole.                         *)
RegionSourceMap(r) ==
    IF r.kind = "fs" /\ r.path /\ src.maps[r.index].complete
    THEN {r.start + b : b \in src.maps[r.index].used}
    ELSE r.start .. End(r) - 1

\* What is kept of a chunk: used blocks pull in the whole chunk.
ChunkEntry(r, chunk) ==
    LET span == Span(r, chunk)
    IN  IF span \cap RegionSourceMap(r) = {} THEN [is |-> "unused"]
        ELSE IF span \cap src.bad # {} THEN [is |-> "bad"]
        ELSE IF \A b \in span : src.disk[b] = Zero THEN [is |-> "zero"]
        ELSE [is |-> "stored",
              data |-> [k \in 0 .. Cardinality(span) - 1 |-> src.disk[Min(span) + k]]]

HasManifest(r) == r.kind # "swap"
NextPlace(r) == IF at[2] + 1 < ChunkCount(r) /\ HasManifest(r)
                THEN <<at[1], at[2] + 1>> ELSE <<at[1] + 1, 0>>

ReadChunk ==
    /\ pc = "read" /\ at[1] <= Len(regions)
    /\ LET r == regions[at[1]]
           e == ChunkEntry(r, at[2])
       IN  \/ /\ HasManifest(r) /\ e.is = "bad" /\ onBad = "abort"
              /\ Fail("bad sector") /\ UNCHANGED <<entries, at>>
           \/ /\ ~(HasManifest(r) /\ e.is = "bad" /\ onBad = "abort")
              /\ entries' = IF HasManifest(r)
                            THEN [entries EXCEPT ![at[1]] = Append(@, e)] ELSE entries
              /\ at' = NextPlace(r)
              /\ UNCHANGED <<pc, why>>
    /\ UNCHANGED <<src, onBad, layout, regions, image, target>>

\* Manifest, extras and footer are written, the lock is checked and the
\* image published under its own name; a lost lock leaves nothing.
FinishImage ==
    /\ pc = "read" /\ at[1] > Len(regions)
    /\ \/ Fail("lock lost") /\ UNCHANGED <<image, at>>
       \/ /\ pc' = "published" /\ why' = why /\ at' = <<1, 0>>
          /\ image' = {[kind |-> layout.kind, size |-> SizeOf(src.disk),
                        regions |-> regions, entries |-> entries,
                        swap |-> [i \in DOMAIN regions |-> src.disk[regions[i].start]]]}
    /\ UNCHANGED <<src, onBad, layout, regions, entries, target>>
\* Cancelled, or stopped by an error of the source or the destination.
StopBackup ==
    /\ pc \in {"discover", "regions", "read"} /\ Fail("i/o")
    /\ UNCHANGED <<src, onBad, layout, regions, entries, image, target, at>>
------------------------------------------------------------------------------
(* Restore.                                                                 *)

\* plan::whole_disk: the manifest is walked to its end before any write.
HasBadChunk(img) ==
    \E i \in DOMAIN img.entries : \E k \in DOMAIN img.entries[i] : img.entries[i][k].is = "bad"

OpenTarget ==
    /\ pc = "published"
    /\ \E img \in image :
          \/ SizeOf(target) < img.size /\ Fail("no space")
          \/ SizeOf(target) >= img.size /\ HasBadChunk(img) /\ Fail("bad sector")
          \/ /\ SizeOf(target) >= img.size /\ ~HasBadChunk(img)
             /\ pc' = "write" /\ why' = why
    /\ UNCHANGED <<src, onBad, layout, regions, entries, image, target, at>>

Written(disk, r, chunk, e) ==
    CASE e.is \in {"unused", "bad"} -> disk
      [] e.is = "zero" -> [b \in DOMAIN disk |-> IF b \in Span(r, chunk) THEN Zero ELSE disk[b]]
      [] OTHER -> [b \in DOMAIN disk |->
                      IF b \in Span(r, chunk) THEN e.data[b - Min(Span(r, chunk))] ELSE disk[b]]

WriteSwap(disk, r, header) == [disk EXCEPT ![r.start] = header]

\* A write that fails may have changed the blocks before the failing one.
Torn(old, new, n) == [b \in DOMAIN old |-> IF b < n THEN new[b] ELSE old[b]]

(* One chunk of a region, or its swap header. The record may not read or    *)
(* decode, the write may fail, and the job may be cancelled.                *)
WriteRegion ==
    /\ pc = "write"
    /\ \E img \in image :
          /\ at[1] <= Len(img.regions)
          /\ LET r == img.regions[at[1]]
                 e == IF HasManifest(r) THEN img.entries[at[1]][at[2] + 1] ELSE [is |-> "swap"]
                 done == IF HasManifest(r) THEN Written(target, r, at[2], e)
                         ELSE WriteSwap(target, r, img.swap[at[1]])
             IN  \/ e.is # "bad" /\ target' = done /\ at' = NextPlace(r) /\ UNCHANGED <<pc, why>>
                 \/ /\ Fail(IF e.is = "bad" THEN "bad sector" ELSE "i/o") /\ UNCHANGED at
                    /\ \E n \in DOMAIN target : target' = Torn(target, done, n)
    /\ UNCHANGED <<src, onBad, layout, regions, entries, image>>

\* All regions are written. A GPT is flushed before it is fitted.
FinishRegions ==
    /\ pc = "write"
    /\ \E img \in image :
          /\ at[1] > Len(img.regions)
          /\ \/ pc' = (IF img.kind = "gpt" THEN "table" ELSE "sync") /\ why' = why
             \/ img.kind = "gpt" /\ Fail("i/o")
    /\ UNCHANGED <<src, onBad, layout, regions, entries, image, target, at>>

\* The blocks of the backup table: the array ends just before the last block.
BackupTable(disk) ==
    LET last == SizeOf(disk) - 1
        h == disk[1]
    IN  [array |-> last - 1, usable |-> last - 2,
         fits |-> h.is = "gpt" /\ h.ok /\ disk[h.array].is = "array" /\ last - 2 >= h.usable]

\* The restored primary header and array are read and checked.
FitTable ==
    /\ pc = "table"
    /\ \/ ~BackupTable(target).fits /\ Fail("table")
       \/ BackupTable(target).fits /\ pc' = "array" /\ why' = why
       \/ Fail("i/o")
    /\ UNCHANGED <<src, onBad, layout, regions, entries, image, target, at>>

\* Mutation: the primary header is written before the copy at the end.
TableWritesPrimaryFirst ==
    LET last == SizeOf(target) - 1
        t == BackupTable(target)
    IN  "array" :> [block |-> 1, holds |-> Header(TRUE, 1, last, target[1].array, t.usable),
                    then |-> "backup"]
        @@ "backup" :> [block |-> t.array, holds |-> target[target[1].array], then |-> "primary"]
        @@ "primary" :> [block |-> last, holds |-> Header(TRUE, last, 1, t.array, t.usable),
                         then |-> "sync"]

(* The writes of regenerate_gpt in their order: the array's copy, the backup *)
(* header, the primary header.                                               *)
TableWrites ==
    LET last == SizeOf(target) - 1
        h == target[1]
        t == BackupTable(target)
    IN  "array" :> [block |-> t.array, holds |-> target[h.array], then |-> "backup"]
        @@ "backup" :> [block |-> last, holds |-> Header(TRUE, last, 1, t.array, t.usable),
                        then |-> "primary"]
        @@ "primary" :> [block |-> 1, holds |-> Header(TRUE, h.my, last, h.array, t.usable),
                         then |-> "sync"]

\* A header half written has its signature and a checksum that does not match.
Half(c) == IF c.is = "gpt" THEN [c EXCEPT !.ok = FALSE] ELSE [is |-> "half"]

RegenerateGpt ==
    /\ pc \in {"array", "backup", "primary"}
    /\ LET w == TableWrites[pc]
       IN  \/ /\ target' = [target EXCEPT ![w.block] = w.holds]
              /\ pc' = w.then /\ why' = why
           \/ /\ target' \in {target, [target EXCEPT ![w.block] = Half(w.holds)]}
              /\ Fail("table i/o")
    /\ UNCHANGED <<src, onBad, layout, regions, entries, image, at>>

\* The table, and then the target, are flushed.
Sync ==
    /\ pc = "sync"
    /\ \/ pc' = "restored" /\ why' = why
       \/ Fail(IF layout.kind = "gpt" THEN "table i/o" ELSE "i/o")
    /\ UNCHANGED <<src, onBad, layout, regions, entries, image, target, at>>

Ended == pc \in {"restored", "failed"} /\ UNCHANGED vars

Next ==
    \/ DiscoverSource \/ Preflight \/ LayOutRegions \/ ReadChunk \/ FinishImage
    \/ StopBackup \/ OpenTarget \/ WriteRegion \/ FinishRegions \/ FitTable
    \/ RegenerateGpt \/ Sync \/ Ended

Spec == Init /\ [][Next]_vars
------------------------------------------------------------------------------
EndBlock == SizeOf(target) - 1
\* Blocks a partition's owner cares about: what its file system uses, or all.
Kept(p) ==
    CASE src.fs[p.index] = "swap" -> {p.start}
      [] src.fs[p.index] = "ext4" /\ src.maps[p.index].complete ->
            {p.start + b : b \in src.maps[p.index].used}
      [] OTHER -> p.start .. p.start + p.size - 1
Untouched == \A b \in DOMAIN target : target[b] = Old(b)

(* A restored disk boots as the source did: the same partitions in the same *)
(* places, every block they use, the blocks before the first one up to the  *)
(* cap of backup_whole_disk, and a GPT whose copies agree and end at the    *)
(* target's own end; no other block changed.                                *)
RestoredDiskIsSource ==
    pc = "restored" =>
        LET parts == ReadTable(src.disk)
            gpt == src.disk[1].is = "gpt"
            first == Min({p.start : p \in parts})
            leading == {b \in 0 .. first - 1 : b < MaxLeading}
            within == UNION {p.start .. p.start + p.size - 1 : p \in parts}
            table == IF gpt THEN {1, EndBlock - 1, EndBlock} ELSE {}
        IN  /\ ReadTable(target) = parts
            /\ \A p \in parts : \A b \in Kept(p) : target[b] = src.disk[b]
            /\ \A b \in leading \ table : target[b] = src.disk[b]
            /\ gpt =>
                  /\ target[1] = Header(TRUE, 1, EndBlock, src.disk[1].array, EndBlock - 2)
                  /\ target[EndBlock] = Header(TRUE, EndBlock, 1, EndBlock - 1, EndBlock - 2)
                  /\ target[EndBlock - 1] = src.disk[src.disk[1].array]
                  /\ \A p \in parts : p.start + p.size - 1 <= target[1].usable
            /\ \A b \in DOMAIN target \ (within \cup table \cup leading) : target[b] = Old(b)

(* A restore that refuses has not touched the target: a failure that leaves *)
(* it half written is an error of the image's files or of the target, a     *)
(* cancellation, or a table seen only at the end to be damaged on the       *)
(* source already, or to have its entries beyond the leading region. A      *)
(* failure while the GPT is fitted leaves the source's partitions readable. *)
RefusalsComeFirst ==
    pc = "failed" =>
        CASE why = "i/o" -> TRUE
          [] why = "table" -> ~src.disk[1].ok \/ src.disk[1].array >= MaxLeading
          [] why = "table i/o" -> ReadTable(target) = ReadTable(src.disk)
          [] OTHER -> Untouched
==============================================================================
