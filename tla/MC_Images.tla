------------------------------ MODULE MC_Images -------------------------------
(***************************************************************************)
(* What is written into images and read back for TLC, one scenario per     *)
(* behaviour: the image file itself, btrfs streams, the files of a tree    *)
(* while they are backed up, a tree restored and shown, and an image read  *)
(* through an export.  The machines that do not run keep empty variables.  *)
(***************************************************************************)
EXTENDS Integers, Sequences, TLC

CONSTANTS p1, p2, dest1, dest2, d1, d2, corrupt, nil

VARIABLES on,
          \* ImageFile
          file, writer, stream, refs, written, sealed, reader, faults, pc,
          \* StreamBackup
          mounted, snaps, dirs, latest, stateLock, mounts, setLock, sets, begun, killed,
          prog, sends,
          \* FileBackup
          names, inodes, clock, past, images, waiting, jobs, step, job,
          \* FileTree
          manifest, sections, records, root, merge, strict, target, before, losses, warned,
          todo, nodes, cache, listing, walk,
          \* ExportRead
          img, slots, phase, last, req, reply

fileVars == <<file, writer, stream, refs, written, sealed, reader, faults, pc>>
streamVars == <<mounted, snaps, dirs, latest, stateLock, mounts, setLock, sets, begun,
                killed, prog, sends>>
backupVars == <<names, inodes, clock, past, images, waiting, jobs, step, job>>
treeVars == <<manifest, sections, records, root, merge, strict, target, before, losses,
              warned, todo, nodes, cache, listing, walk>>
readVars == <<img, slots, phase, last, req, reply>>
vars == <<on, fileVars, streamVars, backupVars, treeVars, readVars>>

-----------------------------------------------------------------------------
\* At most two chunks and three streams, one page slot in the footer, one fault.
Image == INSTANCE ImageFile
  WITH Data <- {d1, d2}, Levels <- {"crash", "none"}, Corrupt <- corrupt, PageLen <- 2,
       Slots <- 1, MaxTable <- 2, MaxCounter <- 3, MaxChunks <- 2, MaxRecords <- 2, MaxFaults <- 1

\* Two programs back up two subvolumes to two destinations.
Btrfs == INSTANCE StreamBackup
  WITH Procs <- {p1, p2}, Dests <- {dest1, dest2}, Subvols <- {"v1", "v2"},
       MaxImages <- 3, images <- sets, pc <- prog, job <- sends

\* Two names of one file or of two, and two changes by other programs.
Files == INSTANCE FileBackup
  WITH Paths <- <<"a", "b">>, Contents <- {<<0, 1>>}, Zero <- 0, STABLE_ATTEMPTS <- 2,
       MaxChanges <- 2, MaxImages <- 2, MaxJobs <- 2, pc <- step

-----------------------------------------------------------------------------
D == <<"d">>
Order == << <<>>, <<"..">>, <<"c">>, D, <<"d", "e">>, <<"d", "e", "f">>, <<"d", "g">>, <<"s">> >>

E(kind) == [kind |-> kind, mode |-> "rwx", owner |-> "me", mtime |-> 1, group |-> 0, size |-> 0,
            refs |-> <<>>, holes |-> <<>>, extra |-> "none"]
File(r, size, holes) == [E("file") EXCEPT !.refs = r, !.size = size, !.holes = holes]
Base == (<<>> :> [E("dir") EXCEPT !.mtime = 3])
        @@ (D :> [E("dir") EXCEPT !.mode = "---", !.mtime = 2, !.owner = "other",
                                  !.extra = "acl"])
        @@ (<<"d", "e">> :> E("dir"))
Grouped(e) == [e EXCEPT !.group = 7]

Manifests ==
  { Base @@ (<<"d", "e", "f">> :> File(<<"A", "B", "Z">>, 6, << <<1, 1>>, <<3, 3>> >>))
         @@ (<<"s">> :> E("symlink")),
    \* a hard link whose name sorts before its file's
    Base @@ (<<"d", "e", "f">> :> Grouped(File(<<"B">>, 2, <<>>)))
         @@ (<<"c">> :> Grouped(E("link"))) @@ (<<"s">> :> [E("device") EXCEPT !.mode = "---"]),
    Base @@ (<<"s">> :> [E("fifo") EXCEPT !.owner = "other", !.extra = "acl"]),
    \* a hole over data, a file as a parent, links without a file, a path upwards
    Base @@ (<<"d", "g">> :> File(<<"A">>, 2, << <<0, 1>> >>)),
    [p \in {<<"d", "e">>} |-> E("file")] @@ Base @@ (<<"d", "e", "f">> :> E("file")),
    Base @@ (<<"c">> :> Grouped(E("link"))),
    Base @@ (<<"c">> :> E("link")) @@ (<<"d", "g">> :> File(<<"B">>, 2, <<>>)),
    Base @@ (<<"..">> :> E("file")) }

\* As the objects of FileTree: the type of each and an inode of its own.
Old(p, type) == p :> [type |-> type, ino |-> <<"old">> \o p, data |-> <<>>,
                      mode |-> "rwx", owner |-> "me", mtime |-> 0, extra |-> "none"]
Targets == { [p \in {} |-> "none"], Old(<<>>, "dir"), Old(<<>>, "file"),
             Old(<<>>, "dir") @@ Old(D, "symlink"),
             Old(<<>>, "dir") @@ Old(D, "dir") @@ Old(<<"d", "e">>, "file"),
             Old(<<>>, "dir") @@ Old(<<"c">>, "dir") @@ Old(<<"s">>, "file") }
Chunks == ("A" :> <<1, 0>>) @@ ("B" :> <<2, 0>>) @@ ("Z" :> <<0, 0>>)

Tree == INSTANCE FileTree
  WITH Chunk <- Chunks, Page <- {1, 2}, MaxRefused <- 1, pc <- walk

-----------------------------------------------------------------------------
\* Five bytes in chunks of two: every mix of chunks of zeros, data, bad sectors.
Sources ==
  {[p \in 0 .. 4 |-> CASE k[p \div 2] = "bad" -> nil
                       [] k[p \div 2] = "zero" -> 0
                       [] OTHER -> p + 1] : k \in [0 .. 2 -> {"bad", "zero", "data"}]}

Export == INSTANCE ExportRead
  WITH ImageSize <- 5, ChunkSize <- 2, Contents <- Sources, Nil <- nil, cache <- last

ASSUME /\ Image!ImageFileAssumption /\ Btrfs!StreamAssumption /\ Files!FileAssumption
       /\ Tree!TreeAssumption /\ Export!ExportReadAssumption

-----------------------------------------------------------------------------
NoImage ==
  /\ file = {} /\ writer = {} /\ stream = {} /\ refs = {} /\ written = {} /\ sealed = {}
  /\ reader = {} /\ faults = {} /\ pc = {}
NoBtrfs ==
  /\ mounted = {} /\ snaps = {} /\ dirs = {} /\ latest = {} /\ stateLock = {} /\ mounts = {}
  /\ setLock = {} /\ sets = {} /\ begun = {} /\ killed = {} /\ prog = {} /\ sends = {}
NoFiles ==
  /\ names = {} /\ inodes = {} /\ clock = {} /\ past = {} /\ images = {} /\ waiting = {} /\ jobs = {}
  /\ step = {} /\ job = {}
NoTree ==
  /\ manifest = {} /\ sections = {} /\ records = {} /\ root = {} /\ merge = {}
  /\ strict = {} /\ target = {} /\ before = {} /\ losses = {} /\ warned = {} /\ todo = {} /\ nodes = {} /\ cache = {}
  /\ listing = {} /\ walk = {}
NoExport ==
  img = {} /\ slots = {} /\ phase = {} /\ last = {} /\ req = {} /\ reply = {}

Init ==
  /\ on \in {"image", "btrfs", "files", "tree", "export"}
  /\ IF on = "image" THEN Image!Init ELSE NoImage
  /\ IF on = "btrfs" THEN Btrfs!Init ELSE NoBtrfs
  /\ IF on = "files" THEN Files!Init ELSE NoFiles
  /\ IF on = "tree" THEN Tree!Init ELSE NoTree
  /\ IF on = "export" THEN Export!Init ELSE NoExport

Next ==
  \/ on = "image" /\ Image!Next /\ UNCHANGED <<on, streamVars, backupVars, treeVars, readVars>>
  \/ on = "btrfs" /\ Btrfs!Next /\ UNCHANGED <<on, fileVars, backupVars, treeVars, readVars>>
  \/ on = "files" /\ Files!Next /\ UNCHANGED <<on, fileVars, streamVars, treeVars, readVars>>
  \/ on = "tree" /\ Tree!Next /\ UNCHANGED <<on, fileVars, streamVars, backupVars, readVars>>
  \/ on = "export" /\ Export!Next /\ UNCHANGED <<on, fileVars, streamVars, backupVars, treeVars>>

Spec == Init /\ [][Next]_vars

\* Programs and destinations are interchangeable.
Symmetry == Permutations({p1, p2}) \cup Permutations({dest1, dest2})

-----------------------------------------------------------------------------
\* What a reader returns is what the writer was given, or an error; an image
\* whose writer finished is read back in full; and no two records are sealed
\* with one key and nonce (ImageFile).  What a client of an export reads is the
\* image (ExportRead).
ReadsWhatWasWritten ==
  /\ on = "image" => /\ Image!ReadsWhatWasWritten /\ Image!FinishedImageReads
                     /\ Image!NoncesNeverRepeat
  /\ on = "export" => Export!ReadsAreTheImage

\* Every stream of a set can be received after the streams before it, and no
\* snapshot is deleted under a program that sends it (StreamBackup).
StreamsReplay ==
  on = "btrfs" => Btrfs!StreamsReplay /\ Btrfs!SnapshotsOutliveTheSend

\* What an image records of a file is what the file held at the recorded inode
\* and ctime, and every chunk an image refers to is stored (FileBackup).
FilesAreWhole ==
  on = "files" => Files!FilesAreWhole /\ Files!EveryChunkIsStored

\* A restored tree and a mounted view are the tree that was recorded, and a
\* restore that is refused has written nothing (FileTree).
RestoredIsRecorded ==
  on = "tree" =>
    Tree!RestoredIsRecorded /\ Tree!RefusedWritesNothing /\ Tree!ViewIsRecorded
===============================================================================
