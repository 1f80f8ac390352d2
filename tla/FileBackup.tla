---------------------------- MODULE FileBackup ----------------------------
(* File mode: the walk of a live or frozen tree, the reuse of what the      *)
(* reference member recorded, the stable read of what changed, and the      *)
(* chain of images the manifests and chunks go to.                          *)
(*                                                                          *)
(* A regular file is its blocks; a block is its own chunk and content hash, *)
(* and Zero is a block that reads as zeros and is a hole of the file. Every *)
(* change of a file gives it a new ctime: the kernel's time stamps are      *)
(* assumed to tell two changes apart.                                       *)
EXTENDS Naturals, Sequences, FiniteSets, TLC, SequencesExt

CONSTANTS
    Paths,            \* the names of the tree, in walk order
    Contents,         \* the contents a file can be written with
    Zero,             \* the block that is a hole
    STABLE_ATTEMPTS,
    MaxChanges,       \* bound on the changes other programs make
    MaxImages,        \* bound on the images published
    MaxJobs           \* bound on the jobs begun

FileAssumption == /\ Paths \in Seq(STRING) /\ STABLE_ATTEMPTS \in Nat \ {0}
                         /\ MaxChanges \in Nat /\ MaxImages \in Nat /\ MaxJobs \in Nat

None == "none"
Name == Range(Paths)
Blocks(data) == DOMAIN data
Inos == 1 .. Len(Paths) + MaxChanges

VARIABLES
    names,    \* the inode each name stands for
    inodes,   \* data, mtime and ctime of every inode
    clock,    \* changes made so far: the next ctime
    past,     \* history: the data of inode i at ctime c
    images,   \* published images, oldest first
    waiting,  \* snapshots of jobs that do not have the set lock yet
    jobs,     \* jobs begun
    pc, job

fsVars == <<names, inodes, clock, past>>
vars == <<names, inodes, clock, past, images, waiting, jobs, pc, job>>

NoJob == [at |-> 0]

\* Separate files, or two names of one inode.
Init ==
    /\ names \in {[n \in Name |-> 1],
                  [n \in Name |-> CHOOSE i \in DOMAIN Paths : Paths[i] = n]}
    /\ \E d \in Contents : inodes = [i \in Inos |-> [data |-> d, mtime |-> 0, ctime |-> 0]]
    /\ past = {<<i, 0, inodes[i].data>> : i \in Inos}
    /\ clock = 0 /\ images = <<>> /\ waiting = {} /\ jobs = 0 /\ pc = "idle" /\ job = NoJob

(* Other programs: a write, which may set the mtime back, and a rename over *)
(* a name, after which the old inode has a link less.                       *)
Touched(i, data, mtime) ==
    /\ clock < MaxChanges /\ clock' = clock + 1
    /\ inodes' = [inodes EXCEPT ![i] = [data |-> data, mtime |-> mtime, ctime |-> clock + 1]]
    /\ past' = past \cup {<<i, clock + 1, data>>}
    /\ UNCHANGED <<images, waiting, jobs, pc, job>>

WriteBlock(n, b, v, keep) ==
    LET i == names[n] IN
    /\ inodes[i].data[b] # v
    /\ Touched(i, [inodes[i].data EXCEPT ![b] = v],
               IF keep THEN inodes[i].mtime ELSE clock + 1)
    /\ UNCHANGED names

Replace(n) ==
    LET old == names[n]  new == Len(Paths) + clock + 1 IN
    /\ Touched(old, inodes[old].data, inodes[old].mtime)
    /\ names' = [names EXCEPT ![n] = new]

-----------------------------------------------------------------------------
(* What the job reads: the live tree, or the snapshot it took.              *)

\* Chain members from the full backup on, up to image k.
Chain(k) == {i \in 1 .. k : \A j \in i + 1 .. k : images[j].type # "full"}

\* The member a job compares with.
Reference(type) ==
    LET members == Chain(Len(images)) IN
    CASE type = "full" -> 0
      [] type = "differential" -> CHOOSE i \in members : \A j \in members : i <= j
      [] OTHER -> Len(images)

ViewNames == IF job.snap = {} THEN names ELSE (CHOOSE s \in job.snap : TRUE).names
ViewInodes == IF job.snap = {} THEN inodes ELSE (CHOOSE s \in job.snap : TRUE).inodes

\* `read_records` and `read_change_tokens` of the reference member; the
\* tokens name manifest entries by their position.
Base == IF job.ref = 0 THEN [n \in {} |-> None] ELSE images[job.ref].records

\* Content the reference member already refers to.
Known == UNION {Range(Base[n].refs) : n \in DOMAIN Base}

\* A Btrfs snapshot when the provider is "btrfs" or not named; "none" reads
\* the live tree, as does a file system without snapshots.
SnapshotSource ==
    /\ jobs < MaxJobs
    /\ waiting' = waiting \cup {[names |-> names, inodes |-> inodes]}
    /\ jobs' = jobs + 1
    /\ UNCHANGED <<fsVars, images, pc, job>>

\* backup_file from the set lock to the walk; a snapshot was made before, and
\* others may have published since.
Start(type, snap, verify) ==
    /\ pc = "idle" /\ Len(images) < MaxImages
    /\ IF snap = {} THEN jobs < MaxJobs /\ jobs' = jobs + 1 ELSE UNCHANGED jobs
    /\ waiting' = waiting \ snap
    /\ type # "full" => images # <<>>
    /\ job' = [type |-> type, ref |-> Reference(type), verify |-> verify,
               snap |-> snap, at |-> 1, walked |-> <<>>,
               index |-> {}, records |-> [n \in {} |-> None], torn |-> FALSE,
               read |-> None]
    /\ pc' = "stat"
    /\ UNCHANGED <<fsVars, images>>

\* Any error returned: the temporary file goes and nothing is published.
Fail == pc' = "idle" /\ job' = NoJob

\* `record`: the stat of a name. The second name of an inode that has more
\* than one is a hard link of the group the first began.
FirstLink(walk, i) == {w \in DOMAIN walk : walk[w].kind = "file" /\ walk[w].group = i}

Walked(n) ==
    LET i == ViewNames[n]
        shared == Cardinality({m \in Name : ViewNames[m] = i}) > 1
        file == [kind |-> "file", ino |-> i, mtime |-> ViewInodes[i].mtime,
                 ctime |-> ViewInodes[i].ctime, group |-> IF shared THEN i ELSE 0,
                 holes |-> {}]
    IN  IF shared /\ FirstLink(job.walked, i) # {}
        THEN [kind |-> "link", ino |-> i, mtime |-> file.mtime, ctime |-> 0,
              group |-> i, holes |-> {}]
        ELSE file

Stat ==
    /\ pc = "stat"
    /\ LET w == Walked(Paths[job.at]) IN
       /\ job' = [job EXCEPT !.walked = Append(@, w),
                             !.at = IF w.kind = "link" THEN @ + 1 ELSE @]
       /\ pc' = IF w.kind = "file" THEN "sparse"
                ELSE IF job.at = Len(Paths) THEN "walked" ELSE "stat"
    /\ UNCHANGED <<fsVars, images, waiting, jobs>>

\* The hole map of a file; a file system that cannot tell has none.
HolesOf(i) == {b \in Blocks(ViewInodes[i].data) : ViewInodes[i].data[b] = Zero}

\* `sparse_holes` opens the name again and refuses another inode; it does
\* not look at the ctime.
Sparse ==
    /\ pc = "sparse"
    /\ LET w == job.walked[job.at] IN
       IF ViewNames[Paths[job.at]] # w.ino THEN Fail
       ELSE /\ \E known \in BOOLEAN :
                 job' = [job EXCEPT !.walked[job.at].holes = IF known THEN HolesOf(w.ino) ELSE {},
                                    !.at = @ + 1]
            /\ pc' = IF job.at = Len(Paths) THEN "walked" ELSE "stat"
    /\ UNCHANGED <<fsVars, images, waiting, jobs>>

\* The walk is complete; the image is created and the entries are recorded
\* in the order of the walk.
Create ==
    /\ pc = "walked"
    /\ pc' = "entry" /\ job' = [job EXCEPT !.at = 1]
    /\ UNCHANGED <<fsVars, images, waiting, jobs>>

Unchanged(previous, w) ==
    /\ previous.kind = w.kind /\ previous.mtime = w.mtime
    /\ previous.group = w.group

InheritsByMtime(n, w) == n \in DOMAIN Base /\ ~job.verify /\ Unchanged(Base[n], w)

\* An entry's chunks are reused when its metadata, inode and ctime are those
\* the reference member recorded, unless the content is to be verified.
Inherits(n, w) ==
    /\ n \in DOMAIN Base /\ ~job.verify
    /\ Unchanged(Base[n], w)
    /\ Base[n].token = <<w.ino, w.ctime>>

Recorded(n, r) ==
    /\ job' = [job EXCEPT !.records = @ @@ (n :> r), !.at = @ + 1, !.read = None]
    /\ pc' = IF job.at = Len(Paths) THEN "finish" ELSE "entry"

\* A hard link carries no content; an unchanged file keeps its references
\* and takes the holes the walk saw; any other file is read.
Entry ==
    /\ pc = "entry"
    /\ LET n == Paths[job.at]  w == job.walked[job.at]
           record(refs, token) == [kind |-> w.kind, mtime |-> w.mtime, group |-> w.group,
                                   refs |-> refs, holes |-> w.holes, token |-> token]
       IN  CASE w.kind = "link" -> Recorded(n, record(<<>>, <<>>))
             [] w.kind = "file" /\ Inherits(n, w) ->
                  Recorded(n, record(Base[n].refs, <<w.ino, w.ctime>>))
             [] OTHER -> pc' = "open" /\ job' = [job EXCEPT !.read = [attempt |-> 1]]
    /\ UNCHANGED <<fsVars, images, waiting, jobs>>

\* `open_recorded`, and the stamp before the read.
Open ==
    /\ pc = "open"
    /\ LET w == job.walked[job.at] IN
       IF ViewNames[Paths[job.at]] # w.ino THEN Fail
       ELSE /\ job' = [job EXCEPT !.read = [attempt |-> @.attempt, got |-> <<>>, holes |-> {},
                                            before |-> ViewInodes[w.ino].ctime]]
            /\ pc' = "holes"
    /\ UNCHANGED <<fsVars, images, waiting, jobs>>

ReadHoles ==
    /\ pc = "holes"
    /\ job' = [job EXCEPT !.read.holes = HolesOf(job.walked[job.at].ino)]
    /\ pc' = "read"
    /\ UNCHANGED <<fsVars, images, waiting, jobs>>

\* `chunk_file`: a chunk this image or the reference member has is not
\* stored again.
ChunkFile ==
    /\ pc = "read"
    /\ LET data == ViewInodes[job.walked[job.at].ino].data
           got == Append(job.read.got, data[Len(job.read.got) + 1])
       IN  /\ job' = [job EXCEPT !.read.got = got,
                                 !.index = @ \cup ({Last(got)} \ Known)]
           /\ pc' = IF Len(got) = Len(data) THEN "after" ELSE "read"
    /\ UNCHANGED <<fsVars, images, waiting, jobs>>

\* The stamp after the read. A file that changed is read again; the last
\* attempt is kept without holes.
Stable(ctime) == job.read.before = ctime

CaptureFile ==
    /\ pc = "after"
    /\ LET w == job.walked[job.at]
           now == ViewInodes[w.ino]
           stable == Stable(now.ctime)
           r == [kind |-> "file", mtime |-> now.mtime, group |-> w.group,
                 refs |-> job.read.got, holes |-> IF stable THEN job.read.holes ELSE {},
                 token |-> <<w.ino, now.ctime>>]
       IN  IF ~stable /\ job.read.attempt < STABLE_ATTEMPTS
           THEN pc' = "open" /\ job' = [job EXCEPT !.read = [attempt |-> @.attempt + 1]]
           ELSE /\ job' = [job EXCEPT !.records = @ @@ (Paths[job.at] :> r), !.at = @ + 1,
                                      !.read = None, !.torn = @ \/ ~stable]
                /\ pc' = IF job.at = Len(Paths) THEN "finish" ELSE "entry"
    /\ UNCHANGED <<fsVars, images, waiting, jobs>>

\* A torn file takes the image's consistency; then the manifest, the hash
\* index and the change tokens are written and the image is published.
Consistency ==
    IF job.torn THEN "None" ELSE IF job.snap # {} THEN "PointInTime" ELSE "PerFile"

Publish ==
    /\ pc = "finish"
    /\ images' = Append(images, [type |-> job.type, consistency |-> Consistency,
                                 records |-> job.records, stored |-> job.index,
                                 moment |-> job.snap])
    /\ pc' = "idle" /\ job' = NoJob
    /\ UNCHANGED <<fsVars, waiting, jobs>>

\* A kill or an error anywhere before publication.
Kill == pc # "idle" /\ Fail /\ UNCHANGED <<fsVars, images, waiting, jobs>>

Next ==
    \/ \E n \in Name, keep \in BOOLEAN :
         \E b \in Blocks(inodes[names[n]].data), v \in UNION {Range(d) : d \in Contents} :
           WriteBlock(n, b, v, keep)
    \/ \E n \in Name : Replace(n)
    \/ SnapshotSource
    \/ \E type \in {"full", "incremental", "differential"}, verify \in BOOLEAN,
          snap \in {{}} \cup {{s} : s \in waiting} : Start(type, snap, verify)
    \/ Stat \/ Sparse \/ Create \/ Entry \/ Open \/ ReadHoles \/ ChunkFile
    \/ CaptureFile \/ Publish \/ Kill

Spec == Init /\ [][Next]_vars

-----------------------------------------------------------------------------
(* Restoring image k: the newest manifest and the chunks of every member    *)
(* (restore_file_inner); a chain with an inconsistent member is refused     *)
(* unless that is accepted.                                                 *)
HashIndex(k) == UNION {images[i].stored : i \in Chain(k)}
Accepted(k) == \A i \in Chain(k) : images[i].consistency # "None"
Files(k) == {n \in DOMAIN images[k].records : images[k].records[n].kind = "file"}

\* Every chunk a manifest refers to is stored by a member of its chain: a
\* restore never meets "references a chunk no member stores" (chunk_file
\* skips what the reference member knows).
EveryChunkIsStored ==
    \A k \in DOMAIN images : \A n \in Files(k) :
        Range(images[k].records[n].refs) \subseteq HashIndex(k)

\* In a chain a restore accepts, the content recorded of a file is what the
\* file held at the recorded inode and ctime, however it changed while it
\* was walked and read, and whether it was read or inherited; and an image
\* of a snapshot holds the snapshot's moment.
FilesAreWhole ==
    \A k \in DOMAIN images : Accepted(k) =>
        \A n \in Files(k) :
            LET r == images[k].records[n] IN
            /\ <<r.token[1], r.token[2], r.refs>> \in past
            /\ \A s \in images[k].moment : r.refs = s.inodes[s.names[n]].data
=============================================================================
