---------------------------- MODULE StreamBackup ----------------------------
(* Btrfs stream backups: the read-only snapshots an image is sent from, the *)
(* "latest" file that names the parents of the next incremental, and the    *)
(* jobs that create, send, publish, commit and drop them.                   *)
(*                                                                          *)
(* All destinations hold a set of the same name, so their jobs share one    *)
(* state directory on the source file system, which a local lock guards.    *)
(* A snapshot is <<image, subvolume>>; it stands for its UUID too.          *)
EXTENDS Naturals, Sequences, FiniteSets, SequencesExt

CONSTANTS
    Procs,          \* programs that back up
    Dests,          \* destinations whose sets have one name
    Subvols,        \* subvolumes of the file system
    MaxImages       \* bound on the images begun

StreamAssumption == MaxImages \in Nat \ {0} /\ Subvols # {}

None == "none"

VARIABLES
    mounted,    \* subvolumes that are mounted
    snaps,      \* read-only snapshots that exist
    dirs,       \* image directories in the state directory
    latest,     \* lines of the latest file
    stateLock,  \* holder of the state directory's lock
    mounts,     \* mounts of the top level, stacked on one directory
    setLock,    \* holder of every set's lock
    images,     \* images of every set, in order
    begun,      \* images begun
    killed,     \* history: programs that were killed
    pc, job

vars == <<mounted, snaps, dirs, latest, stateLock, mounts, setLock, images,
          begun, killed, pc, job>>

fsVars == <<mounted, snaps, dirs, latest>>
NoJob == [dest |-> None, image |-> 0, parent |-> 0, exclude |-> FALSE, known |-> <<>>,
          todo |-> <<>>, subvols |-> <<>>, committed |-> FALSE]

Init ==
    /\ mounted = Subvols
    /\ snaps = {} /\ dirs = {} /\ latest = <<>>
    /\ stateLock = None /\ mounts = 0
    /\ setLock = [d \in Dests |-> None]
    /\ images = [d \in Dests |-> <<>>]
    /\ begun = 0 /\ killed = {}
    /\ pc = [p \in Procs |-> "idle"]
    /\ job = [p \in Procs |-> NoJob]

Go(p, there) == pc' = [pc EXCEPT ![p] = there]

Keep(p, j) == job' = [job EXCEPT ![p] = j]

\* An error return: TreeSnapshot is dropped.
Fail(p) ==
    /\ Go(p, "drop")
    /\ UNCHANGED <<fsVars, stateLock, mounts, setLock, images, begun, killed, job>>

(* backup_stream up to the snapshot: the set lock, the parent the plan      *)
(* resolves (0 for a full), the options of the tree snapshot.               *)
Start(p, d, full, exclude) ==
    /\ pc[p] = "idle" /\ p \notin killed
    /\ setLock[d] = None
    /\ begun < MaxImages
    /\ ~full => images[d] # <<>>
    /\ setLock' = [setLock EXCEPT ![d] = p]
    /\ begun' = begun + 1
    /\ Keep(p, [NoJob EXCEPT !.dest = d, !.image = begun + 1, !.exclude = exclude,
                             !.parent = IF full THEN 0 ELSE Last(images[d]).id])
    /\ Go(p, "mount")
    /\ UNCHANGED <<fsVars, stateLock, mounts, images, killed>>

\* mount_top_level, on a directory named after the file system.
MountTop(p) ==
    /\ pc[p] = "mount"
    /\ mounts' = mounts + 1
    /\ Go(p, "lock")
    /\ UNCHANGED <<fsVars, stateLock, setLock, images, begun, killed, job>>

MountTopFails(p) ==
    /\ pc[p] = "mount"
    /\ setLock' = [setLock EXCEPT ![job[p].dest] = None]
    /\ Go(p, "idle") /\ Keep(p, NoJob)
    /\ UNCHANGED <<fsVars, stateLock, mounts, images, begun, killed>>

\* lock_state does not wait; then the image directory.
LockState(p) ==
    /\ pc[p] = "lock" /\ stateLock = None
    /\ stateLock' = p
    /\ dirs' = dirs \cup {job[p].image}
    /\ Go(p, "plan")
    /\ UNCHANGED <<mounted, snaps, latest, mounts, setLock, images, begun, killed, job>>

LockStateBusy(p) == pc[p] = "lock" /\ stateLock # None /\ Fail(p)

(* check_parent_binding: the latest file names snapshots, all of them in    *)
(* the directory of the parent image, and they exist.                       *)
ParentBinding(lines, parent) ==
    /\ lines # <<>>
    /\ \A k \in 1..Len(lines) : lines[k][1] = parent /\ lines[k] \in snaps

\* parse_mounted_subvolumes: findmnt lists the job's own mount of the top level
\* too, which is no source.
Top == "top level"
MountedSubvolumes == (mounted \cup IF mounts > 0 THEN {Top} ELSE {}) \ {Top}

\* nested_unmounted: with the root mounted, every other subvolume counts.
Nested == Subvols \ MountedSubvolumes

Plan(p) ==
    /\ pc[p] = "plan"
    /\ MountedSubvolumes # {}
    /\ Nested # {} => job[p].exclude
    /\ job[p].parent # 0 => ParentBinding(latest, job[p].parent)
    /\ Keep(p, [job[p] EXCEPT !.known = latest, !.todo = SetToSeq(MountedSubvolumes)])
    /\ Go(p, "snapshot")
    /\ UNCHANGED <<fsVars, stateLock, mounts, setLock, images, begun, killed>>

PlanRefused(p) ==
    /\ pc[p] = "plan"
    /\ \/ MountedSubvolumes = {}
       \/ Nested # {} /\ ~job[p].exclude
       \/ job[p].parent # 0 /\ ~ParentBinding(latest, job[p].parent)
    /\ Fail(p)

(* The parent of a subvolume's stream: the snapshot the latest file names   *)
(* for it, or none when the parent image does not hold the subvolume.       *)
Previous(j, v) == {k \in 1..Len(j.known) : j.known[k][2] = v}

ParentSnapshot(j, v) ==
    IF j.parent = 0 \/ Previous(j, v) = {} THEN 0
    ELSE j.known[CHOOSE k \in Previous(j, v) : TRUE][1]

TakeSnapshot(p) ==
    /\ pc[p] = "snapshot" /\ job[p].todo # <<>>
    /\ LET j == job[p]
           v == Head(j.todo)
           base == ParentSnapshot(j, v) IN
       /\ base # 0 => <<base, v>> \in snaps
       /\ snaps' = snaps \cup {<<j.image, v>>}
       /\ Keep(p, [j EXCEPT !.todo = Tail(@), !.subvols = Append(@, [subvol |-> v, base |-> base])])
    /\ UNCHANGED <<mounted, dirs, latest, stateLock, mounts, setLock, images, begun, killed, pc>>

TakeSnapshotFails(p) == pc[p] = "snapshot" /\ job[p].todo # <<>> /\ Fail(p)

Sections(j, whole) ==
    [k \in 1..Len(j.subvols) |-> j.subvols[k] @@ [whole |-> k \in whole]]

(* Mutation: the exit status of btrfs send is not looked at. *)
SendUnchecked(p, whole) ==
    /\ pc[p] = "snapshot" /\ job[p].todo = <<>>
    /\ Keep(p, [job[p] EXCEPT !.subvols = Sections(job[p], whole)])
    /\ Go(p, "publish")
    /\ UNCHANGED <<fsVars, stateLock, mounts, setLock, images, begun, killed>>

(* send, chunk_streams and SendStream::finish: a stream that ends early     *)
(* reads like a short one, and only the exit status of btrfs send tells.    *)
Send(p, whole) ==
    /\ pc[p] = "snapshot" /\ job[p].todo = <<>>
    /\ whole = 1..Len(job[p].subvols)
    /\ Keep(p, [job[p] EXCEPT !.subvols = Sections(job[p], whole)])
    /\ Go(p, "publish")
    /\ UNCHANGED <<fsVars, stateLock, mounts, setLock, images, begun, killed>>

SendFails(p) == pc[p] = "snapshot" /\ job[p].todo = <<>> /\ Fail(p)

\* lock.verify and publish_new.
Publish(p) ==
    /\ pc[p] = "publish"
    /\ images' = [images EXCEPT ![job[p].dest] =
                    Append(@, [id |-> job[p].image, parent |-> job[p].parent,
                               sections |-> job[p].subvols])]
    /\ Go(p, "truncate")
    /\ UNCHANGED <<fsVars, stateLock, mounts, setLock, begun, killed, job>>

PublishFails(p) == pc[p] = "publish" /\ Fail(p)

(* commit: write_latest truncates the file and writes its lines, ... *)
Truncate(p) ==
    /\ pc[p] = "truncate"
    /\ latest' = <<>>
    /\ Go(p, "lines")
    /\ UNCHANGED <<mounted, snaps, dirs, stateLock, mounts, setLock, images, begun, killed, job>>

\* A snapshot's UUID cannot be read, or the file not be opened.
TruncateFails(p) == pc[p] = "truncate" /\ Fail(p)

WriteLine(p) ==
    /\ pc[p] = "lines" /\ Len(latest) < Len(job[p].subvols)
    /\ latest' = Append(latest, <<job[p].image, job[p].subvols[Len(latest) + 1].subvol>>)
    /\ UNCHANGED <<mounted, snaps, dirs, stateLock, mounts, setLock, images, begun, killed,
                   pc, job>>

WriteLineFails(p) == pc[p] = "lines" /\ Len(latest) < Len(job[p].subvols) /\ Fail(p)

(* ... prune_image_dirs then deletes the snapshots of every other image, as *)
(* far as it can, and the directories that are empty. It does not look at   *)
(* the result of a deletion, but a directory it cannot list is an error.    *)
Prune(p, deleted, ok) ==
    /\ pc[p] = "lines" /\ Len(latest) = Len(job[p].subvols)
    /\ deleted \subseteq {s \in snaps : s[1] # job[p].image}
    /\ snaps' = snaps \ deleted
    /\ dirs' = {d \in dirs : d = job[p].image \/ \E s \in snaps \ deleted : s[1] = d}
    /\ Keep(p, [job[p] EXCEPT !.committed = ok])
    /\ Go(p, "drop")
    /\ UNCHANGED <<mounted, latest, stateLock, mounts, setLock, images, begun, killed>>

(* Drop: an uncommitted tree deletes its snapshots, as far as it can; then  *)
(* the lock and the mount go, and with the end of the job the set lock.     *)
Drop(p, deleted) ==
    /\ pc[p] = "drop"
    /\ LET j == job[p] IN
       /\ deleted \subseteq {s \in snaps : s[1] = j.image /\ ~j.committed}
       /\ snaps' = snaps \ deleted
       /\ dirs' = IF j.committed \/ \E s \in snaps \ deleted : s[1] = j.image
                  THEN dirs ELSE dirs \ {j.image}
       /\ stateLock' = IF stateLock = p THEN None ELSE stateLock
       /\ mounts' = mounts - 1
       /\ setLock' = [setLock EXCEPT ![j.dest] = None]
    /\ Go(p, "idle") /\ Keep(p, NoJob)
    /\ UNCHANGED <<mounted, latest, images, begun, killed>>

(* A killed program frees its file locks; its mount and snapshots stay.     *)
(* The set's lock file is broken as abandoned before anyone else starts.    *)
Kill(p) ==
    /\ pc[p] # "idle"
    /\ killed' = killed \cup {p}
    /\ stateLock' = IF stateLock = p THEN None ELSE stateLock
    /\ setLock' = [setLock EXCEPT ![job[p].dest] = None]
    /\ Go(p, "idle") /\ Keep(p, NoJob)
    /\ UNCHANGED <<fsVars, mounts, images, begun>>

\* Somebody unmounts a subvolume, or mounts it.
Remount(v) ==
    /\ begun = 1
    /\ mounted' = IF v \in mounted THEN mounted \ {v} ELSE mounted \cup {v}
    /\ UNCHANGED <<snaps, dirs, latest, stateLock, mounts, setLock, images, begun, killed,
                   pc, job>>

\* The newest image of a set is deleted at its destination.
LoseNewest(d) ==
    /\ images[d] # <<>> /\ setLock[d] = None
    /\ images' = [images EXCEPT ![d] = Front(@)]
    /\ UNCHANGED <<fsVars, stateLock, mounts, setLock, begun, killed, pc, job>>

Step(p) ==
    \/ \E d \in Dests, full, exclude \in BOOLEAN : Start(p, d, full, exclude)
    \/ MountTop(p) \/ MountTopFails(p)
    \/ LockState(p) \/ LockStateBusy(p)
    \/ Plan(p) \/ PlanRefused(p)
    \/ TakeSnapshot(p) \/ TakeSnapshotFails(p)
    \/ \E whole \in SUBSET (1..Len(job[p].subvols)) : Send(p, whole)
    \/ SendFails(p)
    \/ Publish(p) \/ PublishFails(p)
    \/ Truncate(p) \/ TruncateFails(p) \/ WriteLine(p) \/ WriteLineFails(p)
    \/ \E deleted \in SUBSET snaps, ok \in BOOLEAN : Prune(p, deleted, ok)
    \/ \E deleted \in SUBSET snaps : Drop(p, deleted)
    \/ Kill(p)

Next ==
    \/ \E p \in Procs : Step(p)
    \/ \E v \in Subvols : Remount(v)
    \/ \E d \in Dests : LoseNewest(d)

Spec == Init /\ [][Next]_vars

(* Properties *)

\* Sections of the member with this id in the set at d.
SectionsOf(d, id) ==
    UNION {{images[d][k].sections[n] : n \in 1..Len(images[d][k].sections)} :
              k \in {k \in 1..Len(images[d]) : images[d][k].id = id}}

(* A chain of streams can be received in order: no stream of a published    *)
(* image was cut short, and a stream that needs a parent was sent from the  *)
(* very snapshot the parent image of its chain was sent from, although jobs *)
(* of other destinations replace the latest file and any of them may be     *)
(* killed between publishing its image and recording its snapshots.         *)
StreamsReplay ==
    \A d \in Dests : \A k \in 1..Len(images[d]) :
        LET i == images[d][k] IN
        \A n \in 1..Len(i.sections) :
            LET s == i.sections[n] IN
            /\ s.whole
            /\ s.base # 0 =>
                  /\ s.base = i.parent
                  /\ \E t \in SectionsOf(d, i.parent) : t.subvol = s.subvol

(* While a job sends, its own snapshots, the parents they are sent against  *)
(* and the mount it reaches them through stay: no other job prunes or       *)
(* unmounts them.                                                           *)
SnapshotsOutliveTheSend ==
    \A p \in Procs : pc[p] \in {"snapshot", "publish"} =>
        /\ mounts > 0
        /\ \A n \in 1..Len(job[p].subvols) :
              LET s == job[p].subvols[n] IN
              /\ <<job[p].image, s.subvol>> \in snaps
              /\ s.base # 0 => <<s.base, s.subvol>> \in snaps
=============================================================================
