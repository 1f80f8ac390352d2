------------------------------- MODULE MC_Disks -------------------------------
(***************************************************************************)
(* Block devices and whole disks for TLC, one scenario per behaviour: two  *)
(* jobs back up a source of two chunks, one of which may freeze it, while  *)
(* it is written, mounted and unmounted; and a disk is imaged and restored *)
(* to a target of another size.  The machine that does not run keeps empty *)
(* variables.                                                              *)
(***************************************************************************)
EXTENDS WholeDisk, TLC

CONSTANTS j1, j2

VARIABLES on,
          scene, live, mount, claim, frozen, lvs, deadman, age, spent, unheld, overflow,
          setLock, images, writes, kills, step, job

blockVars == <<scene, live, mount, claim, frozen, lvs, deadman, age, spent,
               unheld, overflow, setLock, images, writes, kills, step, job>>
allVars == <<on, vars, blockVars>>

-----------------------------------------------------------------------------
Plain == [forced |-> "none", allowFreeze |-> FALSE, allowInconsistent |-> FALSE,
          onBad |-> "abort", destElsewhere |-> TRUE]
Recording == [Plain EXCEPT !.onBad = "record"]
Freezing == [Plain EXCEPT !.allowFreeze = TRUE]
Inconsistent == [Plain EXCEPT !.allowInconsistent = TRUE]

Source(volume, mounted, bad, chunks, changes, first, second) ==
  [volume |-> volume, mount |-> mounted, bad |-> bad, chunks |-> chunks, changes |-> changes,
   kills |-> 1, asked |-> j1 :> first @@ j2 :> second]
Offline == {Recording, [Plain EXCEPT !.forced = "offline"]}
AnyWay == {Recording, Freezing, Inconsistent, [Freezing EXCEPT !.destElsewhere = FALSE]}

\* A device, a file system in use, a logical volume that changes much or that two
\* jobs back up, a physical one, the root, and two jobs that freeze one file system.
Volumes ==
  {Source("plain", "no", {}, 2, 2, {Recording, Inconsistent}, Offline),
   Source("plain", "here", {1}, 2, 2, AnyWay, Offline),
   Source("dm", "here", {}, 2, 2, {Recording}, {}),
   Source("dm", "here", {}, 2, 1, {Recording}, {Plain}),
   Source("pv", "no", {}, 2, 1, AnyWay, Offline),
   Source("plain", "root", {}, 2, 1, AnyWay, Offline),
   Source("plain", "here", {}, 1, 1, {Freezing}, {Freezing})}

Block == INSTANCE BlockBackup
  WITH Jobs <- {j1, j2}, Sources <- Volumes, Values <- {"a"}, Timeout <- 1, Grace <- 1,
       CowChunks <- 1, pc <- step

ASSUME Block!BlockAssumption

-----------------------------------------------------------------------------
P(i, s, n) == [index |-> i, start |-> s, size |-> n]
Content(n, zeros) == [b \in 0 .. n - 1 |-> IF b \in zeros THEN Zero ELSE Data(b)]
GptDisk(n, parts, ok, array, zeros) ==
  [Content(n, zeros) EXCEPT ![0] = Mbr({P(1, 1, n - 1)}),
     ![1] = Header(ok, 1, n - 1, array, n - 3), ![array] = Array(parts),
     ![n - 2] = Array(parts), ![n - 1] = Header(TRUE, n - 1, 1, n - 2, n - 3)]
MbrDisk(n, parts, zeros) == [Content(n, zeros) EXCEPT ![0] = Mbr(parts)]

Whole == [complete |-> FALSE, used |-> {}]
Used(s) == [complete |-> TRUE, used |-> s]
Fs(a, b, c) == [i \in 1 .. 5 |-> CASE i = 1 -> a [] i = 2 -> b [] i = 5 -> c [] OTHER -> "none"]
Maps(m) == [i \in 1 .. 5 |-> IF i = 1 THEN m ELSE Whole]
Disk(disk, kernel, file, fs, maps, bad, mounted) ==
  [disk |-> disk, kernel |-> kernel, file |-> file, fs |-> fs, maps |-> maps,
   bad |-> bad, mounted |-> mounted]

\* GPT disks with whole and damaged primary headers, some with a first partition
\* or with entries beyond the leading region's cap, and MBR disks with gaps,
\* partitions out of order, logical ones and an empty one.
Two == {P(1, 3, 3), P(2, 7, 2)}
GptDisks ==
  {Disk(GptDisk(11, Two, ok, 2, z), Two, file, Fs("ext4", s, "none"), Maps(m), bad, FALSE) :
     ok \in BOOLEAN, z \in SUBSET {3, 4, 5}, file \in BOOLEAN, s \in {"swap", "ntfs"},
     m \in {Whole, Used({0}), Used({1}), Used({0, 2})}, bad \in {{}, {5}, {7}}}
FarDisks ==
  {Disk(GptDisk(11, {P(1, 6, 2)}, TRUE, array, {}), {P(1, 6, 2)}, FALSE,
        Fs("ext4", "none", "none"), Maps(Used({1})), bad, FALSE) :
     array \in {2, 5}, bad \in {{}, {3}, {4}}}
MbrDisks ==
  {Disk(MbrDisk(9, parts, {2}), parts, FALSE, Fs("ext4", "none", "swap"),
        Maps(Used({1})), {}, mounted) :
     parts \in {{}, {P(1, 4, 3), P(2, 7, 2)}, {P(2, 1, 2), P(1, 5, 3)},
                {P(1, 1, 3), P(2, 4, 5), P(5, 5, 3)}, {P(1, 1, 2), P(2, 4, 0)}},
     mounted \in BOOLEAN}
AllDisks == GptDisks \cup FarDisks \cup MbrDisks

-----------------------------------------------------------------------------
NoDisk ==
  /\ src = {} /\ onBad = {} /\ layout = {} /\ regions = {} /\ entries = {} /\ image = {}
  /\ target = {} /\ at = {} /\ pc = "off" /\ why = {}
NoBlock ==
  /\ scene = {} /\ live = {} /\ mount = {} /\ claim = {} /\ frozen = {}
  /\ lvs = {} /\ deadman = {} /\ age = {} /\ spent = {} /\ unheld = {} /\ overflow = {} /\ setLock = {}
  /\ images = <<>> /\ writes = {} /\ kills = {} /\ step = {} /\ job = {}

AllInit ==
  /\ on \in {"block", "disk"}
  /\ IF on = "block" THEN Block!Init ELSE NoBlock
  /\ IF on = "disk" THEN Init ELSE NoDisk

InBlock(A) == on = "block" /\ A /\ UNCHANGED <<on, vars>>

AllNext ==
  \/ InBlock(Block!Next)
  \/ on = "disk" /\ Next /\ UNCHANGED <<on, blockVars>>

\* The fairness of BlockBackup: time and the deadman.
Fairness ==
  /\ WF_blockVars(InBlock(Block!Tick))
  /\ \A j \in {j1, j2} : WF_blockVars(InBlock(Block!Deadman(j)))

AllSpec == AllInit /\ [][AllNext]_allVars /\ Fairness

-----------------------------------------------------------------------------
\* Every published image that claims a consistency resolves, through its chain,
\* to what the source held at one moment, save for a freeze that did not hold
\* and for a full snapshot that lvs could not measure (BlockBackup).
ImageIsOneMoment == Block!ImageIsOneMoment

\* The source does not stay frozen, even when the job is killed or its own thaw
\* fails, unless all tries of its deadman's helper failed too (BlockBackup).
SourceIsReleased == Block!FrozenIsThawed

\* A restored disk has the source's partitions, their blocks, the blocks before
\* them up to the cap and a table that fits the target; a restore that refuses
\* has not touched the target, and one that fails while it fits the table leaves
\* the source's partitions readable (WholeDisk).
DiskComesBack == RestoredDiskIsSource /\ RefusalsComeFirst
===============================================================================
