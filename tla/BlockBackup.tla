----------------------------- MODULE BlockBackup -----------------------------
(* Block backups: the provider that makes a source readable (offline claim, *)
(* LVM snapshot, freeze with its deadman, or a live read), the read loop    *)
(* with its health checks, and the full, incremental and differential       *)
(* manifests it leaves in the set.                                          *)
(*                                                                          *)
(* A chunk's content is a value, Zero, or Free (outside the file system's   *)
(* used extents). Time is counted in ticks.                                 *)
EXTENDS Naturals, Sequences, FiniteSets, SequencesExt

CONSTANTS
    Jobs,           \* programs that back the source up, one backup each
    Values,         \* contents of a chunk that holds data
    Sources,        \* sources and what happens to them: see scene
    Timeout, Grace, \* freeze_timeout_secs and deadman_grace_secs
    CowChunks       \* chunks at which an LVM snapshot passes 90% of its space

BlockAssumption ==
    /\ CowChunks \in Nat \ {0}
    /\ Timeout \in Nat /\ Grace \in Nat
    /\ Values \cap {"zero", "free"} = {}

None == "none"
Zero == "zero"
Free == "free"
Unused == [is |-> "unused"]
Bad == [is |-> "bad"]
Nought == [is |-> "zero"]
Stored(v) == [is |-> "stored", of |-> v]

VARIABLES
    scene,      \* the source: volume, "plain", "dm" (a logical volume) or "pv"; mount
                \* at first; chunks at first; bad, those that cannot be read; and the
                \* bounds: asked, job -> options it may be started with; changes of
                \* the source; kills of jobs
    live,       \* content of the source, chunk by chunk
    mount,      \* "no", "here", "elsewhere" (another namespace), "root"
    claim,      \* job that holds the exclusive open
    frozen,     \* job whose FIFREEZE is in force on the source
    lvs,        \* snapshots: [owner, tagged, data, copied]
    deadman,    \* job -> "none", "armed", "checked", "astray", "gave up"
    age,        \* job -> ticks since its deadman was armed, while it is
    spent,      \* job -> ticks since FIFREEZE returned, while the freeze is taken to hold
    unheld,     \* jobs whose freeze does not hold as long as they take it to
    overflow,   \* jobs whose monitor saw the snapshot nearly full
    setLock, images, writes, kills,
    pc, job

vars == <<scene, live, mount, claim, frozen, lvs, deadman, age, spent,
          unheld, overflow, setLock, images, writes, kills, pc, job>>

source == <<scene, live, mount, writes>>
freezing == <<frozen, deadman, age, spent, unheld>>
lvm == <<lvs, overflow>>
set == <<setLock, images>>

volume == scene.volume
badSectors == scene.bad

NoOpts == [forced |-> None, allowFreeze |-> FALSE, allowInconsistent |-> FALSE,
           onBad |-> "abort", destElsewhere |-> TRUE]
NoJob == [opts |-> NoOpts, provider |-> None, dir |-> None, guard |-> FALSE,
          measured |-> TRUE, was |-> <<>>, used |-> {}, size |-> 0, parent |-> 0,
          delta |-> FALSE, next |-> 1, read |-> Unused, entries |-> <<>>]
AsksForFreeze(opts) == opts.allowFreeze \/ opts.forced = "freeze"

Contents == Values \cup {Zero, Free}
Init ==
    /\ scene \in Sources
    /\ live \in [1 .. scene.chunks -> Values] /\ mount = scene.mount
    /\ claim = None /\ frozen = None /\ lvs = {}
    /\ deadman = [j \in Jobs |-> None]
    /\ age = [j \in Jobs |-> 0] /\ spent = [j \in Jobs |-> 0]
    /\ unheld = {} /\ overflow = {} /\ setLock = None /\ images = <<>> /\ writes = 0 /\ kills = 0
    /\ pc = [j \in Jobs |-> "idle"]
    /\ job = [j \in Jobs |-> NoJob]

Go(j, here, there) == pc[j] = here /\ pc' = [pc EXCEPT ![j] = there]
Keep(j, to) == job' = [job EXCEPT ![j] = to]
Forget(j) == Keep(j, NoJob)

\* An error return: what was read is forgotten, the guards are still to be dropped.
Returning(j) == [NoJob EXCEPT !.provider = job[j].provider, !.dir = job[j].dir,
                              !.guard = job[j].guard]
Fail(j, here) ==
    /\ Go(j, here, "drop")
    /\ Keep(j, Returning(j))
    /\ UNCHANGED <<source, claim, freezing, lvm, setLock, images, kills>>
------------------------------------------------------------------------------
(* Choosing the provider.                                                   *)

\* A file system is visibly mounted; the root counts.
Mounted == mount \in {"here", "root"}

(* probe::decide: the first provider whose facts fit and that the request   *)
(* does not exclude; None is the refusal that lists the options.            *)
Decide(opts) ==
    LET candidate(p) == opts.forced \in {None, p}
        fits(p) ==
            /\ candidate(p)
            /\ CASE p = "lvm" -> volume \in {"dm", "pv"}
                 [] p = "offline" -> ~ Mounted
                 [] p = "freeze" -> /\ Mounted
                                    /\ AsksForFreeze(opts)
                                    /\ mount # "root"
                 [] OTHER -> opts.allowInconsistent
        order == <<"lvm", "offline", "freeze", "live-none">>
    IN  IF \E i \in 1 .. 4 : fits(order[i])
        THEN order[Min({i \in 1 .. 4 : fits(order[i])})]
        ELSE None

\* FreezeProvider's refusal: what must stay writable, and the destination.
FreezeRefuses(opts) ==
    \/ opts.forced \notin {None, "freeze"}
    \/ ~ AsksForFreeze(opts)
    \/ ~ Mounted \/ mount = "root"
    \/ ~ opts.destElsewhere

\* supports() of the provider, asked again with a fresh layout.
Supports(p, opts) ==
    CASE p = "lvm" -> opts.forced \in {None, "lvm"} /\ volume = "dm"
      [] p = "offline" -> ~ Mounted /\ volume # "pv" /\ opts.forced \in {None, "offline"}
      [] p = "freeze" -> ~ FreezeRefuses(opts)
      [] OTHER -> /\ opts.allowInconsistent /\ Mounted
                  /\ opts.forced \in {None, "live-none"}

(* backup_image_with_mode: discover and decide.                             *)
Start(j) ==
    \E opts \in scene.asked[j] :
        /\ Decide(opts) # None
        /\ Go(j, "idle", "confirm")
        /\ Keep(j, [NoJob EXCEPT !.opts = opts, !.provider = Decide(opts)])
        /\ UNCHANGED <<source, claim, freezing, lvm, set, kills>>

\* backup_block_with: discover again and confirm.
Confirm(j) ==
    /\ Supports(job[j].provider, job[j].opts)
    /\ Go(j, "confirm", job[j].provider)
    /\ Keep(j, [job[j] EXCEPT !.opts = [NoOpts EXCEPT !.onBad = job[j].opts.onBad]])
    /\ UNCHANGED <<source, claim, freezing, lvm, set, kills>>

Refused(j) ==
    /\ pc[j] = "confirm" /\ ~ Supports(job[j].provider, job[j].opts)
    /\ Fail(j, "confirm")
------------------------------------------------------------------------------
(* Offline: checks of the layout, swaps, holders and physical volumes, then *)
(* the kernel's exclusive open, which sees mounts of every namespace.       *)
Claim(j) ==
    /\ claim = None /\ mount = "no"
    /\ Go(j, "offline", "map")
    /\ claim' = j
    /\ UNCHANGED <<source, freezing, lvm, set, kills, job>>

ClaimBusy(j) ==
    /\ pc[j] = "offline" /\ ~ (claim = None /\ mount = "no")
    /\ Fail(j, "offline")

\* Live: nothing holds the source still.
ReadLive(j) ==
    /\ Go(j, "live-none", "map")
    /\ UNCHANGED <<source, claim, freezing, lvm, set, kills, job>>
------------------------------------------------------------------------------
(* LVM.                                                                     *)

\* A process is there until its backup ended or it was killed.
Alive(j) == pc[j] \notin {"idle", "done", "dead"}

\* owner_alive and sweep_stale: tagged snapshots whose owner is gone.
Stale(s) == s.tagged /\ ~ Alive(s.owner)
Sweep(j) ==
    /\ Go(j, "lvm", "lvcreate")
    /\ \E kept \in SUBSET {s \in lvs : Stale(s)} :      \* an lvremove may fail
           lvs' = {s \in lvs : ~ Stale(s)} \cup kept
    /\ UNCHANGED <<source, claim, freezing, overflow, set, kills, job>>

\* lvcreate -s: the origin is suspended for the instant of creation.
LvCreate(j) ==
    /\ Go(j, "lvcreate", "tag")
    /\ lvs' = lvs \cup {[owner |-> j, tagged |-> FALSE, data |-> live, copied |-> {}]}
    /\ UNCHANGED <<source, claim, freezing, overflow, set, kills, job>>

LvCreateFails(j) == Fail(j, "lvcreate")

Mine(j) == {s \in lvs : s.owner = j}
Tagged(j) == {IF s.owner = j THEN [s EXCEPT !.tagged = TRUE] ELSE s : s \in lvs}
Tag(j) ==
    /\ Go(j, "tag", "map")
    /\ lvs' = Tagged(j)
    /\ Keep(j, [job[j] EXCEPT !.guard = TRUE])
    /\ UNCHANGED <<source, claim, freezing, overflow, set, kills>>

\* Tagging fails and the snapshot is removed again, if it can be; it is left
\* when a thin one cannot be activated, this process cannot name itself, or the
\* monitor's thread cannot be started.
TagFails(j) ==
    /\ Go(j, "tag", "drop")
    /\ lvs' \in {lvs \ Mine(j), lvs, Tagged(j)}
    /\ Keep(j, Returning(j))
    /\ UNCHANGED <<source, claim, freezing, overflow, set, kills>>

\* usage_of >= OVERFLOW_PERCENT, and the point at which the snapshot is invalid.
NearlyFull(j) == \E s \in Mine(j) : Cardinality(s.copied) >= CowChunks
Invalid(s) == Cardinality(s.copied) > CowChunks

\* The monitor thread samples every five seconds.
Monitor(j) ==
    /\ job[j].provider = "lvm" /\ pc[j] \in {"map", "lock", "walk", "read", "check"}
    /\ NearlyFull(j) /\ j \notin overflow
    /\ overflow' = overflow \cup {j}
    /\ UNCHANGED <<source, claim, freezing, lvs, set, kills, pc, job>>
------------------------------------------------------------------------------
(* Freeze: the deadman (a timer and a detached helper that share one        *)
(* marker) is armed first.                                                  *)

\* MUTANT: nobody is asked to thaw.
ArmNothing(j) ==
    /\ Go(j, "freeze", "open")
    /\ UNCHANGED <<source, claim, freezing, lvm, set, kills, job>>

Arm(j) ==
    /\ Go(j, "freeze", "open")
    /\ deadman' = [deadman EXCEPT ![j] = "armed"]
    /\ age' = [age EXCEPT ![j] = 0]
    /\ UNCHANGED <<source, claim, frozen, spent, unheld, lvm, set, kills, job>>

ArmFails(j) == Fail(j, "freeze")

\* The file system the mountpoint's path leads to: the source, or the one below
\* when the source was unmounted meanwhile.
Named == IF Mounted THEN "source" ELSE "below"

OpenDir(j) ==
    /\ Go(j, "open", "fifreeze")
    /\ Keep(j, [job[j] EXCEPT !.dir = Named])
    /\ UNCHANGED <<source, claim, freezing, lvm, set, kills>>

\* FIFREEZE returns; it may take any time, and the deadman has counted since Arm.
\* In the last Grace ticks of its count the job still believes in its freeze.
Freeze(j) ==
    /\ job[j].dir = "source" => frozen = None
    /\ Go(j, "fifreeze", "map")
    /\ frozen' = IF job[j].dir = "source" THEN j ELSE frozen
    /\ unheld' = IF \/ job[j].dir = "below"
                    \/ age[j] >= Grace \/ deadman[j] # "armed" THEN unheld \cup {j} ELSE unheld
    /\ spent' = [spent EXCEPT ![j] = 0]
    /\ Keep(j, [job[j] EXCEPT !.guard = TRUE])
    /\ UNCHANGED <<source, claim, deadman, age, lvm, set, kills>>

\* The marker is removed; a helper that has seen it goes on.
Disarm(j) ==
    /\ deadman' = [deadman EXCEPT ![j] = IF @ = "armed" THEN None ELSE @]
    /\ age' = [age EXCEPT ![j] = 0]

\* The directory does not open or FIFREEZE fails, as on a file system that is
\* frozen already: disarmed.
FreezeFails(j) ==
    /\ Go(j, "open", "drop") \/ Go(j, "fifreeze", "drop")
    /\ Disarm(j)
    /\ Keep(j, Returning(j))
    /\ UNCHANGED <<source, claim, frozen, spent, unheld, lvm, set, kills>>

\* A thaw lifts the freeze whoever made it.
Thaw(j) ==
    /\ frozen' = None
    /\ unheld' = IF frozen \in {None, j} THEN unheld ELSE unheld \cup {frozen}

\* thaw_helper: while the marker is there, read it and run fsfreeze -u.
DeadmanChecks(j) ==
    /\ deadman[j] = "armed" /\ age[j] >= Timeout + Grace
    /\ deadman' = [deadman EXCEPT ![j] = "checked"]
    /\ age' = [age EXCEPT ![j] = 0]
    /\ UNCHANGED <<source, claim, frozen, spent, unheld, lvm, set, kills, pc, job>>

\* It thaws what the path leads to now, and is done with its first success.
DeadmanThaws(j) ==
    /\ deadman[j] = "checked"
    /\ IF Named = "source" THEN frozen # None /\ Thaw(j) ELSE UNCHANGED <<frozen, unheld>>
    /\ deadman' = [deadman EXCEPT ![j] = IF Named = "source" /\ frozen = j THEN None ELSE "astray"]
    /\ UNCHANGED <<source, claim, age, spent, lvm, set, kills, pc, job>>

\* Thirty times nothing was frozen or fsfreeze failed: the helper gives up.
DeadmanFails(j) ==
    /\ deadman[j] = "checked"
    /\ deadman' = [deadman EXCEPT ![j] = "gave up"]
    /\ UNCHANGED <<source, claim, frozen, age, spent, unheld, lvm, set, kills, pc, job>>
------------------------------------------------------------------------------
(* Reading.                                                                 *)

\* SnapshotHealth::check of the provider.
Healthy(j) ==
    CASE job[j].provider = "lvm" -> j \notin overflow
      [] job[j].provider = "freeze" -> spent[j] <= Timeout
      [] OTHER -> TRUE

\* MUTANT: the last check does not measure.
FinallyHealthyAsSampled(j, measured) == Healthy(j)

\* SnapshotHealth::check_final: LVM measures again, if lvs answers and there is a
\* pool to measure.
FinallyHealthy(j, measured) ==
    Healthy(j) /\ (job[j].provider = "lvm" /\ measured => ~ NearlyFull(j))

\* What the block path shows, chunk by chunk; an invalid snapshot cannot be read.
Shown(j) ==
    IF job[j].provider = "lvm"
    THEN LET s == CHOOSE s \in Mine(j) : TRUE
         IN  [c \in DOMAIN s.data |-> IF Invalid(s) THEN Bad ELSE [is |-> "data", of |-> s.data[c]]]
    ELSE [c \in DOMAIN live |-> [is |-> "data", of |-> live[c]]]

(* used_extents, DirectBlockSource::open and UsedChunks. An unreadable      *)
(* snapshot or source fails; a read at this moment is the reference.        *)
Map(j) ==
    LET shown == Shown(j)
        now == [c \in DOMAIN shown |-> shown[c].of]
    IN  /\ Go(j, "map", "lock")
        /\ \A c \in DOMAIN shown : shown[c] # Bad
        /\ Keep(j, [job[j] EXCEPT !.was = now, !.size = Len(now),
                    !.used = {c \in DOMAIN now : now[c] # Free}])
        /\ UNCHANGED <<source, claim, freezing, lvm, set, kills>>

MapFails(j) == Fail(j, "map")

(* acquire_set_lock, after the snapshot was made, and the resolved plan: a  *)
(* new chain, or an incremental or differential member on the newest one.   *)
Lock(j) ==
    \E parent \in {0, Len(images)}, delta \in BOOLEAN :
        /\ setLock = None
        /\ parent = 0 => ~ delta
        /\ Go(j, "lock", "walk")
        /\ setLock' = j
        /\ Keep(j, [job[j] EXCEPT !.parent = parent, !.delta = delta])
        /\ UNCHANGED <<source, claim, freezing, lvm, images, kills>>

LockBusy(j) == pc[j] = "lock" /\ setLock # None /\ Fail(j, "lock")

\* The source must have as many chunks as the parent.
SameShape(j) == job[j].parent # 0 => images[job[j].parent].size = job[j].size

\* The parent's chain is opened, authenticated and found whole.
OpenWalk(j) ==
    /\ SameShape(j)
    /\ Go(j, "walk", "read")
    /\ UNCHANGED <<source, claim, freezing, lvm, set, kills, job>>

WalkRefused(j) == Fail(j, "walk")

\* Cursor::state_at: a member's word about a chunk, given its predecessors'.
StateAt(i, c, current) ==
    IF c \in DOMAIN images[i].entries THEN images[i].entries[c] ELSE current

\* ChainWalk::walk: the members from the full one on.
Resolve(i, c) ==
    IF i = 0 THEN Unused
    ELSE FoldLeft(LAMBDA state, k : StateAt(k, c, state), Unused,
                  [n \in 1 .. i - images[i].base + 1 |-> images[i].base + n - 1])

\* store_chunk up to the read: the health check, then the read itself.
Read(j) ==
    LET c == job[j].next
    IN  /\ Go(j, "read", "check")
        /\ c <= job[j].size /\ c \in job[j].used /\ Healthy(j)
        /\ Keep(j, [job[j] EXCEPT !.read =
               IF c \in badSectors \/ c \notin DOMAIN Shown(j) THEN Bad ELSE Shown(j)[c]])
        /\ UNCHANGED <<source, claim, freezing, lvm, set, kills>>

ReadUnhealthy(j) == ~ Healthy(j) /\ Fail(j, "read")

\* The entry of a chunk: unchanged ones are inherited, or copied into a full manifest.
Entry(j, c, state) ==
    LET parent == Resolve(job[j].parent, c)
        inherited == job[j].parent # 0 /\ state = parent /\ state # Bad
    IN  IF inherited /\ job[j].delta THEN <<>> ELSE c :> state

Next1(j, state) ==
    Keep(j, [job[j] EXCEPT !.entries = Entry(j, job[j].next, state) @@ @,
                           !.next = @ + 1, !.read = Unused])

\* A chunk outside the used extents: unused, whatever the parent held.
Skip(j) ==
    /\ Go(j, "read", "read")
    /\ job[j].next <= job[j].size /\ job[j].next \notin job[j].used
    /\ Next1(j, Unused)
    /\ UNCHANGED <<source, claim, freezing, lvm, set, kills>>

\* The rest of store_chunk: healthy still, zero, stored or recorded as bad.
Store(j) ==
    /\ Go(j, "check", "read")
    /\ job[j].read = Bad => job[j].opts.onBad = "record"
    /\ job[j].read # Bad => Healthy(j)
    /\ Next1(j, IF job[j].read = Bad THEN Bad
                ELSE IF job[j].read.of \in {Zero, Free} THEN Nought
                ELSE Stored(job[j].read.of))
    /\ UNCHANGED <<source, claim, freezing, lvm, set, kills>>

StoreFails(j) ==
    /\ pc[j] = "check"
    /\ IF job[j].read = Bad THEN job[j].opts.onBad = "abort" ELSE ~ Healthy(j)
    /\ Fail(j, "check")
------------------------------------------------------------------------------
(* The end of a job.                                                        *)

\* check_final_health; the snapshot goes before the manifest is written.
Accept(j) ==
    /\ Go(j, "read", "release")
    /\ job[j].next > job[j].size
    /\ \E measured \in {TRUE, job[j].provider # "lvm"} :
           /\ FinallyHealthy(j, measured)
           /\ Keep(j, [job[j] EXCEPT !.measured = measured])
    /\ UNCHANGED <<source, claim, freezing, lvm, set, kills>>

AcceptFails(j) ==
    /\ pc[j] = "read" /\ job[j].next > job[j].size /\ ~ FinallyHealthy(j, TRUE)
    /\ Fail(j, "read")

\* The guards: the claim is closed, the snapshot removed, the file system thawed,
\* by whomever it is frozen.  lvremove may fail; FITHAW may fail, as on a file
\* system that is not frozen, and leaves its work to the deadman.
Dropped(j) ==
    LET holds(provider) == job[j].guard /\ job[j].provider = provider IN
    /\ claim' = IF claim = j THEN None ELSE claim
    /\ lvs' \in {lvs} \cup (IF holds("lvm") THEN {lvs \ Mine(j)} ELSE {})
    /\ spent' = [spent EXCEPT ![j] = 0]
    /\ \/ UNCHANGED <<frozen, unheld, deadman, age>>
       \/ /\ holds("freeze") /\ Disarm(j)
          /\ IF job[j].dir = "source" THEN frozen # None /\ Thaw(j)
             ELSE UNCHANGED <<frozen, unheld>>

Release(j) ==
    /\ Go(j, "release", "publish")
    /\ Dropped(j)
    /\ Keep(j, [job[j] EXCEPT !.guard = FALSE, !.dir = None])
    /\ UNCHANGED <<source, overflow, set, kills>>

\* Manifest, extras, footer; publish_new and the catalog; the lock is dropped.
Publish(j) ==
    /\ Go(j, "publish", "done")
    /\ images' = Append(images, [provider |-> job[j].provider, entries |-> job[j].entries,
                                 base |-> IF job[j].parent = 0 THEN Len(images) + 1
                                          ELSE images[job[j].parent].base,
                                 size |-> job[j].size, was |-> job[j].was,
                                 bad |-> badSectors, held |-> j \notin unheld,
                                 measured |-> job[j].measured])
    /\ setLock' = None
    /\ Forget(j)
    /\ UNCHANGED <<source, claim, freezing, lvm, kills>>

PublishFails(j) == Fail(j, "publish")

Drop(j) ==
    /\ Go(j, "drop", "done")
    /\ Dropped(j)
    /\ setLock' = IF setLock = j THEN None ELSE setLock
    /\ Forget(j)
    /\ UNCHANGED <<source, overflow, images, kills>>

\* Killed: descriptors and the lock's flock go, freezes and snapshots stay.
Kill(j) ==
    /\ Alive(j) /\ kills < scene.kills
    /\ pc' = [pc EXCEPT ![j] = "dead"]
    /\ kills' = kills + 1
    /\ claim' = IF claim = j THEN None ELSE claim
    /\ setLock' = IF setLock = j THEN None ELSE setLock
    /\ spent' = [spent EXCEPT ![j] = 0]
    /\ Forget(j)
    /\ UNCHANGED <<source, frozen, deadman, age, unheld, lvm, images>>
------------------------------------------------------------------------------
(* The machine around the jobs.                                             *)

\* The mounted file system changes; a snapshot copies what it needs first.
Write ==
    /\ mount # "no" /\ frozen = None /\ writes < scene.changes
    /\ \E c \in DOMAIN live, v \in Contents :
           /\ v # live[c]
           /\ live' = [live EXCEPT ![c] = v]
           /\ lvs' = {[s EXCEPT !.copied = IF c \in DOMAIN s.data THEN @ \cup {c} ELSE @] : s \in lvs}
    /\ writes' = writes + 1
    /\ UNCHANGED <<scene, mount, claim, freezing, overflow, set, kills, pc, job>>

\* The volume grows.
Grow ==
    /\ volume = "dm" /\ claim = None /\ lvs = {} /\ Len(live) = scene.chunks
    /\ writes < scene.changes /\ writes' = writes + 1
    /\ live' = Append(live, Free)
    /\ UNCHANGED <<scene, mount, claim, freezing, lvm, set, kills, pc, job>>

Mount ==
    /\ mount = "no" /\ claim = None /\ writes < scene.changes
    /\ mount' \in {"here", "elsewhere"}
    /\ UNCHANGED <<scene, live, writes, claim, freezing, lvm, set, kills, pc, job>>

\* A directory that a job holds open keeps its file system mounted.
Umount ==
    /\ mount \in {"here", "elsewhere"} /\ frozen = None
    /\ \A j \in Jobs : job[j].dir # "source"
    /\ writes < scene.changes /\ writes' = writes + 1
    /\ mount' = "no"
    /\ UNCHANGED <<scene, live, claim, freezing, lvm, set, kills, pc, job>>

(* A tick. A due deadman may be late, but not for ever. Both ages stop at   *)
(* the last value that is told apart.                                       *)
Older(n, limit, counting) == IF counting /\ n < limit THEN n + 1 ELSE n
Tick ==
    /\ age' = [j \in Jobs |-> Older(age[j], Timeout + Grace, deadman[j] = "armed")]
    /\ spent' = [j \in Jobs |->
           Older(spent[j], Timeout + 1, job[j].guard /\ job[j].provider = "freeze")]
    /\ <<age, spent>>' # <<age, spent>>
    /\ UNCHANGED <<source, claim, frozen, deadman, unheld, lvm, set, kills, pc, job>>
------------------------------------------------------------------------------
Step(j) ==
    \/ Start(j) \/ Confirm(j) \/ Refused(j) \/ Claim(j) \/ ClaimBusy(j) \/ ReadLive(j)
    \/ Sweep(j) \/ LvCreate(j) \/ LvCreateFails(j) \/ Tag(j) \/ TagFails(j)
    \/ Arm(j) \/ ArmFails(j) \/ OpenDir(j) \/ Freeze(j) \/ FreezeFails(j)
    \/ Map(j) \/ MapFails(j) \/ Lock(j) \/ LockBusy(j) \/ OpenWalk(j) \/ WalkRefused(j)
    \/ Read(j) \/ ReadUnhealthy(j) \/ Skip(j) \/ Store(j) \/ StoreFails(j)
    \/ Accept(j) \/ AcceptFails(j) \/ Release(j) \/ Publish(j) \/ PublishFails(j) \/ Drop(j)

Deadman(j) == DeadmanChecks(j) \/ DeadmanThaws(j) \/ DeadmanFails(j)

Next ==
    \/ \E j \in Jobs : Step(j) \/ Deadman(j) \/ Monitor(j) \/ Kill(j)
    \/ Write \/ Grow \/ Mount \/ Umount \/ Tick

(* The deadman is a timer and a process of their own.                       *)
Fairness == WF_vars(Tick) /\ \A j \in Jobs : WF_vars(Deadman(j))

Spec == Init /\ [][Next]_vars /\ Fairness
------------------------------------------------------------------------------
Expected(image, c) ==
    CASE image.was[c] = Free -> Unused
      [] image.was[c] # Free /\ c \in image.bad -> Bad
      [] image.was[c] = Zero /\ c \notin image.bad -> Nought
      [] OTHER -> Stored(image.was[c])

(* Every published image that claims a consistency resolves, through its    *)
(* chain, to what the source held at one moment: used chunks with their     *)
(* content, holes as unused, and only sectors that really are bad as bad.   *)
(* So a snapshot that ran out of space, a freeze that timed out or a device *)
(* mounted meanwhile does not reach the set (store_chunk, check_final). It  *)
(* does in two cases the code does not guard against: an image of a freeze  *)
(* that did not hold (FIFREEZE took longer than the deadman's grace, the    *)
(* path led below an unmounted source, or another job's thaw lifted it),    *)
(* and, when lvs did not answer the last time, chunks of a full snapshot    *)
(* recorded as bad.                                                         *)
ImageIsOneMoment ==
    \A i \in DOMAIN images : images[i].provider # "live-none" /\ images[i].held =>
        \A c \in 1 .. images[i].size :
            \/ Resolve(i, c) = Expected(images[i], c)
            \/ ~ images[i].measured /\ Resolve(i, c) = Bad

(* The source does not stay frozen, even when the job is killed, its own    *)
(* thaw fails or FIFREEZE returns after the deadman's time: the deadman is  *)
(* armed before FIFREEZE and disarmed only after a thaw. Two exceptions: a  *)
(* helper all of whose thirty tries failed, and one that thawed another     *)
(* job's freeze, or the file system below, before its own job's was made.   *)
FrozenIsThawed ==
    \A j \in Jobs : frozen = j ~> frozen # j \/ deadman[j] \in {"astray", "gave up"}
=============================================================================
