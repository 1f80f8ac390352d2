# LinuxReflect: a TLA+ verification project

LinuxReflect is a backup program for Linux: it images block devices, file
systems and file trees into *backup sets* on local, mounted or SFTP
destinations, restores and exports them, and runs its jobs in a daemon. This
directory holds TLA+ models of its core, the TLC runs that check them and the
theorems TLAPS proves about them. Paths below are relative to the repository;
"R" and "D" numbers are those of `docs/remediation-plan.md` and
`docs/decisions.md`.

## 1. The system

### Components, state and operations

| Component (crate) | State it keeps | Operations | Modules |
|---|---|---|---|
| Set lock, local (`lr-store/local.rs`) | `set.lock`: inode, record, flock; the lease and its refresher thread | acquire, break stale, verify, refresh, release | `SetLock` |
| Set lock, SFTP (`sftp.rs`) | `set.lock` with a token; one session | the same, over requests | `RemoteLock` |
| Files of a local destination (`local.rs`, `lr-unsafe/beneath.rs`) | directories and names, in memory and on disk | make, create, flush, rename, list, read, delete | `LocalFiles` |
| Publication, SFTP (`publish.rs`, `sftp.rs`) | temporary, final and aside names on the server | sync, rename, reconcile, retry, remove | `Publish` |
| Destinations (`lib.rs`, `uri.rs`, `named.rs`, `mount_policy.rs`, `known_hosts.rs`) | named registry, required mounts, the session of each open destination | open, observe the mount, connect, repeat | `Destinations` |
| Catalog (`lr-engine/catalog.rs`) | `catalog.json`, a cache of the superblocks | scan, build, load, record, resolve parent | `BackupSet` |
| Backup jobs (`backup.rs`, `backup_plan.rs`) | the plan: chain, sequence number, parent | lock, plan, write, publish, record | `BackupSet`, `BlockBackup` |
| Retention (`retention.rs`) | the decision, the deletions still to do | select, verify, delete, write catalog | `BackupSet` |
| Verification (`verify.rs`, `capture.rs`, `observation.rs`) | `verified_unix` per member; private copies, the observation | read a chain, record the result | `BackupSet`, `Capture`, `Observation` |
| Verification history (`history.rs`) | a ledger of receipts | record, load, recover | `History` |
| Restore (`restore.rs`, `plan.rs`, `target.rs`) | token key, used tokens, claims | prepare, redeem, check, write | `Restore` |
| Image format (`lr-format`, nonces of `lr-crypto`) | the image file | write, seal, finish, open, read | `ImageFile` |
| File images (`file.rs`, `tree.rs`, `lr-fuse`) | manifests, hard links, holes | walk, read stably, restore, show | `FileBackup`, `FileTree` |
| Stream images (`stream.rs`, `lr-snapshot/btrfs.rs`) | retained snapshots, `latest` | snapshot, send, publish, commit, drop | `StreamBackup` |
| Snapshots and sources (`lr-snapshot`, `lr-blocksource`) | claims, LVs, frozen file systems, deadman | choose, freeze, read, monitor, clean up | `BlockBackup` |
| Whole disks (`whole_disk.rs`, `discovery.rs`, `disk.rs`) | partition table, regions | discover, image, restore, fit the table | `WholeDisk` |
| Exports (`lr-export`, `lr-fuse`) | servers, sockets, NBD devices, mounts | export, attach, serve, detach | `Exports`, `ExportRead`, `FileTree` |
| Schedules (`schedule.rs`) | config file, unit files, timers | set, remove; systemd's runs | `Schedule` |
| Job registry and bus (`lr-daemon/jobs.rs`) | entries by job id, broadcast channel, drain flag | register, finish, cancel, drain | `Jobs` |
| Daemon service (`service.rs`, `verification.rs`) | forwarders, permits, result budget, slots | start job, stream, cancel, hand out results | `Jobs`, `Service` |
| Shutdown (`main.rs`, `shutdown.rs`) | drain state, time asked of systemd | drain on signal | `Jobs`, `DrainWatch`, `Service` |
| Start (`main.rs`, `socket.rs`, `auth.rs`, `verification_policy.rs`) | socket, its directory, policy file | check, bind, give access | `Startup` |
| CLI, GUI, session, rescue | user interface | requests to the daemon or the engine | only `export mount` |

`PROJECT.json` lists the components with all their files, what is modelled of
each and what is not.

### How they interact

A request reaches the daemon over gRPC on a Unix socket (`service.rs`). The
handler authorises the caller, subscribes to the event bus, registers the job
under the entries lock of `Jobs`, and leaves a blocking worker and a forwarder
behind. The worker calls the engine. Every engine job that changes a set takes
that set's lock first, scans the superblocks again (the catalog is only a
cache), plans, makes its source readable through a snapshot provider, writes an
image file, and calls `SetLock::verify` before each publication or deletion.
Publication goes through the destination: one atomic rename locally, the
protocol of `publish.rs` over SFTP. CLI runs and systemd timers call the same
engine in other processes, perhaps on other hosts that share the destination:
the job registry protects one daemon, the set lock protects the set.

The layers are:

    Startup, Service, Jobs, DrainWatch, Exports       the daemon
    Schedule                                          what systemd starts
    BackupSet, Capture + Observation, History,        jobs on a set
      Restore
    BlockBackup, StreamBackup, FileBackup,            what a job reads and
      FileTree, WholeDisk, ImageFile, ExportRead      what an image holds
    SetLock, RemoteLock (both implement SetMutex),    destinations
      Publish, LocalFiles, Destinations

`BackupSet` uses a mutex and atomic publication; `SetMutex`, with the two locks
that implement it, `Publish` and `LocalFiles` say what a destination makes of
them.
`History` stores what `Capture` leaves behind: `AttemptIsRecordable` is the
seam, the recorder's output checked against the ledger's own rules. `Service`
and `Jobs` are two views of one registry: `Jobs` has the streams and events,
`Service` the handlers and the resources they hold.

### What is hard, and what makes each part correct

* **Locks.** Several processes and hosts, each step a system call or a request;
  files replaced behind an open descriptor, inode numbers reused, answers lost,
  processes paused past their lease or killed between create and write. Correct
  when two jobs never own the set, a change happens only while the lock is
  owned, a fenced holder stays fenced, and a dead holder does not lock the set
  for ever.
* **Destinations.** A share that is unmounted, covered or replaced between two
  looks at it; a session that died; requests with lost replies that the server
  may run later. Correct when a guarded operation happens on the share only, no
  session is with an unknown server, an image is never replaced, success is
  reported only for one's own file, nothing unflushed gets a final name, a
  catalog is never lost, and no symlink leads an operation out of the
  destination.
* **Set.** Two jobs that plan on the same parent, damaged members, equal time
  stamps, interruption between deletions, verification results that are stale
  when they are recorded. Correct when publishing only adds recovery points and
  retention deletes only what enough good chains replace.
* **Verification and its ledger.** Files that change between sizing, copying and
  checking; kills and power failures between write, link, unlink and flush.
  Correct when success is about the bytes that were digested, and a receipt
  reported as recorded is there for good.
* **Restore.** A plan that is stale when it is applied: another device under
  the path, a replaced chain member, a token used twice or too late. Correct
  when only the agreed image is written to the agreed target, and success means
  all of it.
* **Sources.** A source that changes while it is read, a snapshot that runs
  full, a freeze that outlives its job or is lifted under it. Correct when an
  image that claims a consistency is one moment of the source and nothing stays
  frozen; section 5 lists the cases where the code falls short of that.
* **Daemon.** Job ids that are used again, streams that lag, permits that leak,
  a request that races the stop signal. Correct when one job runs per set,
  results reach the call they belong to, and a stop is complete and ends.

`hazards` in `PROJECT.json` has them one by one, each at its line, with the
properties about it; what no property covers is listed in section 5.

## 2. Modules

| Module | Models |
|---|---|
| `SetMutex` | what jobs rely on: a mutex whose dead owner's claim can be removed |
| `SetLock` | `LocalDestination::acquire`, `Lease`, `LeaseGuard` |
| `SetLockProofs` | theorems about `SetLock`, and that it implements `SetMutex` |
| `RemoteLock` | `acquire_lock`, `RemoteLease`, `RemoteLeaseGuard` |
| `RemoteLockProofs` | theorems about `RemoteLock`, and that it implements `SetMutex` |
| `Publish` | `publish_new_with`, `replace_with`, `renamed_with` over SFTP |
| `LocalFiles` | `publish_new`, `replace`, `list`, `open_ro`, `delete` of a local destination |
| `Destinations` | opening a destination, required mounts, host keys, sessions |
| `DestinationProofs` | theorems about `Publish`, `LocalFiles` and `Destinations` |
| `BackupSet` | backup, retention, verification record and catalog rebuild on one set |
| `Schedule` | `schedule set`, `schedule remove`, the units and what systemd runs |
| `BackupSetProofs` | theorems about `BackupSet` and `Schedule` |
| `Observation` | what a captured verification records and what a receipt must satisfy (no state) |
| `Capture` | a captured verification |
| `History` | the ledger of receipts |
| `HistoryProofs` | theorems about `History` and `Capture` |
| `Restore`, `RestoreProofs` | tokens and the four kinds of restore; theorems |
| `ImageFile` | writer and reader of one `.lrimg` file |
| `FileBackup`, `FileTree` | file mode: the backup; the restored tree and the FUSE view |
| `StreamBackup` | Btrfs streams and the snapshots they need |
| `BlockBackup` | snapshot providers, the read loop, block manifests |
| `WholeDisk` | disks with their partition tables |
| `Exports`, `ExportRead` | export sessions; one NBD connection |
| `Jobs` | job registry, event bus, streams, drain |
| `Service`, `ServiceProofs` | request handlers and the resources they share; theorems |
| `DrainWatch` | the time a stopping daemon asks of systemd |
| `Startup` | policy, authorisation and socket when the daemon starts |
| `DaemonProofs` | theorems about `Jobs`, `Startup` and `DrainWatch` |
| `MC_*` | instances for TLC |

Definitions called "Mutant" or "Mutation" in their comment are plausible bugs of
the definition that follows them. No specification uses them; they show that
each property depends on the code it is about.

### SetLock and RemoteLock

One action is one system call or request of one process. In `SetLock`, `path`
is the inode `set.lock` names, `fd`/`flocked` what a process holds open and has
flocked, `rec` the age of the record in an inode or `Unreadable` (empty or
torn). The control points of a process follow `acquire`:

    idle -Start-> create -Create-> flock -FlockNew-> write -WriteRecord-> held
                  create -CreateExists-> read -ReadLock-> judge
                  judge -JudgeStale-> open -OpenStale-> try -TryStale-> unlink
                  unlink -UnlinkStale-> create
    held -VerifyOk-> verified -Mutate-> held -Release-> stopping
    stopping -Join-> dropcheck -DropOurs-> dropunlink -DropUnlink-> idle

with an error exit at each. The refresher thread is `thr`: it sleeps, samples
the clock and checks the file (`RefreshCheck`), truncates, writes. `Crash`
closes a process's descriptors and leaves the file. Time is kept as ages, so
that the state space is finite without a bound on the clock; ages stop at
`TTL + 1`, where every comparison of the code has the same outcome.

flock is seen only among processes of one host (`HostOf`), which is the weakest
behaviour of a shared mount. `Attended` is the operator guide's rule for
`--break-stale-lock` (confirm that no writer is left): a breaking run starts
only when no other process runs, and none starts during it.

`RemoteLock` has the same life without flock: the token in the file says whose
lock it is. A session may end at any time (`Disconnect`), and the actions named
`...Unanswered` are requests the server ran whose answer was lost. The lease
keeps the session it was taken with; a refresh reads, opens and rewrites the
record in three requests. `stamp` is the time a process read before it began to
write its record, as `created` is, so that a slow write leaves a record that is
already old. `fenced` is a history variable: a verification found the lease lost
or the record not the holder's. One that only found the lease expired is not final.

### Publish, LocalFiles, Destinations

In `Publish` the server is a map from names to contents; a request is run at
once, later (`late`) or never. A job is at `sync`, `rename`, the two stats of
the reconciliation, and, for a server without posix-rename, the move of the old
catalog aside (`leg`). All contents have the size the protocol expects, the
hardest case for a reconciliation that only compares sizes. What the server
offers (posix-rename, fsync) is chosen initially and kept.

`LocalFiles` has the directories below a destination root twice: as system calls
see them (`inCore`) and as a power loss leaves them (`onDisk`, and `kept` for
the directories' own entries). `place` is what the set directory's name leads
to: a directory, a symlink planted by somebody who may write there, or nothing.
A worker opens the directory that holds a name anew for each name it needs
(`Finding`), and works on the descriptor it pinned (`tmpDir`, `finDir`). The
kernel writes back when it wants to (`WriteBack`); `exclusive` says whether the
file system knows RENAME_NOREPLACE.

`Destinations` opens one destination at a time (`Open`), runs operations on it
(`BeginOp`) and closes it. Local: the mount table is a sequence of mounts that
come, go and cover each other, and one name may be a symlink that is turned; a
check resolves both paths, opens the nearest existing directory of each, takes its
mount ID, reads the table and compares; an ID is given to a new mount only when
the old one is gone and no descriptor pins it. Remote: an `SftpDestination` has a
session of its own. Opening it connects once; an operation then finds the session,
finds it dead, or connects again within the attempts of `run_with`, and ends at
once when the server denies it (`SendDenied`). Authentication has the order of the
code, and `known_hosts` is a sequence of lines.

### BackupSet and Schedule

Images are numbered by publication; `sb` holds their superblocks, `files` those
that still exist, `damage` what is wrong with a file (payload, footer or
superblock), `catalog` the cache. Every job takes the mutex `lock` and works as
in the code: a backup plans on a scan, publishes and records; retention decides
(`Select`), deletes one file at a time in the code's order (`Delete`) and writes
the catalog last (`Finish`); a verification reads without the lock and records
under it. `Abort` is an error, cancellation or kill at any point. `Transient`
lets a scan miss members whose read fails for a moment. Chain ids are random in
the code and break ties between equal seconds; `ChainId` gives their order.
`earned` is a history variable: the images some verification has read in full.

`Schedule` has the config file, the unit files, the units as systemd has loaded
them and the timers. A `schedule set` or `remove` works off a plan, the set of
unit files to write or to remove, one file or systemctl call an action, and may
fail at each: a file whose write failed is cut short (`Cut`), `enable` may have
reached some of the timers only, and `disable --now`, whose result the code
ignores, stops any part of them. A timer that elapses queues its service, which
waits for the one it is ordered after; `ExecStart` runs the lines of a unit one
by one, and a failing line ends the run. `alone` marks the calls that no other
call overlapped.

### Capture, Observation, History

`Capture` is `verify_image_captured`: resolve the chain, size it (`raw`), check space,
copy each member block by block into private files, check that headers and
lengths are still those resolved, then verify the copies. The environment
rewrites, truncates, extends, damages or deletes members meanwhile and the job may
be cancelled. A block knows the version of its file and whether it is intact.
The content phase is a list of tasks (`work`), each the sequence of recorder
calls and payload reads one checker makes for its kind of image.
`Observation` holds the recorder's functions and the ledger's `validate_attempt`
as pure operators: both sides of the seam come from different files of the code.

`History` is the ledger's directory as two sets of entries, what processes see
and what survives a power failure, with the content and flush state of each
inode. A recorder locks, scans and counts, creates, writes, flushes, links,
unlinks and flushes the directory; `Kill` and `Crash` come between any two.
Receipt ids are random in the code and come here from two, so that they collide.

### Restore

`Prepare` issues a token that binds members, target facts, user and expiry;
`Begin` presents one. The steps then follow `apply_restore`: open the image,
claim the device, compare facts, admit, redeem (prune and record the use),
verify identities and payloads, look at the target again, open, and write chunk
by chunk. Kinds differ as in the code: a file restore pins a directory, a
stream restore makes a file system, a disk has one member. Reads, writes, syncs,
mkfs, mount and btrfs receive may fail (`MakeFilesystemFails`,
`MakeFilesystemBreaks`, `WriteChunkFails`, `TargetFails`); the state "failed" is
that of a restore its image let down, "broken" that of one its target did. The
mount of a stream restore is dropped without a look at the result (`DropMount`), so
that its target never counts as flushed. Others replace and damage members,
point the path elsewhere, mount, and fill directories; the clock advances
between any two readings.

### ImageFile, FileBackup, FileTree, StreamBackup

`ImageFile` is the file as a sequence of items: superblock, chunk records,
sealed metadata pages, footer. A sealed record keeps key, nonce and associated
data, and opens with these only; an image that is not encrypted has a page key
and no MAC key. Faults cut the file (`Stop`), scramble an item,
exchange two, or undo the superblock's rewrite; the reader's functions are run
on whatever is left.

`FileBackup` walks a tree whose files are rewritten and renamed over while they
are read: snapshot (taken before the set's lock, `waiting`), stat, reuse of the
reference's entry, open, holes, chunks, second stat, retry. `FileTree` decodes a
manifest and turns it into a restored tree (entries first, metadata after) or the
nodes of the FUSE view, into targets that hold symbolic links, files and
directories in the way. The system may refuse to make an entry or to set any
part of its metadata; what `apply_metadata` reports of that is `losses`, what
becomes a warning `warned`, and `strict` is --strict-metadata.

`StreamBackup` has the snapshots, the state directory with `latest` and its
lock, and two programs that send to destinations of one name; a program may be
killed anywhere, a commit may fail before or after `latest` is cut, pruning may
leave any of the snapshots, and images may be lost.

### BlockBackup and WholeDisk

`BlockBackup` chooses a provider (offline claim, LVM, freeze with deadman, live
read) from what the source is, reads chunk by chunk with health checks, and
publishes full, incremental and differential manifests. The environment writes,
grows, mounts and unmounts the source; a job may be killed; the deadman runs on
ticks. FIFREEZE takes any number of ticks and acts on whatever the mountpoint led
to when it was opened; a thaw lifts the file system's freeze, whose it may be; the
helper's tries may all fail; lvs may not answer and a snapshot may be left
untagged. `unheld` has the jobs whose freeze did not hold as long as they took
it to.

`WholeDisk` is sequential: discover the table, cut the disk into regions, read,
restore to a target of another size, and fit the GPT. Chunks are written one by
one; a read, write or sync may fail and a failed write may be torn. The table is
checked (`FitTable`) and then written in three writes (`TableWrites`): the copy of
the array, the backup header, the primary header.

### Exports and ExportRead

Tasks of the daemon run side by side and share one socket path, callers of the
command line have their own; a caller's steps are the commands it runs (bind, find
a device, attach, mount, save state, and back). Every one of them may fail, and a
clean-up whose result the code ignores may do nothing. An unexport works on what
the state file says, whoever has the mountpoint or device by then. `crossed` is
a history variable: the servers of exports that met another call in the two ways
`MountShowsItsImage` names. `ExportRead` is one connection: handshake, options, and
reads that cross chunks through a cache of one.

### Jobs, Service, DrainWatch, Startup

In `Jobs` a call has a handler and forwarder (`at`), a worker, a bounded
subscriber queue (`queue`, `lagged`). `state` and `runs` are the registry's
entries by job id: what the entry says and which call's run it stands for. `bus`
is a history variable, the last event sent for each id. `Captured` calls are
those served by `run_verification_job`, which draws a fresh id and recovers from
a lag through the stored result; the others are served by `run_job`, which ends
the stream.

`Service` follows each request through its awaits: authorise, take a permit,
reserve a result, register, wait for a slot, work, end; and the process through
drain, end of serving and exit. `DrainWatch` counts time in ticks of 30 s: jobs
report or hang, the watch reads the events one by one (`Receive`) and polls when
none is left (`Poll`), systemd kills when its time is over. `Startup`
is two daemons started on one socket path, each step a system call, while the
policy file is edited. The chmod of the socket's directory may fail without
anybody noticing (`unclosed`).

## 3. Runs

An MC module puts together the machines that answer one kind of question. Its
variable `on` says which of them runs in a behaviour and never changes; the
others keep an empty or an initial state, so that the state space is the sum of
the machines' and not their product. Most properties are those of the component
modules themselves, the ones the proofs are about; where a component is an
instance, the MC module's property names the component properties it stands for
(`StopSparesTheAdvancing` is one). All runs use two TLC workers and end within
five minutes.

| Run | Machines and instance | Shows |
|---|---|---|
| `lock_attended` | `SetLock`: 2 processes on 2 hosts, 2 inodes, 2 crashes, locks broken as the guide says; `RemoteLock`: attended with 2 faults, and broken at any time with records that expire at once (`TTL = 0`) and 1 fault | `MutualExclusion`, `MutateWhileOwning`, `ImplementsMutex`; with fairness `AbandonedIsBroken`; `RemoteLockHolds` (it implements `SetMutex`, and fences for good) |
| `destinations` | `SetLock` with 2 breakers of one host at any time; `Destinations`: a local one with 3 mounts and a link, and an SFTP one, opened by URI or by name, with every login and 5 `known_hosts` files; `LocalFiles` with 2 workers, 2 directories, 1 power loss, 1 swap; `Publish` with 2 jobs on one name and with a catalog | `FencedForGood`, `NobodyElseRefreshes`, `DestinationIsTheOneMeant`, `FilesAreSafe`, `PublishedStays`, `OkMeansMine`, `PublicationEnds` |
| `set` | `BackupSet`: 2 jobs of any kind, 3 images, 1 damaged file, together within one second, or one after another over 2 seconds; `Schedule`: 2 calls, 3 configs, 1 edit, writes and systemctl calls that fail | `PublishAddsARecoveryPoint`, `ChainsAreBounded`, `MarksWereEarned`, `DeletionIsAuthorised`, `RetentionKeeps`, `SchedulesHold` |
| `jobs` | `Jobs`: 3 calls, 2 ids, 2 sets, a bus of one event; `Startup`: 2 daemons; `Capture`: chains of 2, 1 change; `History`: 2 processes, 3 attempts, 1 crash; `Restore`: 2 programs, 2 users, 2 targets, 1 token, 1 event | `OneJobPerSet`, `DrainIsComplete`, `RunsDoNotOverlap`, `StartIsGuarded`, `AttemptIsRecordable`, `VerifiedIsWhatWasCaptured`, `LedgerIsTrue`, `OnlyTheAgreedIsWritten`, `RestoreIsWholeOrRefused` |
| `daemon` | `Jobs`: a plain and a captured call; `Service`: 3 mixes of 4 requests; `DrainWatch`: 2 jobs; `Exports`: a command line and a daemon call, or two daemon calls at once, 2 devices | `CapturedResultArrives`, `ResourcesAreAccounted`, `VerificationsEnd`, `StopSparesTheAdvancing`, `MountShowsItsImage` |
| `disks` | `BlockBackup`: 2 jobs, 2 chunks, up to 2 writes, 1 kill, 7 sources; `WholeDisk`: 784 disks, 5 target sizes | `ImageIsOneMoment`, `SourceIsReleased`, `DiskComesBack` |
| `images` | `ImageFile`: 2 chunks, 1 fault; `StreamBackup`: 2 programs, 2 destinations, 3 images; `FileBackup`: 2 names, 2 changes, 2 images; `FileTree`: 8 manifests, 6 targets, 1 kind of refused metadata; `ExportRead`: 27 images of 5 bytes | `ReadsWhatWasWritten`, `StreamsReplay`, `FilesAreWhole`, `RestoredIsRecorded` |
| `lock_live_holder` (violation) | `SetLock`: 2 breakers of one host | a live holder can lose its lock |
| `lock_killed_writer` (violation) | the same | a killed holder can leave a lock nobody can break |
| `set_transient_read` (violation) | `BackupSet`: 1 job, reads may fail | a backup can make an earlier member unrestorable |
| `jobs_reused_id` (violation) | `Jobs`: 2 plain calls with one id | a stream can report an earlier run's end |
| `token_reuse` (violation) | `Restore`, as in `jobs` | a used token can be admitted again when it expires meanwhile |

### Bounds

* **Locks.** Two processes are enough: each property relates a holder and one
  intruder; the theorems about `SetLock` cover any number. Two inodes make reuse
  happen, because the third file ever created has a used number; the server of
  `RemoteLock` has three, one more than the names that can be open. `TTL = 1`
  gives fresh, at-limit and expired records; with `TTL = 0` and one fault a record
  is breakable from the next tick on, and a holder is broken at every point of its
  run. Two crashes or lost sessions let a
  breaker fail as well as the holder.
* **Destinations.** Attempts are 3 for RETRY_ATTEMPTS = 5: first, middle and
  last; no step looks at the count otherwise. Three mounts are the share, one
  that covers it and one that gets its number. Of the local files two workers
  meet on one name, the first of them publishing (`Pairs`); the second directory
  is the one made where the first was moved away. The theorems cover any number
  of workers, directories, mounts, attempts and lines of `known_hosts`.
* **Set.** Three images are the fewest with a chain that is kept, one that is
  deleted and an incremental between. Two clock values give older, equal and
  newer chains. One damaged file separates a good chain from a bad one. Jobs
  overlap while the clock stands still, where every chain ties, and follow each
  other while it moves: the time of a chain is read once, under the lock. Two
  schedule calls can overlap, one edit comes between them; the theorem covers any
  configs, calls and edits.
* **Verification, ledger, restore.** A chain of two has a parent and a target,
  two blocks have metadata and payload. Three attempts fill a ledger of two. The
  theorems about `Capture` and `History` cover chains, ledgers, recorders and
  failures of any number.
  One change by others is placed at every point of the other program's run; the
  theorems about `Restore` cover any number of changes, and were stated after
  TLC had checked their invariant with two (a file restore is led astray only by
  a path that changes twice). A
  token of life 0 with a clock of two values expires between any two readings.
  In `jobs` only block images are flagged inconsistent or bad, to keep the run
  short: for the other kinds the flags only add a refusal before the first
  write. The instance of `token_reuse` has every kind with every flag.
* **Daemon.** The bus holds 1024 events; with 1 or 2 a lag happens within a few
  steps. One result, one slot and two permits are exhausted by two requests. A
  stall of 2 ticks and an extension of 4 keep their order (5 and 10 minutes); the
  theorems about `DrainWatch` and `Startup` cover any limits, jobs and daemons.
  Two devices let one export take what another gave up; the daemon's calls share
  one socket path, and every clean-up may fail.
* **Data.** Two chunks of two values; a source that grows by one; page tables
  that overflow their inline slot; files of two blocks, one of them a hole.
  Disks of 9 and 11 blocks with whole and damaged headers, partitions out of
  order, logical and empty ones, and some whose first partition or table array
  lies beyond the leading blocks that are imaged (`MaxLeading` = 4 blocks for
  16 MiB); targets smaller, equal and larger. A freeze's timeout and the deadman's
  grace are one tick each, and FIFREEZE may last longer than either. Of the
  metadata of a restored tree at most one kind is refused by the target, since
  each is applied and reported by itself.
* Deadlock checking is off where everything may be over: all publications
  ended, all calls answered, all bounds reached.
* Symmetry is used only in runs without liveness, over values that no property
  and no instance tells apart.

### Fairness

* `SetLock` (in `lock_attended`): time passes; a process inside `acquire` is scheduled
  (a local system call returns); the operator, or a timer, tries again with
  `--break-stale-lock` whenever the guide's rule lets it (strong fairness: it is
  enabled again and again). Holders get none: they may be paused for ever.
* `Publish` (in `destinations`): the client's thread goes on, since every
  request has a timeout. The server gets none.
* `Jobs` (in `daemon`): a registered handler starts its threads, a worker ends
  (that is the engine's promise, assumed here), the drain loop polls, and a
  captured verification's client reads. Plain clients may stall.
* `Service`: handlers and blocking tasks go on. Answers of polkit, the signal
  and the end of the process get none.
* `DrainWatch`: time passes, the daemon reads events, polls and exits, systemd
  kills. Jobs get none: they may hang in I/O for good.
* `Exports`: commands return, a server thread binds or fails and sees its stop
  flag between connections. New exports get none.
* `BlockBackup`: time passes and the deadman is a timer unit of its own. The job
  gets none: it may hang, also in FIFREEZE, or be killed.

## 4. Proofs

TLAPS proves the following for all values of the constants, bounds included,
under the assumptions the modules name. These say that markers such as "no
file" or "nobody" are not also processes, jobs or inodes (`InodeAssumption`,
`PublishAssumption`, `SetAssumption`, `CallAssumption`, `NoCallAssumption`,
`FilesAssumption`, `RestoreAssumption`, `HistoryAssumption`,
`StartupAssumption`), that limits are natural numbers or positive
(`ConstAssumption`, `CapacityAssumption`, `ServiceAssumption`,
`HistoryAssumption`, `CaptureAssumption`, `WatchAssumption`), that the calls of
`Service` are finitely many, that chain ids differ (`SetAssumption`), that a
restored chunk comes from a member of the chain (`RestoreAssumption`), that
there is a receipt id to draw (`HistoryAssumption`), that a request is tried
more than once and paths are sequences of names (`DestinationsAssumption`), that
an extension asked of systemd is longer than one tick (`WatchAssumption`), and
that a schedule config is a list of jobs with known names
(`ScheduleAssumption`). `CaptureAssumption`, `WatchAssumption`,
`ScheduleAssumption` and `Sound` of `RemoteLockProofs` are hypotheses of their
theorems, the others `ASSUME`s; TLC evaluates all but `Sound` on the runs' values.

| Theorem | States |
|---|---|
| `SetLockProofs!TypeCorrect` | `Spec => []TypeOK` |
| `SetLockProofs!FencingIsFinal` | `Spec => FencedForGood` |
| `SetLockProofs!RefreshStaysInItsInode` | `Spec => NobodyElseRefreshes` |
| `SetLockProofs!Exclusion` | `Disciplined => (Spec => []MutualExclusion)` |
| `SetLockProofs!WritersOwnTheSet` | `Disciplined => (Spec => MutateWhileOwning)` |
| `SetLockProofs!HolderKeepsLock` | `Disciplined => (Spec => LiveHolderKeepsLock)` |
| `SetLockProofs!LockFileIsAMutex` | `Disciplined => (Spec => ImplementsMutex)` |
| `RemoteLockProofs!RemoteFencingIsFinal` | `Sound => (Spec => []FencedStaysFenced)` |
| `RemoteLockProofs!RemoteLockIsAMutex` | `Sound /\ Attended => (Spec => Mutex!Spec)` |
| `DestinationProofs!PublishInvariant` | `PublishSpec => []PublishInv` |
| `DestinationProofs!PublicationIsSafe` | `PublishSpec => PublishedStays` |
| `DestinationProofs!SuccessIsMine` | `PublishSpec => OkMeansMine` |
| `DestinationProofs!FilesInvariant` | `FilesSpec => []FilesInv` |
| `DestinationProofs!LocalFilesAreSafe` | `FilesSpec => []FilesAreSafe` |
| `DestinationProofs!DestInvariance` | `DestSpec => []DestInvariant` |
| `DestinationProofs!DestinationMeant` | `DestSpec => []DestinationIsTheOneMeant` |
| `BackupSetProofs!SetInvariant` | `Spec => []SetInv` |
| `BackupSetProofs!MarksAreEarned` | `~Transient`: `Spec => []MarksWereEarned` |
| `BackupSetProofs!ChainsStayBounded` | `~Transient`: `Spec => []ChainsAreBounded` |
| `BackupSetProofs!PublishAdds` | `~Transient`: `Spec => PublishAddsARecoveryPoint` |
| `BackupSetProofs!DeletionAuthorised` | `Spec => DeletionIsAuthorised` |
| `BackupSetProofs!RetentionSafe` | `Spec => RetentionKeeps` |
| `BackupSetProofs!ScheduleInvariance` | `ScheduleSpec => []ScheduleInvariant` |
| `BackupSetProofs!SchedulesAreKept` | `ScheduleSpec => []SchedulesHold` |
| `HistoryProofs!LedgerInvariance` | `HistorySpec => []LedgerInvariant` |
| `HistoryProofs!OneRecorderAtATime` | two recorders are never both past the lock |
| `HistoryProofs!LedgerTrue` | `HistorySpec => LedgerIsTrue` |
| `HistoryProofs!CaptureInvariance` | `CaptureSpec => []CaptureInvariant` |
| `HistoryProofs!VerifiedMeansCaptured` | `CaptureSpec => []VerifiedIsWhatWasCaptured` |
| `HistoryProofs!RecordInvariance` | `CaptureSpec => []RecordInvariant` |
| `HistoryProofs!AttemptsAreRecordable` | `CaptureSpec => []AttemptIsRecordable` |
| `RestoreProofs!RestoreInvariant` | `RestoreSpec => []RestoreInv` |
| `RestoreProofs!OnlyTheAgreed` | `RestoreSpec => []OnlyTheAgreedIsWritten` |
| `RestoreProofs!WholeOrRefused` | `RestoreSpec => RestoreIsWholeOrRefused` |
| `DaemonProofs!OneRunPerSet` | `Spec => []OneJobPerSet` |
| `DaemonProofs!DrainLeavesNothing` | `Spec => []DrainIsComplete` |
| `DaemonProofs!RunsFollowOneAnother` | `Spec => RunsDoNotOverlap` |
| `DaemonProofs!CapturedStreamsAreTheirOwn` | `Spec => []CapturedReportTheirRun` |
| `DaemonProofs!StartupInvariance` | `StartupSpec => []StartupInvariant` |
| `DaemonProofs!StartGuarded` | `StartupSpec => []StartIsGuarded` |
| `DaemonProofs!WatchInvariance` | `WatchSpec => []WatchInvariant` |
| `DaemonProofs!AdvancingIsSpared` | `WatchSpec => []AdvancingIsNotKilled` |
| `ServiceProofs!ServiceInvariant` | `Spec => []ServiceInv` |
| `ServiceProofs!NothingIsLostOrShared` | `Spec => []ResourcesAreAccounted` |

`Disciplined` is `Attended \/ Breakers = {}`: locks are broken as the guide
says, or not at all. Without it the last four SetLock statements are false
(`lock_live_holder` refutes `LiveHolderKeepsLock` itself). `Sound` says of
`RemoteLock`'s constants what the assumptions say elsewhere. `~Transient`: no superblock read fails for a moment;
without it the three statements are false (`set_transient_read`), the two about
deletion are not.

**The lock.** `FilesInv` says that exactly the processes in the right control
states have a file open, that two processes that *made* their file have
different inodes open, and that a refresher writes only for a holder. The
second part is what inode reuse threatens: it is inductive because a new file
never gets the number of an inode that is open. `FencingIsFinal` and
`RefreshStaysInItsInode` need no more. `OwnerInv` adds that a breaking process
is alone, that only breaking processes are at the breaking control points, and
that whoever made a file and has not let go of it still finds it at `set.lock`.
Mutual exclusion follows, since two makers would have the same inode. Neither
part is inductive alone: ownership is preserved by unlinking because the
breaker is alone, and by creation because the files are distinct. The
refinement maps `taken` to "`set.lock` exists" and `owner` to the processes
that have made a file and not finished releasing it (so that a lock broken under
a live owner is not a step of the mutex); every action is then a take, release,
death, break or stutter of `SetMutex`.

**The remote lock.** Fencing needs no discipline. `FenceInv` says what makes it
last: a fenced holder's lease is marked lost, or its refresher is not between
the read and the write of a refresh and the record at the path is another's, so
that nothing it still does writes its token back. The mutex needs
`BreakersAlone` and `FilesInHand`: a process that may remove a lock runs alone,
and a file that was made is in its maker's hands until its record is written or
the connection is lost.

**Publication.** `SuccessIsMine` is about a reconciliation that only sees sizes,
first of the source, then of the target, while abandoned requests may still run.
`Requests` lists the requests that can be outstanding, `Mine` says that a
temporary file leaves its name only to become the final one: the absence of the
source is evidence of one's own success. `Copy` follows the old catalog while it
is moved aside, `Flushed` keeps unflushed content from the final name.

**Local files.** `FilesInv` follows a file through its publication: written,
flushed, and only then renamed (`FlushedFirst`); under no published name before
(`NotYet`), under its own until deleted or replaced (`StaysThere`), in memory as
on disk; every worker's directories exist below the root (`DirsInHand`), so that
a planted symlink gets nothing.

**Destinations.** A mount check compares numbers it looks up one after the other,
while mounts come, go and take numbers that became free. `TableOK` keeps the
numbers of the table apart, `PinsHeld` says which of them the operation's
descriptors pin, `Observed` that a mount with the number that was seen is
therefore the one that was seen; what is judged the share is the share. A
cardinality argument shows that the kernel always has a number to give. For the
sessions `SessionIsItsOwn` says that a session belongs to the destination that is
open, and that it skips the host key only on the word of a caller that wrote the
server's URI itself: a named destination resolves to one that does not. With it
`KeyIsKnown` is inductive. `SteadyCall` says what the retries may have used up: an
operation during which the server answered and granted what it was asked has lost
at most the attempt on the dead session it found.

**The set.** Every property is about a decision that one step takes and later
ones carry out. `Fits`, `Justified` and `Earned` say what the decision still
stands on: a plan goes behind the last readable member, what a retention run
keeps justifies each file it has left to delete, a verification has read what it
will mark. `LockHeld` makes sure nobody else publishes or deletes meanwhile;
damage may come at any time, which is why `Justified` speaks of the catalog the
run decided on.

**Schedules.** A call writes or removes the files of a plan. `IsPlan` says that every
file of a plan is sound (in a service file the retention line follows a backup of
each source) and that no file is named twice, since the jobs of a config have
different names. `UnitsAreSound` says the same of every service file wherever it
is, in the directory or in systemd's memory, also of one that a failed write cut
short. `AloneIsAlone` says that
while the latest call counts as alone all other callers rest; `EffectSoFar` then
says of it that each planned file is written or still to be written, and loaded by
the time it is enabled, and for a removal that each file of the job is gone or
still to be deleted. It does not say that the timers are off: the code ignores
whether `disable --now` worked, and what a removal achieves is that systemd has
no file of the job loaded. When the call ends well, nothing is still to be done.

**The ledger.** Receipts are counted before one is added, names are what is
counted, and a publication has for a moment two names for one inode.
`NamesFollowStep` says which names an attempt has at each step of its recorder,
`LockIsExclusive` that one recorder at most is past the lock, `AttemptsAreApart`
that recorders work on different attempts. The quotas are inductive about
*inodes* (`RoomIsLeft`), of which at most one has two names
(`OneHalfPublication`). `FinalsAreWhole` says that a final name leads to a whole,
flushed receipt; the directory as flushed last is a part of the current one, so
that a power failure takes no confirmed receipt; `OutcomesAreTrue` ties what the
caller was told to these names.

**Captures.** What a success says is about private copies, so the invariant says of
each stage what it has established of them: digests of the blocks copied
(`DigestsOK`), identities of one chain (`NamesOK`), structure checked
(`StructureChecked`), every payload in scope found sound or still to be read
(`WorkOK`). That no plan of the content phase leaves a member of its scope out is
a lemma about each checker; the owners of the payloads are listed by a rank, and
that the list misses none is an injection argument. `RecordInvariant` is about
the other side of the seam, what the recorder is told. `RecorderFollows` says of
each member what was done with it, field by field and no more; `AncestryOK` that
the names were compared; `PlanFollowed` that the calls left touch only fields
the coverage asks for and that the *last* call about each of them completes it
(`WillSettle`), since a checker begins and completes fields many times over. At
the end nothing is left to do, so every field asked for is complete, the others
were never touched, and `TablesAgree` compares that with the ledger's own table.
A failure at any point leaves what `Abandoned` describes, which
`validate_partial_observation` accepts once `fail` has settled what was in progress.
`CapKept` says that the lengths added up were within the cap and that a copy is
never longer than the length that was added.

**Restores.** Each check of `apply_restore` is made at one step and relied on
later. `Relies(p)` says what it still means by then: the token in hand was
issued, since an edited one is not signed with the key (`InHand`); its record
was made by this program (`Approved`); the device is claimed and the prepared
one (`TargetHeld`), the pinned directory the prepared one unless the path
changed twice (`RootHeld`), two stream restores are on different devices
(`MountsApart`); the members read are those the token binds, since identities
only grow and what was opened lies between the token's and the current one's
(`MembersHeld`); what was verified is unchanged unless the program counts as
late (`Undisturbed`). A restore ends as `failed` over its image and as `broken`
over its target, whose writes, syncs, mkfs and mount may fail at every step; only
the first kind needs a late change. A stream target counts as written, never as
flushed, because its umount is not checked. `AdmissionsRecorded` says that the
record of an admission stays while its token is valid, although records are pruned.
`Alone` and `Outside` state once what a step of one program, or of the rest of
the system, leaves to the others; each action is then an argument about one
program.

**The registry.** `OneJobPerSet` is about runs, the code's check about entries.
`RegistryInv` ties them: a live run has an entry under its id, that entry says
Running and stands for that very run, and two active entries name different
sets. The drain adds that nothing registers once `draining` is set, so the
emptiness `Drained` sees stays. `BusInv` adds that the last event of an id tells
how its entry stands, so runs of one id follow one another on the bus;
`StreamInv` that nobody else is given a captured call's id, so that its stream
ends with its own run's result.

**The start.** `StartIsGuarded` is about who can connect between any two system
calls of any number of daemons on one path. `SameOptions` says that they were
given the same options. `DirectoryIsClosed` says that once a daemon has looked
for a socket, or one is bound, the socket's directory lets in no more than the
options name: access follows from the directory, not from the mode of the socket
itself, which another daemon's bind, chown or chmod may just have changed. It is
said of daemons that could set the directory's mode; for the others (`unclosed`)
`SocketIsClosed` says that the socket's own mode is right once they are ready,
and the window between bind and chmod stays open.
`ReadIsRecent` says that what was read of the policy lies between the version
found when the file was opened and the present one, so that a read that was
accepted saw one version.

**The stop.** A job that keeps reporting must not be killed. `NotBehind` says that a
job which still runs has an event waiting, or the watch has counted at least as
many silent ticks as the job really stood still. `Advancing` and `Growing` say
that an event that waits tells something new, since byte counts grow and a phase
begins once, so that reading it resets the count. `TimeIsLeft` says that while a
job has not been silent for the limit, the deadline given to systemd is a whole
extension away right after a poll, and one tick less before the next.

**Requests.** The balance of permits, results and slots is inductive with
`OpsFit` (which request can be where) and `RunsOwnEntries`: the entry of a task
under way is its own and has no result, so that finishing it drops nobody's
reservation.

**Only model-checked.** Liveness, which is out of the prover's reach:
`AbandonedIsBroken`, `PublicationEnds`, `CapturedResultArrives`,
`VerificationsEnd`, and the liveness parts of `StopSparesTheAdvancing` (its
safety part is `AdvancingIsSpared`), `MountShowsItsImage` and `SourceIsReleased`.
What recursive functions or folds compute over data, which needs induction:
`ReadsWhatWasWritten`, `StreamsReplay`, `FilesAreWhole`, `RestoredIsRecorded`,
`DiskComesBack`. `ImageIsOneMoment` resolves a chain with a fold; it names as its
exceptions the images of a freeze that did not hold (`held`) and snapshots that
lvs could not measure (`measured`), see section 5.
`RemoteLockHolds` is a property of an instance; its two parts are the theorems of
`RemoteLockProofs`.

## 5. Disagreements with the documentation

Shown by a violation run (the quoted lines are in `findings`):

1. `lock_live_holder`: two jobs on one host break the same stale lock; the
   slower one unlinks by path the file the faster one has just created, although
   the doc says a live holder is never broken on its host. The descriptor that
   was flocked is not compared with the path before `remove_file`.
2. `lock_killed_writer`: a kill between truncating and rewriting the record (or
   between creating and writing it) leaves an empty `set.lock`, which
   `--break-stale-lock` refuses and the guide says not to delete by hand.
3. `set_transient_read`: a superblock read that fails once hides the last member
   of a chain; the next incremental takes its sequence number, and once the read
   works again `resolve_chain` refuses the chain from there on.
4. `jobs_reused_id`: `run_job` subscribes before it registers and filters by job
   id only, so it can forward an earlier run's terminal event.
5. `token_reuse`: `redeem` checks the token's expiry against one reading of the
   clock and prunes expired records against a later one, so the record of a
   token's first use can be pruned by its second.

Seen while modelling, without a run of their own. Locks and destinations:

* `SetLock::verify` and the change it guards are two steps. A holder on another
  host of a shared mount that is paused between them changes the set after its
  lock was broken; `lr-store/src/lib.rs:207-209` promises more. Within the
  guide's rule it cannot happen (`MutateWhileOwning`).
* A remote refresh rewrites by path what it has just read (`sftp.rs:687`); a lock
  broken and taken in between is overwritten. Its owner is then fenced, never
  let through. An answer lost in the create (`sftp.rs:1034`) leaves a lock of
  nobody until its TTL is over.
* `delete` over SFTP is repeated after a lost answer (`sftp.rs:975-987`): the
  second request finds nothing and a deletion that happened is an error.
* The SFTP flush goes through a file opened again, perhaps on a new session: a
  server that lost power after acknowledging writes can flush what is left and
  the result is `Durability::Synced`.
* A publication flushes the file and the directory that holds it, not the parent
  of a directory it has just made (`local.rs:149-153`, `mkdir_in` at 648): a
  power loss may take a first image that was reported `Synced`, with its set
  directory. `FilesAreSafe` speaks of directories that are still there.
* Two `add destination` calls load, change and save the registry file without a
  lock (`service.rs:929-932`): one entry can be lost.

Sets and images:

* A chain with a damaged superblock in the middle is deleted as incomplete,
  although members before the damage can be restored; `retention.rs:8-9` says
  incomplete chains cannot be.
* A retention run interrupted between deletions leaves a catalog that lists
  deleted files until the next load; D-083 says it does not.
* Retention counts a complete chain as good whether or not its payload still is:
  a damaged newest chain that nobody has verified takes the place of a good older
  one, which may be deleted. `RetentionKeeps` speaks of the files, not of what is
  in them.
* What an interrupted deletion leaves of a chain is dated by its incrementals
  and may count as newer than the newest complete chain, so it stays.
* A file image whose reference holds a file that kept changing inherits that
  entry when the tree shows no change since (`file.rs:483`), and is itself
  marked per-file consistent, against the comment at `file.rs:556`. A restore
  asks every member of the chain (`file.rs:1023`) and still refuses.
* A restore root that is swapped away between the two readings of its facts and
  back again is opened in between (`file.rs:1098`). A stream restore hands its
  target to mkfs by path. It then unmounts the target in a `drop` that ignores
  the result, and nothing syncs it (`stream.rs:1100-1105`): a restore may be
  reported as done before its blocks are on the disk.
* `strict_metadata` is documented to fail "when any metadata cannot be restored"
  (`file.rs:905`). An error over a special file is a warning either way
  (`file.rs:1193-1201`), so the restore succeeds.
* The path components of an entry are checked by a restore (`file.rs:1363`), not
  by the FUSE view.
* A whole-disk job discovers the table before it claims the disk
  (`whole_disk.rs:182-199`). A disk with logical partitions is refused, since
  they overlap the extended one, and gaps between partitions are not imaged. A
  GPT whose entries lie beyond the 16 MiB that are imaged before the first
  partition, or whose primary header is damaged, is found out only at the end of a
  restore; an I/O failure leaves the target half written.
* An LV that was created but not tagged (`lvm.rs:106`) is not found by the
  sweep.
* When lvs does not answer, `check_final` of a snapshot passes
  (`lvm.rs:389-398,473`), and without a pool nothing is watched
  (`lvm.rs:418-421`): a full snapshot can end as an image with bad sectors that
  the source does not have.
* The deadman counts from the moment it is armed, the health of a freeze from the
  return of FIFREEZE (`freeze.rs:90,114`). If FIFREEZE takes longer than the
  grace, the deadman thaws a source whose image still passes `check_final`. The
  mountpoint is opened by path (`freeze.rs:93`): after an umount that is the file
  system below it. FITHAW lifts the freeze of whoever froze (`freeze.rs:425`), so
  that two freezing jobs of one source release each other. The images concerned
  are the ones `ImageIsOneMoment` excepts.
* "a failed thaw is retried while the marker exists" (`freeze.rs:252`): the helper
  stops after 30 tries (`freeze.rs:263`). It thaws by mountpoint, whatever is
  mounted there then, and is done when that worked. `SourceIsReleased` excepts
  both.

Daemon and schedules:

* `cancel_job` reads the job's owner, may wait for polkit, then cancels whatever
  run the id stands for by then (`service.rs:1338-1340`).
* A job that writes less than REPORT_STEP (64 MiB, `progress.rs:88`) in five
  minutes sends no event, so a stop treats it as silent; D-113 says a job that
  keeps writing is waited for. `StopSparesTheAdvancing` is therefore about
  jobs that report.
* Captured results that nobody collects keep their place in the budget until
  the daemon restarts.
* Schedule calls are not serialised (`service.rs:1457`); `SchedulesHold` speaks
  of calls that had systemd to themselves. A `new_chain` timer that the config
  no longer has stays enabled after `schedule set` (`schedule.rs:504,770`). A
  removal ignores whether `disable --now` worked (`schedule.rs:859-863`) and may
  leave a timer running that has no files; a unit is written over its old content
  (`schedule.rs:781`), so that a failed write leaves it cut short until the next
  call.
* The state file of an export is named after its mountpoint with every byte that
  is no letter or digit replaced by `_` (`session.rs:296-309`), which the comment
  calls unique per path: `/mnt/a-b` and `/mnt/a_b` share one. `Exports` gives
  mountpoints that have state files of their own.
* All daemon exports use one socket path (`service.rs:318-319`): of two calls at
  the same time either may attach to the other's server. An unexport takes down
  what its state names, also when a later export has it by then.
  `MountShowsItsImage` excepts these, as `crossed`. Clean-ups that fail are
  ignored (`service.rs:356,388`) and leave a device attached.
* The mode of the socket's directory is set with `let _` (`socket.rs:74,95`).
  Where that fails, everybody the old directory and the umask admit can connect
  between bind and chmod; `StartIsGuarded` promises a daemon with such a
  directory a closed socket only once it is ready.
* A second daemon that finds a stale socket may remove the one another daemon
  has bound since it looked (`socket.rs:102-115`).

## 6. Not modelled

* Payload computation: hashing, compression, ciphers, key derivation and key
  files, the byte layout of the wire format. A sealed record opens with what it
  was sealed with, a hash is what it is the hash of.
* Readers of external tools' output (`lr-fsmap`, `lvs`, `btrfs`, `findmnt`) and
  calendar expressions: what they report is an input.
* How openat2 confines a path (`LocalFiles` models what it refuses), sd_notify, status pages, polkit's
  decision: the kernel's, systemd's or another program's.
* The GUI, the session helper, the rescue media builder, the command line
  except its exports: they translate requests and print results.
* Wording, logging and progress figures; character-level parsing.
* In `BackupSet` a scan is atomic: a job that scans holds the lock, and the
  verification that does not re-resolves when it records. Differentials and
  incrementals are one action there, because they differ in payload only;
  `BlockBackup` tells them apart.
* Clocks do not run backwards. Time stamps of the kernel tell two changes of a
  file apart (`FileBackup`). A replaced image file has a fresh identity
  (`Restore`).
* The machines of an MC module do not run together: the locks and publication
  are composed with the jobs through `SetMutex` and the atomic publication of
  `BackupSet`, not state by state.

## 7. Plan

Built, in this order: `SetMutex`, `SetLock` with proofs, `Publish`, `BackupSet`,
`Jobs` with proofs; then the recovery side (`Observation`, `Capture`, `History`,
`Restore`), what images hold (`ImageFile`, `FileBackup`, `FileTree`,
`StreamBackup`, `BlockBackup`, `WholeDisk`, `ExportRead`), and the daemon and
destinations (`Exports`, `Service`, `DrainWatch`, `Startup`, `Schedule`,
`RemoteLock`, `Destinations`, `LocalFiles`); then the theorems of `RemoteLock`,
`BackupSet`, `Publish`, `LocalFiles`, `Service`, `Restore` and the rest of
`Jobs`; then those of `History`, `Startup`, `Destinations`, `DrainWatch`,
`Capture`, `Schedule`, and `SetLock!LiveHolderKeepsLock`. Next, most important
first:

1. An abstract recovery-point store (the restorable images only grow, except by
   retention) that `BackupSet` implements.
2. The safety parts of `MountShowsItsImage` and `SourceIsReleased` as theorems of
   `Exports` and `BlockBackup`.
3. The GUI's reconciliation of results (`lr-gui/actions.rs`), key storage
   (`keystore.rs`).
