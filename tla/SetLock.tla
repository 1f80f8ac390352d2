------------------------------- MODULE SetLock -------------------------------
(***************************************************************************)
(* The set lock of a local or mounted destination                          *)
(* (crates/lr-store/src/local.rs, `LocalDestination::acquire`, `Lease` and *)
(* `LeaseGuard`): one file, `set.lock`, in the directory of a backup set.  *)
(*                                                                         *)
(* Every step below is one system call of one process, because that is     *)
(* where two processes interleave: exclusive create, flock, record write,  *)
(* read, open, unlink, and the refresher thread's truncate and write.  A   *)
(* file is its inode: `set.lock` names at most one of them, a process may  *)
(* keep an unlinked one open, and the file system reuses the number of an  *)
(* inode that nothing names or holds open.                                 *)
(*                                                                         *)
(* Time is kept as ages.  rec[i] is how long ago the `created` stamp in    *)
(* inode i was taken; Tick makes every age grow by one, up to Expired.  A  *)
(* process may be paused for any time between two of its steps.            *)
(***************************************************************************)
EXTENDS Integers, FiniteSets

CONSTANTS Proc,       \* processes that take the lock: daemons, CLI runs
          HostOf,     \* the host each one runs on
          Breakers,   \* the ones that may pass --break-stale-lock
          Attended,   \* TRUE when the operator follows the guide: no other
                      \* process runs while a lock is being broken
          Inode,      \* inode numbers of the destination's file system
          TTL,        \* ttl_secs of the lease, in ticks
          MaxCrashes  \* bound on process deaths

ASSUME ConstAssumption ==
          /\ Breakers \subseteq Proc
          /\ Attended \in BOOLEAN
          /\ TTL \in Nat \ {0}
          /\ MaxCrashes \in Nat

(***************************************************************************)
(* No file, or no descriptor; the content of a lock file that holds no     *)
(* parsable record; and the age at which ages stop growing.                *)
(***************************************************************************)
ASSUME InodeAssumption == 0 \notin Inode

None == 0
Unreadable == -1
Expired == TTL + 1
Age == 0 .. Expired

VARIABLES
  path,     \* the inode `set.lock` names, or None
  rec,      \* rec[i]: Unreadable, or the age of the record in inode i
  pc,       \* where each process is
  brk,      \* its break_stale argument
  fd,       \* the lock file it holds open, or None
  flocked,  \* it holds the exclusive flock of fd
  samp,     \* age of the now_unix() it took for the record it will write
  seen,     \* age of the record it read
  thr,      \* its refresher thread
  refAge,   \* Instant elapsed since `Lease::refreshed`
  lost,     \* `Lease::lost` is set
  crashes   \* processes killed so far

vars == <<path, rec, pc, brk, fd, flocked, samp, seen, thr, refAge, lost, crashes>>

(***************************************************************************)
(* Control points.  A Creating process has made the file and not finished  *)
(* `acquire`; a Holding one has a SetLock value and is somewhere between   *)
(* the return of `acquire` and the end of `LeaseGuard::drop`.              *)
(***************************************************************************)
Creating == {"flock", "write"}
Breaking == {"try", "unlink"}
Keeping  == {"held", "verified", "stopping", "dropcheck", "dropunlink"}
Control  == {"idle", "create", "read", "judge", "open"}
              \cup Creating \cup Breaking \cup Keeping

Holding(p) == pc[p] \in Keeping

TypeOK ==
  /\ path \in Inode \cup {None}
  /\ rec \in [Inode -> Age \cup {Unreadable}]
  /\ pc \in [Proc -> Control]
  /\ brk \in [Proc -> BOOLEAN]
  /\ fd \in [Proc -> Inode \cup {None}]
  /\ flocked \in [Proc -> BOOLEAN]
  /\ samp \in [Proc -> Age]
  /\ seen \in [Proc -> Age]
  /\ thr \in [Proc -> {"none", "sleep", "sampled", "truncated", "done"}]
  /\ refAge \in [Proc -> Age]
  /\ lost \in [Proc -> BOOLEAN]
  /\ crashes \in 0 .. MaxCrashes

Init ==
  /\ path = None
  /\ rec = [i \in Inode |-> Unreadable]
  /\ pc = [p \in Proc |-> "idle"]
  /\ brk = [p \in Proc |-> FALSE]
  /\ fd = [p \in Proc |-> None]
  /\ flocked = [p \in Proc |-> FALSE]
  /\ samp = [p \in Proc |-> 0]
  /\ seen = [p \in Proc |-> 0]
  /\ thr = [p \in Proc |-> "none"]
  /\ refAge = [p \in Proc |-> 0]
  /\ lost = [p \in Proc |-> FALSE]
  /\ crashes = 0

-----------------------------------------------------------------------------
(***************************************************************************)
(* The file system.                                                        *)
(***************************************************************************)

\* An inode number the file system may give to a new file.
Unused(i) == i # path /\ \A q \in Proc : fd[q] # i

\* `try_lock` on fd[p]: refused while another process of p's host holds the
\* flock of the same inode.  Hosts that share the destination do not see each
\* other's flock.
FlockFree(p) ==
  \A q \in Proc \ {p} :
    ~ (flocked[q] /\ fd[q] = fd[p] /\ HostOf[q] = HostOf[p])

\* The process is done with the lock file: descriptor closed, flock gone.
Closed(p) ==
  /\ fd' = [fd EXCEPT ![p] = None]
  /\ flocked' = [flocked EXCEPT ![p] = FALSE]

Goto(p, label) == pc' = [pc EXCEPT ![p] = label]

\* What a finished or killed process leaves in its variables.
Forget(p) ==
  /\ Goto(p, "idle")
  /\ Closed(p)
  /\ brk' = [brk EXCEPT ![p] = FALSE]
  /\ samp' = [samp EXCEPT ![p] = 0]
  /\ seen' = [seen EXCEPT ![p] = 0]
  /\ thr' = [thr EXCEPT ![p] = "none"]
  /\ refAge' = [refAge EXCEPT ![p] = 0]
  /\ lost' = [lost EXCEPT ![p] = FALSE]

\* `acquire` returns an error: SetLocked or an I/O error.
Refused(p) == Forget(p) /\ UNCHANGED <<path, rec, crashes>>

-----------------------------------------------------------------------------
(***************************************************************************)
(* acquire                                                                 *)
(***************************************************************************)

Running(p) == pc[p] # "idle"

\* A job asks for the lock, and stamps the record it would write.
Start(p, b) ==
  /\ pc[p] = "idle"
  /\ b => p \in Breakers
  /\ Attended => \A q \in Proc \ {p} : ~ (Running(q) /\ (b \/ brk[q]))
  /\ Goto(p, "create")
  /\ brk' = [brk EXCEPT ![p] = b]
  /\ UNCHANGED <<path, rec, fd, flocked, samp, seen, thr, refAge, lost, crashes>>

\* Mutant: opened without O_EXCL, an existing lock file is replaced.
CreateReplacing(p) ==
  /\ pc[p] = "create"
  /\ \E i \in Inode :
       /\ Unused(i)
       /\ path' = i
       /\ rec' = [rec EXCEPT ![i] = Unreadable]
       /\ fd' = [fd EXCEPT ![p] = i]
  /\ Goto(p, "flock")
  /\ UNCHANGED <<brk, flocked, samp, seen, thr, refAge, lost, crashes>>

\* `create_new` (O_EXCL): the new file is empty.
Create(p) ==
  /\ pc[p] = "create"
  /\ path = None
  /\ \E i \in Inode :
       /\ Unused(i)
       /\ path' = i
       /\ rec' = [rec EXCEPT ![i] = Unreadable]
       /\ fd' = [fd EXCEPT ![p] = i]
  /\ Goto(p, "flock")
  /\ UNCHANGED <<brk, flocked, samp, seen, thr, refAge, lost, crashes>>

CreateExists(p) ==
  /\ pc[p] = "create"
  /\ path # None
  /\ Goto(p, "read")
  /\ UNCHANGED <<path, rec, brk, fd, flocked, samp, seen, thr, refAge, lost, crashes>>

\* `lock_exclusive` on the file just created.
FlockNew(p) ==
  /\ pc[p] = "flock"
  /\ FlockFree(p)
  /\ flocked' = [flocked EXCEPT ![p] = TRUE]
  /\ Goto(p, "write")
  /\ UNCHANGED <<path, rec, brk, fd, samp, seen, thr, refAge, lost, crashes>>

\* Somebody opened the new file and locked it first: the file stays behind.
FlockNewRefused(p) ==
  /\ pc[p] = "flock"
  /\ ~ FlockFree(p)
  /\ Refused(p)

\* Write and fsync the record, note `refreshed`, start the refresher.
WriteRecord(p) ==
  /\ pc[p] = "write"
  /\ rec' = [rec EXCEPT ![fd[p]] = samp[p]]
  /\ refAge' = [refAge EXCEPT ![p] = 0]
  /\ samp' = [samp EXCEPT ![p] = 0]
  /\ thr' = [thr EXCEPT ![p] = "sleep"]
  /\ Goto(p, "held")
  /\ UNCHANGED <<path, brk, fd, flocked, seen, lost, crashes>>

\* The write or the fsync fails: `acquire` returns the error and the file it
\* created stays behind without a record.
WriteRecordFails(p) ==
  /\ pc[p] = "write"
  /\ Refused(p)

\* `read_lock`: a missing file and an unparsable one both give None, which
\* `acquire` reports as a lock held by an unreadable owner.
ReadLock(p) ==
  /\ pc[p] = "read"
  /\ path # None
  /\ rec[path] # Unreadable
  /\ seen' = [seen EXCEPT ![p] = rec[path]]
  /\ Goto(p, "judge")
  /\ UNCHANGED <<path, rec, brk, fd, flocked, samp, thr, refAge, lost, crashes>>

\* Mutant: an unparsable record counts as a leftover and is removed.
ReadNothingRemoves(p) ==
  /\ pc[p] = "read"
  /\ path # None => rec[path] = Unreadable
  /\ path' = None
  /\ Goto(p, "create")
  /\ UNCHANGED <<rec, brk, fd, flocked, samp, seen, thr, refAge, lost, crashes>>

ReadNothing(p) ==
  /\ pc[p] = "read"
  /\ path # None => rec[path] = Unreadable
  /\ Refused(p)

\* Mutant: every lease is taken for one that never expires.
IsStaleNever(p) == FALSE

\* `LockRecord::is_stale` on what was read, perhaps some time ago.
IsStale(p) == seen[p] > TTL

\* Mutant: a stale lock is broken although nobody asked.
JudgeStaleUnasked(p) ==
  /\ pc[p] = "judge"
  /\ IsStale(p)
  /\ Goto(p, "open")
  /\ seen' = [seen EXCEPT ![p] = 0]
  /\ UNCHANGED <<path, rec, brk, fd, flocked, samp, thr, refAge, lost, crashes>>

JudgeStale(p) ==
  /\ pc[p] = "judge"
  /\ IsStale(p) /\ brk[p]
  /\ Goto(p, "open")
  /\ seen' = [seen EXCEPT ![p] = 0]
  /\ UNCHANGED <<path, rec, brk, fd, flocked, samp, thr, refAge, lost, crashes>>

JudgeRefused(p) ==
  /\ pc[p] = "judge"
  /\ ~ (IsStale(p) /\ brk[p])
  /\ Refused(p)

\* The breaker opens whatever `set.lock` names now.
OpenStale(p) ==
  /\ pc[p] = "open"
  /\ path # None
  /\ fd' = [fd EXCEPT ![p] = path]
  /\ Goto(p, "try")
  /\ UNCHANGED <<path, rec, brk, flocked, samp, seen, thr, refAge, lost, crashes>>

OpenGone(p) ==
  /\ pc[p] = "open"
  /\ path = None
  /\ Refused(p)

TryStale(p) ==
  /\ pc[p] = "try"
  /\ FlockFree(p)
  /\ flocked' = [flocked EXCEPT ![p] = TRUE]
  /\ Goto(p, "unlink")
  /\ UNCHANGED <<path, rec, brk, fd, samp, seen, thr, refAge, lost, crashes>>

TryAlive(p) ==
  /\ pc[p] = "try"
  /\ ~ FlockFree(p)
  /\ Refused(p)

\* `remove_file` works on the name: it removes what `set.lock` names now.
\* Closing the old file and going round the loop come with it.
UnlinkStale(p) ==
  /\ pc[p] = "unlink"
  /\ path # None
  /\ path' = None
  /\ Closed(p)
  /\ Goto(p, "create")
  /\ UNCHANGED <<rec, brk, samp, seen, thr, refAge, lost, crashes>>

UnlinkGone(p) ==
  /\ pc[p] = "unlink"
  /\ path = None
  /\ Refused(p)

-----------------------------------------------------------------------------
(***************************************************************************)
(* The holder: verify, change the set, release.                            *)
(***************************************************************************)

StillOurs(p) == path = fd[p]

\* `Lease::verify`.  Its checks are one step: a holder that passes them one
\* after the other would also have passed them all when the first one ran.
VerifyOk(p) ==
  /\ pc[p] = "held"
  /\ ~ lost[p] /\ StillOurs(p) /\ refAge[p] <= TTL
  /\ Goto(p, "verified")
  /\ UNCHANGED <<path, rec, brk, fd, flocked, samp, seen, thr, refAge, lost, crashes>>

\* A failed verification ends the job, which drops the lock.
VerifyFails(p) ==
  /\ pc[p] = "held"
  /\ lost[p] \/ ~ StillOurs(p) \/ refAge[p] > TTL
  /\ Goto(p, "stopping")
  /\ UNCHANGED <<path, rec, brk, fd, flocked, samp, seen, thr, refAge, lost, crashes>>

\* The publication or deletion the verification was for.
Mutate(p) ==
  /\ pc[p] = "verified"
  /\ Goto(p, "held")
  /\ UNCHANGED <<path, rec, brk, fd, flocked, samp, seen, thr, refAge, lost, crashes>>

\* `LeaseGuard::drop` sets `stop`, then joins the refresher, which finishes
\* the refresh it is in.
Release(p) ==
  /\ pc[p] = "held"
  /\ Goto(p, "stopping")
  /\ UNCHANGED <<path, rec, brk, fd, flocked, samp, seen, thr, refAge, lost, crashes>>

Join(p) ==
  /\ pc[p] = "stopping"
  /\ thr[p] \in {"sleep", "done"}
  /\ thr' = [thr EXCEPT ![p] = "done"]
  /\ Goto(p, "dropcheck")
  /\ UNCHANGED <<path, rec, brk, fd, flocked, samp, seen, refAge, lost, crashes>>

DropOurs(p) ==
  /\ pc[p] = "dropcheck"
  /\ StillOurs(p)
  /\ Goto(p, "dropunlink")
  /\ UNCHANGED <<path, rec, brk, fd, flocked, samp, seen, thr, refAge, lost, crashes>>

DropNotOurs(p) ==
  /\ pc[p] = "dropcheck"
  /\ ~ StillOurs(p)
  /\ Refused(p)

DropUnlink(p) ==
  /\ pc[p] = "dropunlink"
  /\ path' = None
  /\ Forget(p)
  /\ UNCHANGED <<rec, crashes>>

-----------------------------------------------------------------------------
(***************************************************************************)
(* The refresher thread.  It wakes at no particular time: the scheduler    *)
(* may delay it past the lease.                                            *)
(***************************************************************************)

RefreshCheck(p) ==
  /\ thr[p] = "sleep"
  /\ pc[p] \in {"held", "verified"}
  /\ StillOurs(p)
  /\ samp' = [samp EXCEPT ![p] = 0]
  /\ thr' = [thr EXCEPT ![p] = "sampled"]
  /\ UNCHANGED <<path, rec, pc, brk, fd, flocked, seen, refAge, lost, crashes>>

\* Mutant: a missing lock file is created again, as before R21.
RefreshRecreates(p) ==
  /\ thr[p] = "sleep"
  /\ pc[p] \in {"held", "verified"}
  /\ path = None
  /\ \E i \in Inode :
       /\ Unused(i)
       /\ path' = i
       /\ rec' = [rec EXCEPT ![i] = 0]
       /\ fd' = [fd EXCEPT ![p] = i]
  /\ UNCHANGED <<pc, brk, flocked, samp, seen, thr, refAge, lost, crashes>>

\* The name is gone or names another file: the lease is lost for good.
RefreshLost(p) ==
  /\ thr[p] = "sleep"
  /\ pc[p] \in {"held", "verified"}
  /\ ~ StillOurs(p)
  /\ lost' = [lost EXCEPT ![p] = TRUE]
  /\ thr' = [thr EXCEPT ![p] = "done"]
  /\ UNCHANGED <<path, rec, pc, brk, fd, flocked, samp, seen, refAge, crashes>>

\* `set_len(0)` on the open file: until the write, the record is unreadable.
RefreshTruncate(p) ==
  /\ thr[p] = "sampled"
  /\ rec' = [rec EXCEPT ![fd[p]] = Unreadable]
  /\ thr' = [thr EXCEPT ![p] = "truncated"]
  /\ UNCHANGED <<path, pc, brk, fd, flocked, samp, seen, refAge, lost, crashes>>

\* Mutant: the record is written through the path, as before R21.
RefreshWriteByPath(p) ==
  /\ thr[p] = "truncated"
  /\ path # None
  /\ rec' = [rec EXCEPT ![path] = samp[p]]
  /\ refAge' = [refAge EXCEPT ![p] = 0]
  /\ samp' = [samp EXCEPT ![p] = 0]
  /\ thr' = [thr EXCEPT ![p] = "sleep"]
  /\ UNCHANGED <<path, pc, brk, fd, flocked, seen, lost, crashes>>

RefreshWrite(p) ==
  /\ thr[p] = "truncated"
  /\ rec' = [rec EXCEPT ![fd[p]] = samp[p]]
  /\ refAge' = [refAge EXCEPT ![p] = 0]
  /\ samp' = [samp EXCEPT ![p] = 0]
  /\ thr' = [thr EXCEPT ![p] = "sleep"]
  /\ UNCHANGED <<path, pc, brk, fd, flocked, seen, lost, crashes>>

\* An I/O error in either call.
RefreshFails(p) ==
  /\ thr[p] \in {"sampled", "truncated"}
  /\ lost' = [lost EXCEPT ![p] = TRUE]
  /\ samp' = [samp EXCEPT ![p] = 0]
  /\ thr' = [thr EXCEPT ![p] = "done"]
  /\ UNCHANGED <<path, rec, pc, brk, fd, flocked, seen, refAge, crashes>>

-----------------------------------------------------------------------------
(***************************************************************************)
(* The environment: death of a process, and time.                          *)
(***************************************************************************)

\* The kernel closes the descriptors of a dead process; the file stays.
Crash(p) ==
  /\ Running(p)
  /\ crashes < MaxCrashes
  /\ crashes' = crashes + 1
  /\ Forget(p)
  /\ UNCHANGED <<path, rec>>

Older(a) == IF a \in 0 .. TTL THEN a + 1 ELSE a

\* Only the ages somebody will read grow: the stamp of a record still to be
\* written, the record under judgement, the lease of a holder.
Tick ==
  /\ rec' = [i \in Inode |-> Older(rec[i])]
  /\ samp' = [p \in Proc |->
                IF \/ pc[p] \in {"create", "flock", "write", "read", "judge",
                                 "open", "try", "unlink"}
                   \/ thr[p] \in {"sampled", "truncated"}
                THEN Older(samp[p]) ELSE samp[p]]
  /\ seen' = [p \in Proc |-> IF pc[p] = "judge" THEN Older(seen[p]) ELSE seen[p]]
  /\ refAge' = [p \in Proc |-> IF Holding(p) THEN Older(refAge[p]) ELSE refAge[p]]
  /\ UNCHANGED <<path, pc, brk, fd, flocked, thr, lost, crashes>>

Acquire(p) ==
  \/ Create(p) \/ CreateExists(p) \/ FlockNew(p) \/ FlockNewRefused(p)
  \/ WriteRecord(p) \/ WriteRecordFails(p) \/ ReadLock(p) \/ ReadNothing(p)
  \/ JudgeStale(p) \/ JudgeRefused(p)

Break(p) ==
  \/ OpenStale(p) \/ OpenGone(p) \/ TryStale(p) \/ TryAlive(p)
  \/ UnlinkStale(p) \/ UnlinkGone(p)

Hold(p) == VerifyOk(p) \/ VerifyFails(p) \/ Mutate(p) \/ Release(p)

Drop(p) == Join(p) \/ DropOurs(p) \/ DropNotOurs(p) \/ DropUnlink(p)

Refresh(p) ==
  \/ RefreshCheck(p) \/ RefreshLost(p) \/ RefreshTruncate(p)
  \/ RefreshWrite(p) \/ RefreshFails(p)

Next ==
  \/ \E p \in Proc :
       \/ \E b \in BOOLEAN : Start(p, b)
       \/ Acquire(p) \/ Break(p) \/ Hold(p) \/ Drop(p) \/ Refresh(p) \/ Crash(p)
  \/ Tick

Spec == Init /\ [][Next]_vars

(***************************************************************************)
(* Time passes, a process inside `acquire` is eventually scheduled, and    *)
(* whoever may break a stale lock tries again whenever the operator's      *)
(* procedure lets them.                                                    *)
(***************************************************************************)
Fairness ==
  /\ WF_vars(Tick)
  /\ \A p \in Breakers :
       WF_vars(Acquire(p) \/ Break(p)) /\ SF_vars(Start(p, TRUE))

FairSpec == Spec /\ Fairness

-----------------------------------------------------------------------------
(***************************************************************************)
(* Properties.                                                             *)
(***************************************************************************)

\* Two jobs never hold the set lock at once: from the return of `acquire` to
\* the end of `LeaseGuard::drop` a holder is alone, so its release cannot
\* remove somebody else's file and nobody else can have been admitted.
MutualExclusion ==
  \A p, q \in Proc : p # q => ~ (Holding(p) /\ Holding(q))

\* A publication or deletion happens while `set.lock` still is the file its
\* job created, not only when `SetLock::verify` looked.
MutateWhileOwning ==
  [][\A p \in Proc : Mutate(p) => StillOurs(p)]_vars

\* A holder that is alive, even paused past its lease, keeps its lock: the
\* file stays at `set.lock` until the holder itself lets go (the comment on
\* `LocalDestination::acquire`, and decision D-120 on `lock_set`).
LiveHolderKeepsLock ==
  [][\A p \in Proc :
        (Holding(p) /\ StillOurs(p) /\ Holding(p)') => path' = path]_vars

\* Fencing has no way back: a holder whose lock file was removed or replaced
\* is never again the one `still_ours` accepts, although inode numbers are
\* reused, because it keeps the file it compares with open.
FencedForGood ==
  [][\A p \in Proc :
        (Holding(p) /\ ~ StillOurs(p) /\ Holding(p)') => ~ StillOurs(p)']_vars

\* A refresh writes into the holder's own inode, never through the path: a
\* step of another process does not change the record a holder refreshes
\* (R21).
NobodyElseRefreshes ==
  [][\A p, q \in Proc :
        (p # q /\ Holding(p) /\ Refresh(q)) => rec'[fd[p]] = rec[fd[p]]]_vars

\* What the operator guide says of a killed writer: its lock can be broken
\* once it has expired.  A lock file no process has open must therefore hold
\* a record whose expiry can be read.
KilledHolderBreakable ==
  (path # None /\ \A p \in Proc : fd[p] # path) => rec[path] # Unreadable

\* The lock file of a dead holder, with a record, and nobody at it.
Abandoned ==
  /\ path # None
  /\ rec[path] # Unreadable
  /\ \A p \in Proc : fd[p] # path

\* A set does not stay locked by the dead: if there are moments without a
\* running job, which the guide asks the operator to wait for, a dead holder's
\* lock expires and a --break-stale-lock job removes it.
AbandonedIsBroken ==
  []<>(\A p \in Proc : ~ Running(p)) => (Abandoned ~> path = None)

(***************************************************************************)
(* What the jobs rely on: a mutex that is broken only after its owner died.*)
(***************************************************************************)
\* A job takes itself for the owner from the creation of its file to the end
\* of its release, whatever happens to the name in between.
Owns(p) == pc[p] \in Creating \cup Keeping

Mutex == INSTANCE SetMutex WITH taken <- path # None,
                                owner <- {p \in Proc : Owns(p)}

\* While nobody breaks locks, or locks are broken the way the operator guide
\* says, the lock file implements that mutex.
ImplementsMutex == Mutex!Spec
==============================================================================
