---------------------------- MODULE SetLockProofs ----------------------------
(***************************************************************************)
(* Proofs about SetLock, for every set of processes, hosts and inodes,     *)
(* every lease and any number of crashes.                                  *)
(***************************************************************************)
EXTENDS SetLock, TLAPS

\* Only the types: needed by every other proof.
THEOREM TypeCorrect == Spec => []TypeOK
<1> USE ConstAssumption, InodeAssumption
<1>1. Init => TypeOK
  BY DEF Init, TypeOK, Control, Age, Expired
<1>2. TypeOK /\ [Next]_vars => TypeOK'
  <2> SUFFICES ASSUME TypeOK, [Next]_vars PROVE TypeOK'
    OBVIOUS
  <2>1. ASSUME NEW p \in Proc, NEW b \in BOOLEAN, Start(p, b) PROVE TypeOK'
    BY <2>1 DEF TypeOK, Start, Goto, Control
  <2>2. ASSUME NEW p \in Proc, Forget(p), path' \in Inode \cup {None},
               rec' = rec, crashes' \in 0 .. MaxCrashes
        PROVE  TypeOK'
    BY <2>2 DEF TypeOK, Forget, Closed, Goto, Control, Age, Expired
  <2>3. ASSUME NEW p \in Proc, Refused(p) PROVE TypeOK'
    BY <2>2, <2>3 DEF Refused, TypeOK
  <2>4. ASSUME NEW p \in Proc, Acquire(p) PROVE TypeOK'
    <3>1. CASE Create(p)
      BY <3>1 DEF TypeOK, Create, Goto, Control, Creating
    <3>2. CASE CreateExists(p)
      BY <3>2 DEF TypeOK, CreateExists, Goto, Control
    <3>3. CASE FlockNew(p)
      BY <3>3 DEF TypeOK, FlockNew, Goto, Control, Creating
    <3>4. CASE WriteRecord(p)
      <4>1. rec' \in [Inode -> Age \cup {Unreadable}]
        BY <3>4 DEF TypeOK, WriteRecord
      <4>2. 0 \in Age
        BY DEF Age, Expired
      <4> QED
        BY <3>4, <4>1, <4>2 DEF TypeOK, WriteRecord, Goto, Control, Keeping
    <3>5. CASE ReadLock(p)
      BY <3>5 DEF TypeOK, ReadLock, Goto, Control, Age
    <3>6. CASE JudgeStale(p)
      BY <3>6 DEF TypeOK, JudgeStale, Goto, Control, Age, Expired
    <3>7. CASE Refused(p)
      BY <3>7, <2>3
    <3> QED
      BY <2>4, <3>1, <3>2, <3>3, <3>4, <3>5, <3>6, <3>7
         DEF Acquire, FlockNewRefused, WriteRecordFails, ReadNothing, JudgeRefused
  <2>5. ASSUME NEW p \in Proc, Break(p) PROVE TypeOK'
    <3>1. CASE OpenStale(p)
      BY <3>1 DEF TypeOK, OpenStale, Goto, Control, Breaking
    <3>2. CASE TryStale(p)
      BY <3>2 DEF TypeOK, TryStale, Goto, Control, Breaking
    <3>3. CASE UnlinkStale(p)
      BY <3>3 DEF TypeOK, UnlinkStale, Closed, Goto, Control
    <3>4. CASE Refused(p)
      BY <3>4, <2>3
    <3> QED
      BY <2>5, <3>1, <3>2, <3>3, <3>4 DEF Break, OpenGone, TryAlive, UnlinkGone
  <2>6. ASSUME NEW p \in Proc, Hold(p) PROVE TypeOK'
    BY <2>6 DEF TypeOK, Hold, VerifyOk, VerifyFails, Mutate, Release, Goto,
                Control, Keeping
  <2>7. ASSUME NEW p \in Proc, Drop(p) PROVE TypeOK'
    <3>1. CASE Join(p)
      BY <3>1 DEF TypeOK, Join, Goto, Control, Keeping
    <3>2. CASE DropOurs(p)
      BY <3>2 DEF TypeOK, DropOurs, Goto, Control, Keeping
    <3>3. CASE DropNotOurs(p)
      BY <3>3, <2>3 DEF DropNotOurs
    <3>4. CASE DropUnlink(p)
      BY <3>4, <2>2 DEF DropUnlink, TypeOK
    <3> QED
      BY <2>7, <3>1, <3>2, <3>3, <3>4 DEF Drop
  <2>8. ASSUME NEW p \in Proc, Refresh(p) PROVE TypeOK'
    <3>1. 0 \in Age
      BY DEF Age, Expired
    <3>2. rec' \in [Inode -> Age \cup {Unreadable}]
      BY <2>8 DEF TypeOK, Refresh, RefreshCheck, RefreshLost, RefreshTruncate,
                  RefreshWrite, RefreshFails
    <3>3. CASE RefreshCheck(p)
      BY <3>1, <3>2, <3>3 DEF TypeOK, RefreshCheck
    <3>4. CASE RefreshLost(p)
      BY <3>2, <3>4 DEF TypeOK, RefreshLost
    <3>5. CASE RefreshTruncate(p)
      BY <3>2, <3>5 DEF TypeOK, RefreshTruncate
    <3>6. CASE RefreshWrite(p)
      BY <3>1, <3>2, <3>6 DEF TypeOK, RefreshWrite
    <3>7. CASE RefreshFails(p)
      BY <3>1, <3>2, <3>7 DEF TypeOK, RefreshFails
    <3> QED
      BY <2>8, <3>3, <3>4, <3>5, <3>6, <3>7 DEF Refresh
  <2>9. ASSUME NEW p \in Proc, Crash(p) PROVE TypeOK'
    BY <2>9, <2>2 DEF Crash, TypeOK
  <2>10. CASE Tick
    <3>1. \A x \in Age \cup {Unreadable} : Older(x) \in Age \cup {Unreadable}
      BY DEF Older, Age, Expired, Unreadable
    <3>2. \A x \in Age : Older(x) \in Age
      BY DEF Older, Age, Expired
    <3> QED
      BY <2>10, <3>1, <3>2 DEF TypeOK, Tick
  <2>11. CASE UNCHANGED vars
    BY <2>11 DEF TypeOK, vars
  <2> QED
    BY <2>1, <2>4, <2>5, <2>6, <2>7, <2>8, <2>9, <2>10, <2>11 DEF Next
<1> QED
  BY <1>1, <1>2, PTL DEF Spec

-----------------------------------------------------------------------------
(***************************************************************************)
(* Facts that hold however locks are broken: whoever is past an open has a *)
(* file open, nobody else has one, and two processes never created the     *)
(* same inode, although numbers are reused: an inode somebody holds open   *)
(* is not Unused.                                                          *)
(***************************************************************************)
Opened == Creating \cup Breaking \cup Keeping
Made   == Creating \cup Keeping

FilesInv ==
  /\ \A p \in Proc : pc[p] \in Opened <=> fd[p] # None
  /\ \A p, q \in Proc :
       p # q /\ pc[p] \in Made /\ pc[q] \in Made => fd[p] # fd[q]
  /\ \A p \in Proc : thr[p] \in {"sampled", "truncated"} => Holding(p)

LEMMA FilesInvStep ==
  ASSUME TypeOK, FilesInv, [Next]_vars
  PROVE  FilesInv'
<1> USE InodeAssumption DEF Control, Creating, Breaking, Keeping, Opened, Made, Holding, None
<1>1. ASSUME NEW p \in Proc, Forget(p) PROVE FilesInv'
  BY <1>1 DEF FilesInv, TypeOK, Forget, Closed, Goto
<1>2. ASSUME NEW p \in Proc, NEW b \in BOOLEAN, Start(p, b) PROVE FilesInv'
  BY <1>2 DEF FilesInv, TypeOK, Start, Goto
<1>3. ASSUME NEW p \in Proc, Acquire(p) PROVE FilesInv'
  <2>1. CASE Create(p)
    BY <1>3, <2>1 DEF FilesInv, TypeOK, Create, Goto, Unused
  <2>2. CASE CreateExists(p)
    BY <2>2 DEF FilesInv, TypeOK, CreateExists, Goto
  <2>3. CASE FlockNew(p)
    BY <2>3 DEF FilesInv, TypeOK, FlockNew, Goto
  <2>4. CASE WriteRecord(p)
    BY <2>4 DEF FilesInv, TypeOK, WriteRecord, Goto
  <2>5. CASE ReadLock(p)
    BY <2>5 DEF FilesInv, TypeOK, ReadLock, Goto
  <2>6. CASE JudgeStale(p)
    BY <2>6 DEF FilesInv, TypeOK, JudgeStale, Goto
  <2> QED
    BY <1>3, <1>1, <2>1, <2>2, <2>3, <2>4, <2>5, <2>6
       DEF Acquire, FlockNewRefused, WriteRecordFails, ReadNothing, JudgeRefused, Refused
<1>4. ASSUME NEW p \in Proc, Break(p) PROVE FilesInv'
  <2>1. CASE OpenStale(p)
    BY <2>1 DEF FilesInv, TypeOK, OpenStale, Goto
  <2>2. CASE TryStale(p)
    BY <2>2 DEF FilesInv, TypeOK, TryStale, Goto
  <2>3. CASE UnlinkStale(p)
    BY <2>3 DEF FilesInv, TypeOK, UnlinkStale, Closed, Goto
  <2> QED
    BY <1>4, <1>1, <2>1, <2>2, <2>3 DEF Break, OpenGone, TryAlive, UnlinkGone, Refused
<1>5. ASSUME NEW p \in Proc, Hold(p) PROVE FilesInv'
  BY <1>5 DEF FilesInv, TypeOK, Hold, VerifyOk, VerifyFails, Mutate, Release, Goto
<1>6. ASSUME NEW p \in Proc, Drop(p) PROVE FilesInv'
  <2>1. CASE Join(p)
    BY <2>1 DEF FilesInv, TypeOK, Join, Goto
  <2>2. CASE DropOurs(p)
    BY <2>2 DEF FilesInv, TypeOK, DropOurs, Goto
  <2> QED
    BY <1>6, <1>1, <2>1, <2>2 DEF Drop, DropNotOurs, DropUnlink, Refused
<1>7. ASSUME NEW p \in Proc, Refresh(p) PROVE FilesInv'
  BY <1>7 DEF FilesInv, TypeOK, Refresh, RefreshCheck, RefreshLost, RefreshTruncate,
              RefreshWrite, RefreshFails
<1>8. ASSUME NEW p \in Proc, Crash(p) PROVE FilesInv'
  BY <1>8, <1>1 DEF Crash
<1>9. CASE Tick \/ UNCHANGED vars
  BY <1>9 DEF FilesInv, Tick, vars
<1> QED
  BY <1>2, <1>3, <1>4, <1>5, <1>6, <1>7, <1>8, <1>9 DEF Next

LEMMA FilesInvariant == Spec => []FilesInv
<1>1. Init => FilesInv
  BY DEF Init, FilesInv, Opened, Made, Creating, Breaking, Keeping, None
<1> QED
  BY <1>1, FilesInvStep, TypeCorrect, PTL DEF Spec

\* However locks are broken, on whatever hosts: a holder that lost its lock
\* file never sees it as its own again, so `SetLock::verify` and the release
\* keep refusing it.
THEOREM FencingIsFinal == Spec => FencedForGood
<1>1. ASSUME TypeOK, FilesInv, [Next]_vars, NEW p \in Proc,
             Holding(p), ~ StillOurs(p), Holding(p)'
      PROVE  ~ StillOurs(p)'
  <2> USE InodeAssumption DEF Creating, Breaking, Keeping, Opened, Made, Holding, None, StillOurs
  <2>1. fd[p] # None
    BY <1>1 DEF FilesInv
  <2>2. ASSUME NEW q \in Proc, Forget(q) PROVE fd'[p] = fd[p]
    BY <1>1, <2>2 DEF Forget, Goto, Closed, TypeOK
  <2>3. fd'[p] = fd[p] /\ path' # fd[p]
    <3>1. ASSUME NEW q \in Proc, NEW b \in BOOLEAN, Start(q, b)
          PROVE  fd'[p] = fd[p] /\ path' # fd[p]
      BY <1>1, <3>1 DEF Start
    <3>2. ASSUME NEW q \in Proc, Acquire(q) PROVE fd'[p] = fd[p] /\ path' # fd[p]
      BY <1>1, <2>2, <3>2
         DEF Acquire, Create, Unused, CreateExists, FlockNew, FlockNewRefused,
             WriteRecord, WriteRecordFails, ReadLock, ReadNothing, JudgeStale,
             JudgeRefused, Refused, Goto, TypeOK
    <3>3. ASSUME NEW q \in Proc, Break(q) PROVE fd'[p] = fd[p] /\ path' # fd[p]
      BY <1>1, <2>1, <2>2, <3>3
         DEF Break, OpenStale, OpenGone, TryStale, TryAlive, UnlinkStale,
             UnlinkGone, Refused, Closed, Goto, TypeOK
    <3>4. ASSUME NEW q \in Proc, Hold(q) \/ Refresh(q)
          PROVE  fd'[p] = fd[p] /\ path' # fd[p]
      BY <1>1, <3>4
         DEF Hold, VerifyOk, VerifyFails, Mutate, Release, Refresh, RefreshCheck,
             RefreshLost, RefreshTruncate, RefreshWrite, RefreshFails
    <3>5. ASSUME NEW q \in Proc, Drop(q) \/ Crash(q)
          PROVE  fd'[p] = fd[p] /\ path' # fd[p]
      BY <1>1, <2>1, <2>2, <3>5
         DEF Drop, Join, DropOurs, DropNotOurs, DropUnlink, Crash, Refused
    <3>6. CASE Tick \/ UNCHANGED vars
      BY <1>1, <3>6 DEF Tick, vars
    <3> QED
      BY <1>1, <3>1, <3>2, <3>3, <3>4, <3>5, <3>6 DEF Next
  <2> QED
    BY <2>3
<1>2. TypeOK /\ FilesInv /\ [Next]_vars =>
        [\A p \in Proc : (Holding(p) /\ ~ StillOurs(p) /\ Holding(p)')
                             => ~ StillOurs(p)']_vars
  BY <1>1
<1> QED
  BY <1>2, TypeCorrect, FilesInvariant, PTL DEF Spec, FencedForGood

\* However locks are broken: the record a holder refreshes is written by
\* nobody else's refresher.
THEOREM RefreshStaysInItsInode == Spec => NobodyElseRefreshes
<1>1. ASSUME TypeOK, FilesInv, NEW p \in Proc, NEW q \in Proc,
             p # q, Holding(p), Refresh(q)
      PROVE  rec'[fd[p]] = rec[fd[p]]
  <2>1. CASE RefreshCheck(q) \/ RefreshLost(q) \/ RefreshFails(q)
    BY <2>1 DEF RefreshCheck, RefreshLost, RefreshFails
  <2>2. CASE RefreshTruncate(q) \/ RefreshWrite(q)
    <3>1. Holding(q)
      BY <1>1, <2>2 DEF RefreshTruncate, RefreshWrite, FilesInv
    <3>2. fd[q] # fd[p]
      BY <1>1, <3>1 DEF FilesInv, Holding, Made
    <3>3. fd[p] \in Inode
      BY <1>1 DEF FilesInv, Holding, Opened, TypeOK
    <3> QED
      BY <1>1, <2>2, <3>2, <3>3 DEF RefreshTruncate, RefreshWrite, TypeOK
  <2> QED
    BY <1>1, <2>1, <2>2 DEF Refresh
<1>2. TypeOK /\ FilesInv /\ [Next]_vars =>
        [\A p, q \in Proc : (p # q /\ Holding(p) /\ Refresh(q))
                                => rec'[fd[p]] = rec[fd[p]]]_vars
  BY <1>1
<1> QED
  BY <1>2, TypeCorrect, FilesInvariant, PTL DEF Spec, NobodyElseRefreshes

-----------------------------------------------------------------------------
(***************************************************************************)
(* Exclusion, and the refinement of SetMutex, when nobody breaks locks or  *)
(* locks are broken as the operator guide says.  The lock file is at       *)
(* `set.lock` as long as the process that made it lives: a breaker, which  *)
(* works alone, is the only one that could remove it.                      *)
(***************************************************************************)
Disciplined == Attended \/ Breakers = {}

OwnerInv ==
  /\ \A p \in Proc : brk[p] => /\ p \in Breakers
                              /\ Running(p)
                              /\ \A q \in Proc \ {p} : ~ Running(q)
  /\ \A p \in Proc : pc[p] \in {"open"} \cup Breaking => brk[p]
  /\ \A p \in Proc : pc[p] \in Made => path = fd[p]

LEMMA OwnerInvStep ==
  ASSUME Disciplined, TypeOK, FilesInv, OwnerInv, [Next]_vars
  PROVE  OwnerInv'
<1> USE InodeAssumption
    DEF Control, Creating, Breaking, Keeping, Opened, Made, Holding, None, Running
<1>1. ASSUME NEW p \in Proc, Forget(p), path' = path PROVE OwnerInv'
  BY <1>1 DEF OwnerInv, TypeOK, Forget, Closed, Goto
<1>2. ASSUME NEW p \in Proc, NEW b \in BOOLEAN, Start(p, b) PROVE OwnerInv'
  BY <1>2 DEF OwnerInv, TypeOK, Start, Goto, Disciplined
<1>3. ASSUME NEW p \in Proc, Acquire(p) PROVE OwnerInv'
  <2>1. CASE Create(p)
    BY <1>3, <2>1 DEF FilesInv, OwnerInv, TypeOK, Create, Goto, Unused
  <2>2. CASE CreateExists(p)
    BY <2>2 DEF OwnerInv, TypeOK, CreateExists, Goto
  <2>3. CASE FlockNew(p)
    BY <2>3 DEF OwnerInv, TypeOK, FlockNew, Goto
  <2>4. CASE WriteRecord(p)
    BY <2>4 DEF OwnerInv, TypeOK, WriteRecord, Goto
  <2>5. CASE ReadLock(p)
    BY <2>5 DEF OwnerInv, TypeOK, ReadLock, Goto
  <2>6. CASE JudgeStale(p)
    BY <2>6 DEF OwnerInv, TypeOK, JudgeStale, Goto
  <2> QED
    BY <1>3, <1>1, <2>1, <2>2, <2>3, <2>4, <2>5, <2>6
       DEF Acquire, FlockNewRefused, WriteRecordFails, ReadNothing, JudgeRefused, Refused
<1>4. ASSUME NEW p \in Proc, Break(p) PROVE OwnerInv'
  <2>1. CASE OpenStale(p)
    BY <2>1 DEF OwnerInv, TypeOK, OpenStale, Goto
  <2>2. CASE TryStale(p)
    BY <2>2 DEF OwnerInv, TypeOK, TryStale, Goto
  <2>3. CASE UnlinkStale(p)
    BY <2>3 DEF OwnerInv, TypeOK, UnlinkStale, Closed, Goto
  <2> QED
    BY <1>4, <1>1, <2>1, <2>2, <2>3 DEF Break, OpenGone, TryAlive, UnlinkGone, Refused
<1>5. ASSUME NEW p \in Proc, Hold(p) PROVE OwnerInv'
  BY <1>5 DEF OwnerInv, TypeOK, Hold, VerifyOk, VerifyFails, Mutate, Release, Goto
<1>6. ASSUME NEW p \in Proc, Drop(p) PROVE OwnerInv'
  <2>1. CASE Join(p)
    BY <2>1 DEF OwnerInv, TypeOK, Join, Goto
  <2>2. CASE DropOurs(p)
    BY <2>2 DEF OwnerInv, TypeOK, DropOurs, Goto
  <2>3. CASE DropUnlink(p)
    BY <2>3 DEF FilesInv, OwnerInv, TypeOK, DropUnlink, Forget, Closed, Goto
  <2> QED
    BY <1>6, <1>1, <2>1, <2>2, <2>3 DEF Drop, DropNotOurs, Refused
<1>7. ASSUME NEW p \in Proc, Refresh(p) PROVE OwnerInv'
  BY <1>7 DEF OwnerInv, TypeOK, Refresh, RefreshCheck, RefreshLost, RefreshTruncate,
              RefreshWrite, RefreshFails
<1>8. ASSUME NEW p \in Proc, Crash(p) PROVE OwnerInv'
  BY <1>8, <1>1 DEF Crash
<1>9. CASE Tick \/ UNCHANGED vars
  BY <1>9 DEF OwnerInv, Tick, vars
<1> QED
  BY <1>2, <1>3, <1>4, <1>5, <1>6, <1>7, <1>8, <1>9 DEF Next

LEMMA OwnerInvariant == Disciplined => (Spec => []OwnerInv)
<1>1. Init => OwnerInv
  BY DEF Init, OwnerInv, Made, Creating, Breaking, Keeping
<1>2. ASSUME Disciplined
      PROVE  TypeOK /\ FilesInv /\ OwnerInv /\ [Next]_vars => OwnerInv'
  BY <1>2, OwnerInvStep
<1>3. CASE Disciplined
  BY <1>1, <1>2, <1>3, TypeCorrect, FilesInvariant, PTL DEF Spec
<1> QED
  BY <1>3

\* Two jobs never hold the lock of a set at once, for any number of jobs,
\* hosts, crashes and pauses.
THEOREM Exclusion == Disciplined => (Spec => []MutualExclusion)
<1>1. FilesInv /\ OwnerInv => MutualExclusion
  BY DEF FilesInv, OwnerInv, MutualExclusion, Holding, Made, Creating, Keeping
<1> QED
  BY <1>1, OwnerInvariant, FilesInvariant, PTL

\* A publication or deletion, however late after its verification, is made by
\* the job whose file still is the set lock.
THEOREM WritersOwnTheSet == Disciplined => (Spec => MutateWhileOwning)
<1>1. OwnerInv => [\A p \in Proc : Mutate(p) => StillOurs(p)]_vars
  BY DEF OwnerInv, Mutate, StillOurs, Made, Creating, Keeping
<1> QED
  BY <1>1, OwnerInvariant, PTL DEF MutateWhileOwning

LEMMA HolderKeepsItsFile ==
  ASSUME TypeOK, [Next]_vars, NEW p \in Proc, Holding(p), Holding(p)'
  PROVE  fd'[p] = fd[p]
<1> USE DEF Creating, Breaking, Keeping, Holding
<1>1. ASSUME NEW q \in Proc, Forget(q) PROVE fd'[p] = fd[p]
  BY <1>1 DEF Forget, Goto, Closed, TypeOK
<1>2. ASSUME NEW q \in Proc, NEW b \in BOOLEAN, Start(q, b) PROVE fd'[p] = fd[p]
  BY <1>2 DEF Start
<1>3. ASSUME NEW q \in Proc, Acquire(q) PROVE fd'[p] = fd[p]
  BY <1>1, <1>3
     DEF Acquire, Create, CreateExists, FlockNew, FlockNewRefused, WriteRecord,
         WriteRecordFails, ReadLock, ReadNothing, JudgeStale, JudgeRefused, Refused,
         Goto, TypeOK
<1>4. ASSUME NEW q \in Proc, Break(q) PROVE fd'[p] = fd[p]
  BY <1>1, <1>4
     DEF Break, OpenStale, OpenGone, TryStale, TryAlive, UnlinkStale, UnlinkGone,
         Refused, Closed, Goto, TypeOK
<1>5. ASSUME NEW q \in Proc, Hold(q) \/ Refresh(q) PROVE fd'[p] = fd[p]
  BY <1>5
     DEF Hold, VerifyOk, VerifyFails, Mutate, Release, Refresh, RefreshCheck,
         RefreshLost, RefreshTruncate, RefreshWrite, RefreshFails
<1>6. ASSUME NEW q \in Proc, Drop(q) \/ Crash(q) PROVE fd'[p] = fd[p]
  BY <1>1, <1>6 DEF Drop, Join, DropOurs, DropNotOurs, DropUnlink, Crash, Refused
<1>7. CASE Tick \/ UNCHANGED vars
  BY <1>7 DEF Tick, vars
<1> QED
  BY <1>2, <1>3, <1>4, <1>5, <1>6, <1>7 DEF Next

\* What the comment on `LocalDestination::acquire` promises of a live holder,
\* paused or not, is true as long as locks are broken the way the operator
\* guide says: `set.lock` does not change under it.
THEOREM HolderKeepsLock == Disciplined => (Spec => LiveHolderKeepsLock)
<1>1. ASSUME TypeOK, OwnerInv, OwnerInv', [Next]_vars, NEW p \in Proc,
             Holding(p), Holding(p)'
      PROVE  path' = path
  <2>1. fd'[p] = fd[p]
    BY <1>1, HolderKeepsItsFile
  <2>2. path = fd[p] /\ path' = fd'[p]
    BY <1>1 DEF OwnerInv, Holding, Made
  <2> QED
    BY <2>1, <2>2
<1>2. TypeOK /\ OwnerInv /\ OwnerInv' /\ [Next]_vars =>
        [\A p \in Proc : (Holding(p) /\ StillOurs(p) /\ Holding(p)') => path' = path]_vars
  BY <1>1
<1> QED
  BY <1>2, TypeCorrect, OwnerInvariant, PTL DEF Spec, LiveHolderKeepsLock

-----------------------------------------------------------------------------
(***************************************************************************)
(* Refinement.                                                             *)
(***************************************************************************)
Owners == {p \in Proc : Owns(p)}

\* Under the invariants there is at most one owner, and its file is there.
LEMMA OwnersAre ==
  ASSUME FilesInv, OwnerInv
  PROVE  /\ Owners = {p \in Proc : pc[p] \in Made}
         /\ \A p, q \in Proc : pc[p] \in Made /\ pc[q] \in Made => p = q
         /\ \A p \in Proc : pc[p] \in Made => path # None
<1>1. Owners = {p \in Proc : pc[p] \in Made}
  BY DEF Owners, Owns, Made
<1> QED
  BY <1>1 DEF FilesInv, OwnerInv, Made, Opened

LEMMA MutexStep ==
  ASSUME Disciplined, TypeOK, FilesInv, OwnerInv, FilesInv', OwnerInv', [Next]_vars
  PROVE  [Mutex!Next]_<<path # None, Owners>>
<1> USE InodeAssumption DEF Creating, Breaking, Keeping, Opened, Made, None, Running
<1>0. /\ Owners = {p \in Proc : pc[p] \in Made}
      /\ Owners' = {p \in Proc : pc'[p] \in Made}
      /\ \A p, q \in Proc : pc[p] \in Made /\ pc[q] \in Made => p = q
      /\ \A p \in Proc : pc[p] \in Made => path # None
  <2>1. Owners' = {p \in Proc : pc'[p] \in Made}
    BY DEF Owners, Owns
  <2> QED
    BY <2>1, OwnersAre
<1>1. ASSUME path' = path, Owners' = Owners
      PROVE  [Mutex!Next]_<<path # None, Owners>>
  BY <1>1
<1>2. ASSUME NEW p \in Proc, Forget(p), path' = path
      PROVE  [Mutex!Next]_<<path # None, Owners>>
  <2>1. CASE pc[p] \in Made
    <3>1. Owners = {p} /\ Owners' = {}
      BY <1>0, <1>2, <2>1 DEF Forget, Goto, TypeOK
    <3> QED
      BY <1>2, <3>1 DEF Mutex!Next, Mutex!Die, Owners
  <2>2. CASE pc[p] \notin Made
    <3>1. Owners' = Owners
      BY <1>0, <1>2, <2>2 DEF Forget, Goto, TypeOK
    <3> QED
      BY <1>1, <1>2, <3>1
  <2> QED
    BY <2>1, <2>2
<1>3. ASSUME NEW p \in Proc, Create(p) PROVE [Mutex!Next]_<<path # None, Owners>>
  <2>1. Owners' = {p}
    BY <1>0, <1>3 DEF Create, Goto, TypeOK
  <2>2. path = None /\ path' # None
    BY <1>3 DEF Create
  <2> QED
    BY <2>1, <2>2 DEF Mutex!Next, Mutex!Take, Owners
<1>4. ASSUME NEW p \in Proc, UnlinkStale(p) PROVE [Mutex!Next]_<<path # None, Owners>>
  <2>1. Owners = {} /\ Owners' = {}
    BY <1>0, <1>4 DEF UnlinkStale, Goto, TypeOK, OwnerInv
  <2>2. path # None /\ path' = None
    BY <1>4 DEF UnlinkStale
  <2> QED
    BY <2>1, <2>2 DEF Mutex!Next, Mutex!Break, Owners
<1>5. ASSUME NEW p \in Proc, DropUnlink(p) PROVE [Mutex!Next]_<<path # None, Owners>>
  <2>1. Owners = {p} /\ Owners' = {}
    BY <1>0, <1>5 DEF DropUnlink, Forget, Goto, TypeOK
  <2>2. path' = None
    BY <1>5 DEF DropUnlink
  <2> QED
    BY <2>1, <2>2 DEF Mutex!Next, Mutex!Leave, Owners
<1>6. ASSUME NEW p \in Proc, NEW b \in BOOLEAN, Start(p, b)
      PROVE  path' = path /\ Owners' = Owners
  BY <1>0, <1>6 DEF Start, Goto, TypeOK
<1>7. ASSUME NEW p \in Proc,
             CreateExists(p) \/ FlockNew(p) \/ WriteRecord(p) \/ ReadLock(p) \/ JudgeStale(p)
      PROVE  path' = path /\ Owners' = Owners
  BY <1>0, <1>7
     DEF CreateExists, FlockNew, WriteRecord, ReadLock, JudgeStale, Goto, TypeOK
<1>8. ASSUME NEW p \in Proc, OpenStale(p) \/ TryStale(p) \/ Hold(p) \/ Join(p) \/ DropOurs(p)
      PROVE  path' = path /\ Owners' = Owners
  BY <1>0, <1>8
     DEF OpenStale, TryStale, Hold, VerifyOk, VerifyFails, Mutate, Release, Join,
         DropOurs, Goto, TypeOK
<1>9. ASSUME NEW p \in Proc, Refresh(p) PROVE path' = path /\ Owners' = Owners
  BY <1>0, <1>9 DEF Refresh, RefreshCheck, RefreshLost, RefreshTruncate, RefreshWrite,
                    RefreshFails
<1>10. CASE Tick \/ UNCHANGED vars
  BY <1>0, <1>1, <1>10 DEF Tick, vars
<1>11. ASSUME NEW p \in Proc, Acquire(p) PROVE [Mutex!Next]_<<path # None, Owners>>
  BY <1>1, <1>2, <1>3, <1>7, <1>11
     DEF Acquire, FlockNewRefused, WriteRecordFails, ReadNothing, JudgeRefused, Refused
<1>12. ASSUME NEW p \in Proc, Break(p) PROVE [Mutex!Next]_<<path # None, Owners>>
  BY <1>1, <1>2, <1>4, <1>8, <1>12 DEF Break, OpenGone, TryAlive, UnlinkGone, Refused
<1>13. ASSUME NEW p \in Proc, Drop(p) PROVE [Mutex!Next]_<<path # None, Owners>>
  BY <1>1, <1>2, <1>5, <1>8, <1>13 DEF Drop, DropNotOurs, Refused
<1>14. ASSUME NEW p \in Proc, Crash(p) PROVE [Mutex!Next]_<<path # None, Owners>>
  BY <1>2, <1>14 DEF Crash
<1> QED
  BY <1>1, <1>6, <1>8, <1>9, <1>10, <1>11, <1>12, <1>13, <1>14 DEF Next

\* The lock file implements the mutex the engine's jobs rely on: it passes
\* from its owner only by the owner's own release, and is broken only after
\* its owner is gone.
THEOREM LockFileIsAMutex == Disciplined => (Spec => ImplementsMutex)
<1>1. Init => Mutex!Init
  BY DEF Init, Mutex!Init, Owns, Creating, Keeping
<1>2. ASSUME Disciplined
      PROVE  /\ TypeOK /\ FilesInv /\ OwnerInv /\ FilesInv' /\ OwnerInv' /\ [Next]_vars
             => [Mutex!Next]_<<path # None, {p \in Proc : Owns(p)}>>
  BY <1>2, MutexStep DEF Owners
<1>3. CASE Disciplined
  BY <1>1, <1>2, <1>3, TypeCorrect, FilesInvariant, OwnerInvariant, PTL
     DEF Spec, ImplementsMutex, Mutex!Spec
<1> QED
  BY <1>3
==============================================================================
