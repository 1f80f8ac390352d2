------------------------------ MODULE BackupSet ------------------------------
(***************************************************************************)
(* One backup set and the jobs that change it: backup                      *)
(* (crates/lr-engine/src/backup.rs, backup_plan.rs), retention             *)
(* (retention.rs), verification with its record in the catalog (verify.rs) *)
(* and catalog rebuild, over the catalog functions of catalog.rs.          *)
(*                                                                         *)
(* The images are the truth and catalog.json is a cache of them: every job *)
(* reads the superblocks again under the set lock.  The lock is the mutex  *)
(* of module SetMutex, which SetLock implements; a dead holder's lock is   *)
(* free again here once it has been broken.                                *)
(*                                                                         *)
(* Images are numbered in the order of their publication, and a chain is   *)
(* known by the number of its full.  Its chain id is random: ChainId says  *)
(* how ids compare.  Damage never changes a file's size, so the            *)
(* comparisons of same_records and carry_verification do not notice it.    *)
(***************************************************************************)
EXTENDS Naturals, Sequences, FiniteSets

CONSTANTS Job,            \* jobs on this set: daemon, CLI and timer runs
          KeepChains,     \* RetentionOptions::keep_chains
          MaxIncrementals,\* max_incrementals_per_chain, 0 for no limit
          ChainId,        \* the chain id a full image gets, as a rank
          Transient,      \* reading a superblock may fail for a moment
          MaxImages,      \* bound on images published
          MaxClock,       \* bound on the seconds that pass
          MaxDamage       \* bound on damaged files

ASSUME SetAssumption ==
          /\ KeepChains \in Nat /\ MaxIncrementals \in Nat
          /\ Transient \in BOOLEAN
          /\ MaxImages \in Nat /\ MaxClock \in Nat /\ MaxDamage \in Nat
          /\ ChainId \in [1 .. MaxImages -> Nat]
          /\ \A i, k \in 1 .. MaxImages : i # k => ChainId[i] # ChainId[k]
          /\ "nobody" \notin Job

Image == 1 .. MaxImages
None == 0
Nobody == "nobody"

VARIABLES
  sb,       \* the superblock of every image ever published
  files,    \* the images whose file is in the set
  damage,   \* what is wrong with each file
  catalog,  \* catalog.json: its members, and those with a verified_unix
  clock,    \* now_unix()
  lock,     \* the job that holds the set lock
  pc,       \* where each job is
  plan,     \* a backup's ResolvedBackupPlan: the superblock it will write
  ret,      \* a retention run's decision and what it still has to delete
  target,   \* the image a verification read
  earned    \* history: images a successful verification has read in full

vars == <<sb, files, damage, catalog, clock, lock, pc, plan, ret, target, earned>>

Superblock == [chain : Image, seq : 0 .. MaxImages, parent : Image \cup {None},
               created : 0 .. MaxClock]
Catalog == [members : SUBSET Image, verified : SUBSET Image]
Damage == {"none", "payload", "footer", "superblock"}

NoPlan == [chain |-> None]
NoRetention == [doomed |-> {}]
NoCatalog == [members |-> {}, verified |-> {}]

Init ==
  /\ sb = << >> /\ files = {}
  /\ damage = [i \in Image |-> "none"]
  /\ catalog = NoCatalog
  /\ clock = 0 /\ lock = Nobody
  /\ pc = [j \in Job |-> "idle"]
  /\ plan = [j \in Job |-> NoPlan]
  /\ ret = [j \in Job |-> NoRetention]
  /\ target = [j \in Job |-> None]
  /\ earned = {}

-----------------------------------------------------------------------------
(***************************************************************************)
(* Reading the set.                                                        *)
(***************************************************************************)

\* The images whose superblock decodes.
Visible == {i \in files : damage[i] # "superblock"}

\* What one `scan_set` may return: a member whose superblock cannot be read
\* is skipped with a warning, whether it is damaged or its read failed.
Scans == IF Transient THEN SUBSET Visible ELSE {Visible}

Chains(S) == {sb[i].chain : i \in S}
Members(S, c) == {i \in S : sb[i].chain = c}
Seqs(M) == {sb[i].seq : i \in M}

\* One member at each sequence number from 0 on: `ChainRecord::is_complete`
\* on the members of a chain, and the test of `resolve_chain` on those up to
\* the wanted one.
NoGaps(M) == M # {} /\ Seqs(M) = 0 .. Cardinality(M) - 1

Complete(S) == {c \in Chains(S) : NoGaps(Members(S, c))}

\* `build_catalog` dates a chain by the oldest member it found.
CreatedOf(S, c) ==
  LET t == {sb[i].created : i \in Members(S, c)}
  IN  CHOOSE m \in t : \A n \in t : m <= n

Latest(S, c) ==
  CHOOSE i \in Members(S, c) : \A k \in Members(S, c) : sb[k].seq <= sb[i].seq

\* `load`: the scanned members; verification records stay with their images.
Load(S) == [members |-> S, verified |-> catalog.verified \cap S]

Ancestry(S, i) == {k \in Members(S, sb[i].chain) : sb[k].seq <= sb[i].seq}

\* Reading every payload of a recovery point's ancestry succeeds.
ReadsBack(S, i) ==
  /\ i \in S
  /\ NoGaps(Ancestry(S, i))
  /\ \A k \in Ancestry(S, i) : damage[k] = "none"

\* What a restore can bring back now.
Restorable(i) == ReadsBack(Visible, i)

-----------------------------------------------------------------------------
(***************************************************************************)
(* Jobs.                                                                   *)
(***************************************************************************)
Goto(j, label) == pc' = [pc EXCEPT ![j] = label]

\* A job ends: its lock goes, its memory is forgotten.
Ended(j) ==
  /\ Goto(j, "idle")
  /\ lock' = IF lock = j THEN Nobody ELSE lock
  /\ plan' = [plan EXCEPT ![j] = NoPlan]
  /\ ret' = [ret EXCEPT ![j] = NoRetention]
  /\ target' = [target EXCEPT ![j] = None]

\* Mutant: the job starts without looking at the lock.
AcquireAnyway(j, label) ==
  /\ pc[j] = "idle"
  /\ lock' = j
  /\ Goto(j, label)
  /\ UNCHANGED <<sb, files, damage, catalog, clock, plan, ret, target, earned>>

\* `acquire_set_lock_for`; a job that finds the set locked ends at once.
Acquire(j, label) ==
  /\ pc[j] = "idle"
  /\ lock = Nobody
  /\ lock' = j
  /\ Goto(j, label)
  /\ UNCHANGED <<sb, files, damage, catalog, clock, plan, ret, target, earned>>

\* Any error, a cancellation, a lost lease or a kill: the job changes nothing
\* more.  A backup that ends here after publishing still reports success.
Abort(j) ==
  /\ pc[j] # "idle"
  /\ Ended(j)
  /\ UNCHANGED <<sb, files, damage, catalog, clock, earned>>

-----------------------------------------------------------------------------
(***************************************************************************)
(* Backup.                                                                 *)
(***************************************************************************)

Planned(j, chain, seq, parent) ==
  /\ plan' = [plan EXCEPT ![j] = [chain |-> chain, seq |-> seq, parent |-> parent,
                                  created |-> clock]]
  /\ Goto(j, "publish")
  /\ UNCHANGED <<sb, files, damage, catalog, clock, lock, ret, target, earned>>

PlanFull(j) ==
  /\ pc[j] = "plan"
  /\ Len(sb) < MaxImages
  /\ Planned(j, None, 0, None)

\* `latest_member`: the newest complete chain, unless two share its second.
LatestParents(S) ==
  {Latest(S, c) : c \in {d \in Complete(S) :
     \A e \in Complete(S) \ {d} : CreatedOf(S, e) < CreatedOf(S, d)}}

\* `resolve_parent`: --parent latest, or the named tail of a complete chain.
Parents(S) == LatestParents(S) \cup {Latest(S, c) : c \in Complete(S)}

\* Mutant: one member more than the limit.
ChainIsFullLate(S, c) ==
  MaxIncrementals > 0 /\ Cardinality({i \in Members(S, c) : sb[i].seq > 0}) > MaxIncrementals

ChainIsFull(S, c) ==
  MaxIncrementals > 0 /\ Cardinality({i \in Members(S, c) : sb[i].seq > 0}) >= MaxIncrementals

\* An incremental or differential: the next member of the parent's chain, or
\* a fresh full when that chain has reached its limit.
PlanMember(j) ==
  /\ pc[j] = "plan"
  /\ Len(sb) < MaxImages
  /\ \E S \in Scans : \E p \in Parents(S) :
       IF ChainIsFull(S, sb[p].chain)
       THEN Planned(j, None, 0, None)
       ELSE Planned(j, sb[p].chain, sb[p].seq + 1, p)

\* `lock.verify` and `publish_new`; the file name holds the new image's UUID,
\* so it never collides, and a full brings a fresh chain id.
Publish(j) ==
  /\ pc[j] = "publish"
  /\ Len(sb) < MaxImages
  /\ sb' = Append(sb, IF plan[j].seq = 0 THEN [plan[j] EXCEPT !.chain = Len(sb) + 1]
                      ELSE plan[j])
  /\ files' = files \cup {Len(sb) + 1}
  /\ Goto(j, "record")
  /\ UNCHANGED <<damage, catalog, clock, lock, plan, ret, target, earned>>

\* `record_published`, and the end of the backup.
RecordPublished(j) ==
  /\ pc[j] = "record"
  /\ \E S \in Scans : catalog' = Load(S)
  /\ Ended(j)
  /\ UNCHANGED <<sb, files, damage, clock, earned>>

-----------------------------------------------------------------------------
(***************************************************************************)
(* Retention (`apply`).                                                    *)
(***************************************************************************)

KeepCount == IF KeepChains > 0 THEN KeepChains ELSE 1

\* Mutant: oldest first.
NewerSwapped(S, c, d) ==
  \/ CreatedOf(S, c) < CreatedOf(S, d)
  \/ CreatedOf(S, c) = CreatedOf(S, d) /\ ChainId[c] < ChainId[d]

\* Newest first, ties broken on the chain id.
Newer(S, c, d) ==
  \/ CreatedOf(S, c) > CreatedOf(S, d)
  \/ CreatedOf(S, c) = CreatedOf(S, d) /\ ChainId[c] > ChainId[d]

\* The first k chains of U, newest first.
NewestOf(S, U, k) == {c \in U : Cardinality({d \in U : Newer(S, d, c)}) < k}

\* Complete, and the footer and layout of every member parse.
Usable(S) ==
  {c \in Complete(S) : \A i \in Members(S, c) : damage[i] # "footer"}

\* `verify_replacement`: every payload of the chain reads back.  A read that
\* fails for a moment would only make retention keep or refuse more.
Passes(S, c) == ReadsBack(Visible, Latest(S, c))

\* `verify_newest` reads chains, newest first, until KeepCount have passed.
Tried(S) ==
  {c \in Usable(S) :
     Cardinality({d \in Usable(S) : Newer(S, d, c) /\ Passes(S, d)}) < KeepCount}

Verified(M, marks) == M # {} /\ M \subseteq marks

\* The newest KeepCount chains, and the newest verified one if none of them is.
Kept(S, U, marks) ==
  LET first == NewestOf(S, U, KeepCount)
      known == {c \in U : Verified(Members(S, c), marks)}
  IN  IF first \cap known # {} THEN first
      ELSE first \cup NewestOf(S, known, 1)

\* Usable chains beyond the kept ones, and incomplete chains that are not
\* newer than the newest usable one.  Complete chains that are damaged stay.
Doomed(S, U, kept) ==
  (U \ kept)
    \cup {c \in Chains(S) \ Complete(S) :
            \E d \in NewestOf(S, U, 1) : CreatedOf(S, c) <= CreatedOf(S, d)}

\* Mutant: verification timestamps of the catalog authorise deletion.
AuthorisedByMarks(doomed, passed, kept) == TRUE

\* Nothing is deleted unless a kept chain has just been read back.
Authorised(doomed, passed, kept) == doomed # {} => passed \cap kept # {}

\* The decision, up to the first deletion.  `vf` is verify_first.  Without it
\* the kept chains are read in turn until one passes.
Select(j, vf) ==
  /\ pc[j] = "select"
  /\ \E S \in Scans :
       LET passed == {c \in Tried(S) : Passes(S, c)}
           U == IF vf THEN Usable(S) \ (Tried(S) \ passed) ELSE Usable(S)
           read == IF vf THEN UNION {Members(S, c) : c \in passed} ELSE {}
           marks == Load(S).verified \cup read
           kept == Kept(S, U, marks)
           doomed == Doomed(S, U, kept)
           able == IF vf THEN passed ELSE {c \in kept : Passes(S, c)}
       IN  /\ Authorised(doomed, able, kept)
           /\ ret' = [ret EXCEPT ![j] =
                [kept |-> kept, doomed |-> doomed, passed |-> able,
                 left |-> {i \in S : sb[i].chain \in doomed},
                 cat |-> [members |-> S, verified |-> marks]]]
           /\ earned' = earned \cup read
  /\ Goto(j, "delete")
  /\ UNCHANGED <<sb, files, damage, catalog, clock, lock, plan, target>>

\* The oldest chain first, a chain's full first.  Chains of the same second
\* keep the order of the two lists they were put together from.
Before(S, m, n) ==
  LET c == sb[m].chain
      d == sb[n].chain
  IN  IF c = d THEN sb[m].seq < sb[n].seq
      ELSE \/ CreatedOf(S, c) < CreatedOf(S, d)
           \/ /\ CreatedOf(S, c) = CreatedOf(S, d)
              /\ \/ c \in Complete(S) /\ d \notin Complete(S)
                 \/ c \in Complete(S) /\ d \in Complete(S) /\ ChainId[c] > ChainId[d]
                 \/ c \notin Complete(S) /\ d \notin Complete(S) /\ ChainId[c] < ChainId[d]

\* One file: `lock.verify`, then `delete`.
Delete(j) ==
  /\ pc[j] = "delete"
  /\ \E m \in ret[j].left :
       /\ \A n \in ret[j].left \ {m} : ~ Before(ret[j].cat.members, n, m)
       /\ files' = files \ {m}
       /\ ret' = [ret EXCEPT ![j].left = @ \ {m}]
  /\ UNCHANGED <<sb, damage, catalog, clock, lock, pc, plan, target, earned>>

\* The catalog without the deleted chains is written last.  A dry run ends
\* without deleting or writing anything: that is Abort.
Finish(j) ==
  /\ pc[j] = "delete"
  /\ ret[j].left = {}
  /\ LET rest == {i \in ret[j].cat.members : sb[i].chain \notin ret[j].doomed}
     IN  catalog' = [members |-> rest, verified |-> ret[j].cat.verified \cap rest]
  /\ Ended(j)
  /\ UNCHANGED <<sb, files, damage, clock, earned>>

-----------------------------------------------------------------------------
(***************************************************************************)
(* Verification (`verify --chain`) reads without the lock and then records *)
(* what it found under it; catalog rebuild.                                *)
(***************************************************************************)

VerifyImage(j, i) ==
  /\ pc[j] = "idle"
  /\ \E S \in Scans :
       /\ ReadsBack(S, i)
       /\ earned' = earned \cup Ancestry(S, i)
  /\ target' = [target EXCEPT ![j] = i]
  /\ Goto(j, "mark")
  /\ UNCHANGED <<sb, files, damage, catalog, clock, lock, plan, ret>>

\* A set that is locked is not waited for: the record is skipped, by Abort.
LockToMark(j) ==
  /\ pc[j] = "mark"
  /\ lock = Nobody
  /\ lock' = j
  /\ Goto(j, "marking")
  /\ UNCHANGED <<sb, files, damage, catalog, clock, plan, ret, target, earned>>

\* Mutant: the whole chain is marked, newer members included.
MarkedChain(S, i) == Members(S, sb[i].chain)

\* The members `resolve_chain` finds now, which need not be those that the
\* verification read.
Marked(S, i) == Ancestry(S, i)

RecordVerification(j) ==
  /\ pc[j] = "marking"
  /\ \E S, R \in Scans :
       /\ target[j] \in R
       /\ NoGaps(Ancestry(R, target[j]))
       /\ catalog' = [members |-> S,
                      verified |-> Load(S).verified \cup (S \cap Marked(R, target[j]))]
  /\ Ended(j)
  /\ UNCHANGED <<sb, files, damage, clock, earned>>

RebuildCatalog(j) ==
  /\ pc[j] = "rebuild"
  /\ \E S \in Scans : catalog' = Load(S)
  /\ Ended(j)
  /\ UNCHANGED <<sb, files, damage, clock, earned>>

-----------------------------------------------------------------------------
(***************************************************************************)
(* The environment: time, and the destination.                             *)
(***************************************************************************)

Tick ==
  /\ clock < MaxClock
  /\ clock' = clock + 1
  /\ UNCHANGED <<sb, files, damage, catalog, lock, pc, plan, ret, target, earned>>

\* A file goes bad.
Decay(i) ==
  /\ i \in files
  /\ damage[i] = "none"
  /\ Cardinality({k \in Image : damage[k] # "none"}) < MaxDamage
  /\ \E d \in Damage \ {"none"} : damage' = [damage EXCEPT ![i] = d]
  /\ UNCHANGED <<sb, files, catalog, clock, lock, pc, plan, ret, target, earned>>

\* The cache is lost, does not parse or cannot be read.
LoseCatalog ==
  /\ catalog' = NoCatalog
  /\ UNCHANGED <<sb, files, damage, clock, lock, pc, plan, ret, target, earned>>

Backup(j) ==
  Acquire(j, "plan") \/ PlanFull(j) \/ PlanMember(j) \/ Publish(j) \/ RecordPublished(j)
Retention(j) ==
  Acquire(j, "select") \/ (\E vf \in BOOLEAN : Select(j, vf)) \/ Delete(j) \/ Finish(j)
Verification(j) ==
  (\E i \in Image : VerifyImage(j, i)) \/ LockToMark(j) \/ RecordVerification(j)
Rebuild(j) == Acquire(j, "rebuild") \/ RebuildCatalog(j)

Next ==
  \/ \E j \in Job : Backup(j) \/ Retention(j) \/ Verification(j) \/ Rebuild(j) \/ Abort(j)
  \/ Tick \/ (\E i \in Image : Decay(i)) \/ LoseCatalog

Spec == Init /\ [][Next]_vars

-----------------------------------------------------------------------------
(***************************************************************************)
(* Properties.                                                             *)
(***************************************************************************)

\* A backup that publishes takes nothing away and adds a recovery point: what
\* could be restored before still can, and the new image can be restored if
\* its parent could.  Two jobs that resolve the same parent, or a parent that
\* is not its chain's last member, would put two members at one sequence
\* number and make both unreadable to `resolve_chain`.
PublishAddsARecoveryPoint ==
  [][\A j \in Job : Publish(j) =>
       /\ \A i \in files : Restorable(i) => Restorable(i)'
       /\ \A new \in files' \ files :
            (plan[j].seq = 0 \/ Restorable(plan[j].parent)) => Restorable(new)']_vars

\* max_incrementals_per_chain bounds the members a restore has to walk, also
\* when several jobs extend the chain or its last member is damaged.
ChainsAreBounded ==
  MaxIncrementals > 0 =>
    \A c \in Chains(Visible) :
      Cardinality({i \in Members(Visible, c) : sb[i].seq > 0}) <= MaxIncrementals

\* While retention deletes, a chain that this very run has read back keeps
\* every one of its files (D-125): no deletion outruns its authority.
DeletionIsAuthorised ==
  [][\A j \in Job : Delete(j) =>
       \E c \in ret[j].passed : Members(ret[j].cat.members, c) \subseteq files']_vars

\* Retention takes a file only from an incomplete chain, or from one that has
\* KeepCount others at least as new, each of them complete and with all its
\* files still there: chains with missing members displace none, also when
\* runs overlap or stopped halfway, and keep_chains = 0 keeps one.  It says
\* nothing of what the kept files hold: retention reads back one chain
\* (DeletionIsAuthorised) and takes the others by their headers.
KeepsTheNewest ==
  [][\A j \in Job : Delete(j) =>
       \A m \in files \ files' :
         LET S == ret[j].cat.members
             c == sb[m].chain
             better == {d \in Complete(S) \ {c} : sb[d].created >= sb[c].created
                                                  /\ Members(S, d) \subseteq files'}
         IN  c \in Complete(S) => Cardinality(better) >= KeepCount]_vars

\* Retention never gives up the last chain known to be restorable for newer
\* ones that were never verified (R20): who deletes from a chain whose members
\* are all recorded as verified keeps another such chain.
LastVerifiedStays ==
  [][\A j \in Job : Delete(j) =>
       \A m \in files \ files' :
         LET S == ret[j].cat.members
             marks == ret[j].cat.verified
             known == {c \in Complete(S) : Verified(Members(S, c), marks)}
         IN  sb[m].chain \in known =>
               \E c \in known : c # sb[m].chain /\ Members(S, c) \subseteq files']_vars

\* What retention leaves: the files of the newest complete chains, and the
\* last chain recorded as verified.
RetentionKeeps == KeepsTheNewest /\ LastVerifiedStays

\* A verified_unix in the catalog was earned: a verification has read that
\* very image in full.  Nothing carries it over to another member, although
\* the chain is resolved again, later, when the result is recorded.
MarksWereEarned == catalog.verified \subseteq earned
=============================================================================
