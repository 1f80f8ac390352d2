-------------------------- MODULE DestinationProofs ---------------------------
(***************************************************************************)
(* What a destination promises: that an operation works on the one it was  *)
(* given (Destinations), that the files of a local one are safe            *)
(* (LocalFiles), and that publication on a remote one neither loses nor    *)
(* overwrites what is published (Publish); for any number of workers,      *)
(* jobs, directories, attempts, mounts and lost answers.                   *)
(***************************************************************************)
EXTENDS Publish, LocalFiles, Destinations, FiniteSetTheorems, FunctionTheorems,
        WellFoundedInduction, TLAPS

-------------------------------------------------------------------------------
(***************************************************************************)
(* Opening a destination, for any registry entries, callers, known_hosts   *)
(* files, logins, keys, mounts and calls.                                  *)
(*                                                                         *)
(* The mount check compares numbers that it looks up one after the other.  *)
(* The invariant says that the numbers it holds are pinned by descriptors  *)
(* (PinsHeld) and that a mount which has the observed number is therefore  *)
(* the observed mount (Observed); the cardinality of the pinned and the used *)
(* numbers shows that the kernel always has a free one.  For the retries it *)
(* says that an operation which met no stopped server and no refusal lost  *)
(* at most the attempt on the dead session it found (SteadyCall); for the  *)
(* host key, that a session belongs to the destination that is open, and   *)
(* that only the caller's own URI can have waived the key (SessionIsItsOwn). *)
(***************************************************************************)
Targets == {<<>>, <<"m">>, <<"m", "s">>}
FileSystems == {"disk", Share, "other"}
MountRecord == [id : Nat, target : Targets, root : BOOLEAN, fs : FileSystems]
Mounted == {mounts[k] : k \in DOMAIN mounts}

\* The root is mounted first and stays; no two mounts have one ID.
TableOK ==
  /\ mounts \in Seq(MountRecord) /\ mounts # <<>> /\ mounts[1].target = <<>>
  /\ \A m, n \in Mounted : m.id = n.id => m = n

\* The descriptors an operation keeps open, by where it is.
PinsHeld ==
  /\ at = "observe destination" => pins = {seenReq}
  /\ at = "judge" => pins = {seenReq, seenDest}
  /\ at \notin {"observe destination", "judge"} => pins = {}

\* While the descriptor is open, a mount with the ID it showed is the mount it is on.
Observed ==
  at = "judge" => /\ seenDest = seenMount.id
                  /\ \A m \in Mounted : m.id = seenDest => m = seenMount

Checking == {"check path", "resolve required", "resolve destination", "observe required",
             "observe destination", "judge"}

\* What `open` made of the destination, by where the operation is.
DestOK ==
  /\ at \in {"ready", "accepted", "refused"} \cup Checking => dest.path \in Seq(STRING)
  /\ at \in Checking => dest.scheme # "sftp"
  /\ at \in {"opening", "connect", "send"} => dest.scheme = "sftp" /\ dest.path \in Seq(STRING)

\* Resolved paths are paths.
Part == STRING \cup {"l", "m"}
PathsOK == link \in Seq(Part) /\ reqPath \in Seq(Part) /\ destPath \in Seq(Part)

RegistryOK == registry = NoEntry \/ registry.path \in Seq(STRING)

MountInvariant == TableOK /\ PinsHeld /\ Observed /\ DestOK /\ PathsOK /\ AcceptedIsTheShare

-----------------------------------------------------------------------------
LEMMA RangeIsMounted == MountSet = Mounted
BY DEF MountSet, Range, Mounted

Less == {pair \in Nat \X Nat : pair[1] < pair[2]}

LEMMA HasLeast ==
  ASSUME NEW T \in SUBSET Nat, T # {}
  PROVE  \E x \in T : \A y \in T : x <= y
<1>1. IsWellFoundedOn(Less, Nat)
  BY NatLessThanWellFounded, Zenon DEF OpToRel, Less
<1>2. PICK x \in T : \A y \in T : ~ (<<y, x>> \in Less)
  BY <1>1, WFMin
<1>3. ASSUME NEW y \in T PROVE x <= y
  <2>1. x \in Nat /\ y \in Nat /\ <<y, x>> \notin Less
    BY <1>2
  <2>2. ~ (y < x)
    BY <2>1 DEF Less
  <2> QED
    BY <2>1, <2>2
<1> QED
  BY <1>3

LEMMA LeastNatural ==
  ASSUME NEW T \in SUBSET Nat, T # {}
  PROVE  Min(T) \in T
BY HasLeast DEF Min

LEMMA GreatestNatural ==
  ASSUME NEW n \in Nat, NEW T \in SUBSET (1 .. n), T # {}
  PROVE  Max(T) \in T
<1> DEFINE U == {n - k : k \in T}
<1>1. U \in SUBSET Nat
  OBVIOUS
<1>2. PICK t \in T : TRUE
  OBVIOUS
<1>3. n - t \in U
  BY <1>2
<1>4. PICK x \in U : \A y \in U : x <= y
  BY <1>1, <1>3, HasLeast
<1>5. PICK k \in T : x = n - k
  BY <1>4
<1>6. \A j \in T : n - j \in U
  OBVIOUS
<1>7. ASSUME NEW j \in T PROVE k >= j
  <2>1. x <= n - j
    BY <1>4, <1>6, <1>7
  <2>2. k \in Int /\ j \in Int
    BY <1>5, <1>7
  <2> QED
    BY <1>5, <2>1, <2>2
<1> QED
  BY <1>7 DEF Max

LEMMA IntervalSize ==
  ASSUME NEW n \in Nat
  PROVE  IsFiniteSet(1 .. n) /\ Cardinality(1 .. n) = n
<1>1. IsFiniteSet(1 .. n) /\ Cardinality(1 .. n) = IF 1 > n THEN 0 ELSE n - 1 + 1
  BY FS_Interval
<1> QED
  BY <1>1

\* The root covers every path, so that a path is on a mount of the table.
LEMMA VisibleIsMounted ==
  ASSUME TableOK, NEW S, NEW path \in Seq(S)
  PROVE  Visible(path) \in Mounted
<1> DEFINE T == {k \in DOMAIN mounts : Covers(mounts[k], path)}
<1>1. DOMAIN mounts = 1 .. Len(mounts) /\ Len(mounts) \in Nat /\ 1 \in DOMAIN mounts
  BY DEF TableOK
<1>2. Covers(mounts[1], path)
  BY DEF TableOK, Covers, IsPrefix
<1>3. T \in SUBSET (1 .. Len(mounts)) /\ T # {}
  BY <1>1, <1>2
<1>4. Max(T) \in T
  BY <1>1, <1>3, GreatestNatural
<1> QED
  BY <1>4 DEF Visible, Mounted

\* The kernel always has a number that neither a mount nor a descriptor keeps.
LEMMA FreeIdIsFree ==
  ASSUME TableOK, PinsHeld, Len(mounts) < MaxMounts
  PROVE  FreeId \in Nat /\ FreeId \notin Ids
<1> DEFINE N == 1 .. Len(mounts)
           Used == {m.id : m \in MountSet}
           f == [k \in N |-> mounts[k].id]
           Free == (1 .. MaxMounts + 2) \ Ids
<1>1. Len(mounts) \in Nat /\ DOMAIN mounts = N /\ MaxMounts \in Nat
  BY DestinationsAssumption DEF TableOK
<1>2. Used = {mounts[k].id : k \in N}
  BY <1>1, RangeIsMounted DEF Mounted
<1>3. f \in Surjection(N, Used)
  BY <1>2 DEF Surjection
<1>4. IsFiniteSet(N) /\ Cardinality(N) = Len(mounts)
  BY <1>1, IntervalSize
<1>5. IsFiniteSet(Used) /\ Cardinality(Used) <= Len(mounts)
  BY <1>3, <1>4, FS_Surjection
<1>6. \E x, y : pins \subseteq {x, y}
  BY DEF PinsHeld
<1>7. IsFiniteSet(pins) /\ Cardinality(pins) <= 2
  <2>1. PICK x, y : pins \subseteq {x, y}
    BY <1>6
  <2>2. IsFiniteSet({x}) /\ Cardinality({x}) = 1
    BY FS_Singleton
  <2>3. IsFiniteSet({x} \cup {y}) /\ Cardinality({x} \cup {y}) <= 2
    BY <2>2, FS_AddElement
  <2>4. {x} \cup {y} = {x, y}
    OBVIOUS
  <2>5. IsFiniteSet({x, y}) /\ Cardinality({x, y}) <= 2 /\ Cardinality({x, y}) \in Nat
    BY <2>3, <2>4, FS_CardinalityType
  <2>6. IsFiniteSet(pins) /\ Cardinality(pins) <= Cardinality({x, y})
    BY <2>1, <2>5, FS_Subset
  <2> QED
    BY <2>5, <2>6, FS_CardinalityType
<1>8. IsFiniteSet(Ids) /\ Cardinality(Ids) < MaxMounts + 2
  <2>1. IsFiniteSet(Used \cup pins)
        /\ Cardinality(Used \cup pins) = Cardinality(Used) + Cardinality(pins) - Cardinality(Used \cap pins)
    BY <1>5, <1>7, FS_Union
  <2>2. Cardinality(Used) \in Nat /\ Cardinality(pins) \in Nat
    BY <1>5, <1>7, FS_CardinalityType
  <2>3. IsFiniteSet(Used \cap pins)
    BY <1>5, FS_Subset
  <2>4. Cardinality(Used \cap pins) \in Nat
    BY <2>3, FS_CardinalityType
  <2> QED
    BY <1>1, <1>5, <1>7, <2>1, <2>2, <2>4 DEF Ids
<1>9. Free # {}
  <2> SUFFICES ASSUME (1 .. MaxMounts + 2) \subseteq Ids PROVE FALSE
    OBVIOUS
  <2>1. Cardinality(1 .. MaxMounts + 2) = MaxMounts + 2
    BY <1>1, IntervalSize
  <2>2. Cardinality(1 .. MaxMounts + 2) <= Cardinality(Ids)
    BY <1>8, FS_Subset
  <2> QED
    BY <1>1, <1>8, <2>1, <2>2, FS_CardinalityType
<1>10. Min(Free) \in Free
  BY <1>9, LeastNatural
<1> QED
  BY <1>10 DEF FreeId

-----------------------------------------------------------------------------
LEMMA MountStep ==
  ASSUME MountInvariant, NEW target \in Targets, NEW on \in FileSystems, NEW root \in BOOLEAN,
         Mount(target, on, root)
  PROVE  MountInvariant'
<1> DEFINE new == [id |-> FreeId, target |-> target, root |-> root, fs |-> on]
<1>1. FreeId \in Nat /\ FreeId \notin Ids
  BY FreeIdIsFree DEF Mount, MountInvariant
<1>2. mounts \in Seq(MountRecord) /\ mounts # <<>> /\ mounts[1].target = <<>>
  BY DEF MountInvariant, TableOK
<1>3. new \in MountRecord
  BY <1>1 DEF MountRecord
<1>4. mounts' = Append(mounts, new)
  BY DEF Mount
<1>5. mounts' \in Seq(MountRecord) /\ mounts' # <<>> /\ mounts'[1].target = <<>>
  BY <1>2, <1>3, <1>4
<1>6. Mounted' = Mounted \cup {new}
  BY <1>2, <1>4 DEF Mounted
<1>7. \A m \in Mounted : m.id # new.id
  BY <1>1, RangeIsMounted DEF Ids
<1>8. TableOK'
  BY <1>5, <1>6, <1>7 DEF TableOK, MountInvariant
<1>9. Observed'
  <2>1. at' = at /\ seenDest' = seenDest /\ seenMount' = seenMount
    BY DEF Mount, sighted
  <2>2. ASSUME at = "judge" PROVE seenDest # new.id
    BY <1>1, <2>2 DEF MountInvariant, PinsHeld, Ids
  <2> QED
    BY <1>6, <2>1, <2>2 DEF Observed, MountInvariant
<1>10. PinsHeld' /\ DestOK' /\ PathsOK' /\ AcceptedIsTheShare'
  BY DEF Mount, MountInvariant, PinsHeld, DestOK, PathsOK, AcceptedIsTheShare, sighted
<1> QED
  BY <1>8, <1>9, <1>10 DEF MountInvariant

\* What concatenation yields.
LEMMA Concatenation ==
  ASSUME NEW S, NEW a \in Seq(S), NEW b \in Seq(S)
  PROVE  /\ a \o b \in Seq(S) /\ Len(a \o b) = Len(a) + Len(b)
         /\ \A i \in 1 .. Len(a) + Len(b) :
               (a \o b)[i] = IF i <= Len(a) THEN a[i] ELSE b[i - Len(a)]
OBVIOUS

LEMMA UmountStep ==
  ASSUME MountInvariant, NEW k, Umount(k)
  PROVE  MountInvariant'
<1>1. mounts \in Seq(MountRecord) /\ mounts # <<>> /\ mounts[1].target = <<>>
  BY DEF MountInvariant, TableOK
<1>2. k \in 2 .. Len(mounts) /\ mounts' = RemoveAt(mounts, k)
  BY DEF Umount
<1> DEFINE front == SubSeq(mounts, 1, k - 1)
           back == SubSeq(mounts, k + 1, Len(mounts))
<1>3. /\ front \in Seq(MountRecord) /\ Len(front) = k - 1
      /\ \A i \in 1 .. k - 1 : front[i] = mounts[i]
  BY <1>1, <1>2
<1>4. /\ back \in Seq(MountRecord) /\ Len(back) = Len(mounts) - k
      /\ \A i \in 1 .. Len(mounts) - k : back[i] = mounts[k + i]
  BY <1>1, <1>2
<1>5. mounts' = front \o back
  BY <1>2 DEF RemoveAt
<1> HIDE DEF front, back
<1>6. /\ mounts' \in Seq(MountRecord) /\ Len(mounts') = Len(mounts) - 1
      /\ \A i \in 1 .. Len(mounts) - 1 : mounts'[i] = IF i < k THEN mounts[i] ELSE mounts[i + 1]
  <2>1. /\ mounts' \in Seq(MountRecord) /\ Len(mounts') = Len(front) + Len(back)
        /\ \A i \in 1 .. Len(front) + Len(back) :
              mounts'[i] = IF i <= Len(front) THEN front[i] ELSE back[i - Len(front)]
    BY <1>3, <1>4, <1>5, Concatenation
  <2>2. Len(mounts) \in Nat /\ k \in Nat /\ Len(front) + Len(back) = Len(mounts) - 1
    BY <1>1, <1>2, <1>3, <1>4
  <2>3. ASSUME NEW i \in 1 .. Len(mounts) - 1, i < k PROVE mounts'[i] = mounts[i]
    BY <1>3, <2>1, <2>2, <2>3
  <2>4. ASSUME NEW i \in 1 .. Len(mounts) - 1, i >= k PROVE mounts'[i] = mounts[i + 1]
    <3>1. mounts'[i] = back[i - (k - 1)]
      BY <1>3, <2>1, <2>2, <2>4
    <3>2. i - (k - 1) \in 1 .. Len(mounts) - k /\ k + (i - (k - 1)) = i + 1
      BY <2>2, <2>4
    <3> QED
      BY <1>4, <3>1, <3>2
  <2> QED
    BY <2>1, <2>2, <2>3, <2>4
<1>7. mounts' # <<>> /\ mounts'[1].target = <<>>
  BY <1>1, <1>2, <1>6
<1>8. Mounted' \subseteq Mounted
  BY <1>1, <1>2, <1>6 DEF Mounted
<1>9. TableOK'
  BY <1>6, <1>7, <1>8 DEF TableOK, MountInvariant
<1>10. Observed' /\ PinsHeld' /\ DestOK' /\ PathsOK' /\ AcceptedIsTheShare'
  BY <1>8 DEF Umount, MountInvariant, Observed, PinsHeld, DestOK, PathsOK, AcceptedIsTheShare,
     sighted
<1> QED
  BY <1>9, <1>10 DEF MountInvariant

LEMMA ShortPaths == <<>> \in Seq(Part) /\ <<"l">> \in Seq(Part) /\ <<"m">> \in Seq(Part)
<1>1. ASSUME NEW S, NEW x \in S PROVE <<x>> \in Seq(S)
  OBVIOUS
<1>2. "l" \in Part /\ "m" \in Part
  BY DEF Part
<1> QED
  BY <1>1, <1>2

LEMMA WiderPaths == ASSUME NEW p \in Seq(STRING) PROVE p \in Seq(Part)
<1>1. ASSUME NEW S, NEW R, NEW q \in Seq(S) PROVE q \in Seq(S \cup R)
  OBVIOUS
<1> QED
  BY <1>1 DEF Part

\* A path leads through the symlink to another path.
LEMMA CanonicalIsAPath ==
  ASSUME NEW S, link \in Seq(S), NEW path \in Seq(S)
  PROVE  Canonical(path) \in Seq(S)
<1>1. CASE path # <<>> /\ Head(path) = "l"
  <2>1. Tail(path) \in Seq(S)
    BY <1>1
  <2>2. link \o Tail(path) \in Seq(S)
    BY <2>1, Concatenation
  <2> QED
    BY <1>1, <2>2 DEF Canonical
<1>2. CASE ~ (path # <<>> /\ Head(path) = "l")
  BY <1>2 DEF Canonical
<1> QED
  BY <1>1, <1>2

LEMMA ResolveStep ==
  ASSUME MountInvariant, CheckPath \/ ResolveRequired \/ ResolveDestination
  PROVE  MountInvariant'
<1>1. TableOK' /\ Mounted' = Mounted
  BY DEF MountInvariant, TableOK, Mounted, CheckPath, ResolveRequired, ResolveDestination, local
<1>2. PinsHeld' /\ Observed' /\ AcceptedIsTheShare'
  BY DEF MountInvariant, PinsHeld, Observed, AcceptedIsTheShare, CheckPath, ResolveRequired,
     ResolveDestination, local
<1>3. DestOK'
  BY DEF MountInvariant, DestOK, Checking, CheckPath, ResolveRequired, ResolveDestination
<1>4. Required \in Seq(Part)
  BY ShortPaths DEF Required
<1>5. Canonical(Required) \in Seq(Part)
  BY <1>4, CanonicalIsAPath DEF MountInvariant, PathsOK
<1>6. CASE CheckPath
  <2>1. PathsOK'
    BY <1>6 DEF MountInvariant, PathsOK, CheckPath, local, sighted
  <2> QED
    BY <1>1, <1>2, <1>3, <2>1 DEF MountInvariant
<1>7. CASE ResolveRequired
  <2>1. PathsOK'
    BY <1>5, <1>7 DEF MountInvariant, PathsOK, ResolveRequired
  <2> QED
    BY <1>1, <1>2, <1>3, <2>1 DEF MountInvariant
<1>8. CASE ResolveDestination
  <2>3. dest.path \in Seq(STRING)
    BY <1>8 DEF MountInvariant, DestOK, Checking, ResolveDestination
  <2>4. dest.path \in Seq(Part)
    BY <2>3, WiderPaths
  <2>1. Canonical(dest.path) \in Seq(Part)
    BY <2>4, CanonicalIsAPath DEF MountInvariant, PathsOK
  <2>2. PathsOK'
    BY <1>8, <2>1 DEF MountInvariant, PathsOK, ResolveDestination
  <2> QED
    BY <1>1, <1>2, <1>3, <2>2 DEF MountInvariant
<1> QED
  BY <1>6, <1>7, <1>8

\* An observation opens a descriptor on the mount its path is on.
LEMMA ObserveStep ==
  ASSUME MountInvariant, ObserveRequired \/ ObserveDestination
  PROVE  MountInvariant'
<1>1. TableOK' /\ Mounted' = Mounted
  BY DEF MountInvariant, TableOK, Mounted, ObserveRequired, ObserveDestination
<1>2. DestOK' /\ PathsOK' /\ AcceptedIsTheShare'
  BY DEF MountInvariant, DestOK, Checking, PathsOK, AcceptedIsTheShare, ObserveRequired,
     ObserveDestination
<1>3. CASE ObserveRequired
  BY <1>1, <1>2, <1>3 DEF MountInvariant, PinsHeld, Observed, ObserveRequired
<1>4. CASE ObserveDestination
  <2>1. Visible(destPath) \in Mounted
    BY <1>4, VisibleIsMounted DEF MountInvariant, PathsOK
  <2>2. seenMount' \in Mounted /\ seenDest' = seenMount'.id
    BY <1>4, <2>1 DEF ObserveDestination
  <2>3. Observed'
    BY <1>1, <2>2 DEF Observed, MountInvariant, TableOK
  <2>4. PinsHeld'
    BY <1>4 DEF PinsHeld, MountInvariant, ObserveDestination
  <2> QED
    BY <1>1, <1>2, <2>3, <2>4 DEF MountInvariant
<1> QED
  BY <1>3, <1>4

\* The record the table shows for the observed ID is that of the observed mount.
LEMMA JudgeStep ==
  ASSUME MountInvariant, Judge
  PROVE  MountInvariant'
<1>1. TableOK' /\ Observed' /\ PinsHeld' /\ DestOK' /\ PathsOK'
  BY DEF MountInvariant, TableOK, Mounted, Observed, PinsHeld, DestOK, Checking, PathsOK, Judge,
     sighted
<1>2. ASSUME CheckMountinfo
      PROVE  seenMount.fs = Share /\ seenMount.root /\ seenMount.target = reqPath
  <2>1. PICK r \in MountSet : /\ r.target = reqPath /\ r.root /\ Expected(r)
                              /\ r.id = seenDest
    BY <1>2 DEF CheckMountinfo
  <2>2. r = seenMount
    BY <2>1, RangeIsMounted DEF MountInvariant, Observed, Judge
  <2> QED
    BY <2>1, <2>2 DEF Expected
<1>3. AcceptedIsTheShare'
  BY <1>2 DEF AcceptedIsTheShare, Judge, sighted
<1> QED
  BY <1>1, <1>3 DEF MountInvariant

\* `open`: what is not refused is a local path, with or without a guard, or a server.
LEMMA OpenStep ==
  ASSUME MountInvariant, RegistryOK, NEW u \in Uri, Open(u)
  PROVE  MountInvariant'
<1>1. TableOK' /\ Mounted' = Mounted
  BY DEF MountInvariant, TableOK, Mounted, Open, local
<1>5. PathsOK'
  BY DEF MountInvariant, PathsOK, Open, local, sighted
<1>2. PinsHeld' /\ Observed'
  BY DEF MountInvariant, PinsHeld, Observed, Open, local
<1>3. /\ at' = "opening" => dest' # NoDest /\ dest'.scheme = "sftp"
      /\ at' = "ready" => dest' # NoDest
      /\ at' \in {"not open", "opening", "ready"}
  BY DEF Open, NoDest
<1>4. dest' # NoDest => dest'.path \in Seq(STRING)
  BY DestinationsAssumption DEF Open, Resolved, Valid, NoDest, NoEntry, RegistryOK
<1> QED
  BY <1>1, <1>2, <1>3, <1>4, <1>5 DEF MountInvariant, DestOK, Checking, AcceptedIsTheShare

\* A guarded operation is not accepted before the check.
LEMMA BeginOpStep ==
  ASSUME MountInvariant, NEW o \in Op, BeginOp(o)
  PROVE  MountInvariant'
<1>1. TableOK' /\ Mounted' = Mounted
  BY DEF MountInvariant, TableOK, Mounted, BeginOp, local
<1>4. PathsOK'
  BY DEF MountInvariant, PathsOK, BeginOp, local, sighted
<1>2. PinsHeld' /\ Observed'
  BY DEF MountInvariant, PinsHeld, Observed, BeginOp, local
<1>3. DestOK' /\ AcceptedIsTheShare'
  BY DEF MountInvariant, DestOK, Checking, AcceptedIsTheShare, BeginOp
<1> QED
  BY <1>1, <1>2, <1>3, <1>4 DEF MountInvariant

LEMMA RelinkStep ==
  ASSUME MountInvariant, NEW to \in {<<"l">>, <<"m">>}, Relink(to)
  PROVE  MountInvariant'
<1>1. TableOK' /\ Mounted' = Mounted
  BY DEF MountInvariant, TableOK, Mounted, Relink
<1>2. PinsHeld' /\ Observed' /\ DestOK' /\ AcceptedIsTheShare'
  BY <1>1 DEF MountInvariant, PinsHeld, Observed, DestOK, AcceptedIsTheShare, Relink, sighted
<1>3. to \in Seq(Part)
  BY ShortPaths
<1>4. PathsOK'
  BY <1>3 DEF MountInvariant, PathsOK, Relink, sighted
<1> QED
  BY <1>1, <1>2, <1>4 DEF MountInvariant

LEMMA RegistryStep ==
  ASSUME RegistryOK, [DestNext]_destVars
  PROVE  RegistryOK'
<1> DEFINE E == [scheme : STRING, path : Seq(STRING), guard : BOOLEAN, policyOk : BOOLEAN,
                 wellFormed : BOOLEAN]
<1>1. ASSUME NEW e \in Entry, SetDestination(e) PROVE RegistryOK'
  <2>1. e \in E
        /\ registry' = IF e.guard \/ registry = NoEntry THEN e
                       ELSE [e EXCEPT !.guard = registry.guard, !.policyOk = registry.policyOk]
    BY <1>1, DestinationsAssumption DEF SetDestination
  <2> QED
    BY <2>1 DEF RegistryOK
<1>2. CASE RemoveDestination
  BY <1>2 DEF RemoveDestination, RegistryOK
<1>3. CASE UNCHANGED registry
  BY <1>3 DEF RegistryOK
<1> QED
  BY <1>1, <1>2, <1>3 DEF DestNext, NextLocal, NextRemote, Operations, Admin, Mounts, CheckMount,
     Session, destVars, Open, BeginOp, Return, Close, CheckPath, ResolveRequired,
     ResolveDestination, ObserveRequired, ObserveDestination, Judge, Mount, Umount, Relink, Connect,
     ConnectFails, Reuse, GiveUp, Send, SendDenied, SendFails, ServerStops, ServerStarts

\* The other steps leave the table, the symlink and the descriptors, and accept
\* nothing guarded.
LEMMA OtherStep ==
  ASSUME MountInvariant, UNCHANGED <<mounts, link, pins>>,
         \/ UNCHANGED <<at, dest, reqPath, destPath, seenReq, seenDest, seenMount>>
         \/ Return \/ Close
         \/ /\ at \in {"opening", "connect", "send"}
            /\ at' \in {"not open", "ready", "connect", "send", "accepted", "refused"}
            /\ UNCHANGED <<dest, reqPath, destPath, seenReq, seenDest, seenMount>>
  PROVE  MountInvariant'
<1>1. TableOK' /\ Mounted' = Mounted
  BY DEF MountInvariant, TableOK, Mounted
<1>2. PathsOK'
  BY ShortPaths DEF MountInvariant, PathsOK, Return, Close, local, sighted
<1> QED
  BY <1>1, <1>2 DEF MountInvariant, PinsHeld, Observed, DestOK, Checking, AcceptedIsTheShare,
     Return, Close, local, sighted

LEMMA MountInvariantStep ==
  ASSUME MountInvariant, RegistryOK, [DestNext]_destVars
  PROVE  MountInvariant'
<1>1. ASSUME NEW e \in Entry, SetDestination(e) PROVE MountInvariant'
  BY <1>1, OtherStep DEF SetDestination, local, sighted
<1>2. CASE RemoveDestination
  BY <1>2, OtherStep DEF RemoveDestination, local, sighted
<1>3. ASSUME NEW u \in Uri, Open(u) PROVE MountInvariant'
  BY <1>3, OpenStep
<1>4. ASSUME NEW o \in Op, BeginOp(o) PROVE MountInvariant'
  BY <1>4, BeginOpStep
<1>5. CASE Return \/ Close
  BY <1>5, OtherStep DEF Return, Close, local
<1>6. CASE CheckMount
  BY <1>6, ResolveStep, ObserveStep, JudgeStep DEF CheckMount
<1>7. ASSUME NEW t \in {<<"m">>, <<"m", "s">>}, NEW on \in {Share, "other"}, NEW r \in BOOLEAN,
             Mount(t, on, r)
      PROVE  MountInvariant'
  <2>1. t \in Targets /\ on \in FileSystems
    BY DEF Targets, FileSystems
  <2> QED
    BY <1>7, <2>1, MountStep
<1>8. ASSUME NEW k \in 2 .. MaxMounts, Umount(k) PROVE MountInvariant'
  BY <1>8, UmountStep
<1>9. ASSUME NEW to \in {<<"l">>, <<"m">>}, Relink(to) PROVE MountInvariant'
  BY <1>9, RelinkStep
<1>10. ASSUME NEW f \in KnownHosts, NEW l \in Login, NEW k \in Key, Connect(f, l, k)
      PROVE  MountInvariant'
  BY <1>10, OtherStep DEF Connect, local, sighted
<1>11. CASE ConnectFails
  BY <1>11, OtherStep DEF ConnectFails, local, sighted
<1>12. CASE Reuse \/ GiveUp \/ Send \/ SendDenied \/ SendFails
  BY <1>12, OtherStep DEF Reuse, GiveUp, Send, SendDenied, SendFails, local, sighted
<1>13. CASE ServerStops \/ ServerStarts \/ UNCHANGED destVars
  BY <1>13, OtherStep DEF ServerStops, ServerStarts, local, sighted, destVars
<1> QED
  BY <1>1, <1>2, <1>3, <1>4, <1>5, <1>6, <1>7, <1>8, <1>9, <1>10, <1>11, <1>12, <1>13
     DEF DestNext, NextLocal, NextRemote, Operations, Admin, Mounts, Session

-----------------------------------------------------------------------------
\* An operation during which the server answered and granted it lost at most the
\* attempt that found the session dead.
SteadyCall ==
  /\ sess \in {"none", "live", "dead"} /\ tries \in Nat
  /\ at = "send" => sess # "none"
  /\ steady => sshd = "up"
  /\ (steady /\ at = "connect") => tries = 0 \/ (tries = 1 /\ sess = "none")
  /\ (steady /\ at = "send") => tries = 0 \/ (tries = 1 /\ sess = "live")

\* A session is the open destination's own, and skips the host key only on the
\* word of the caller that wrote the server's URI.
SessionIsItsOwn ==
  /\ at \in {"idle", "opening", "not open"} => sess = "none"
  /\ at \notin Checking \cup {"idle", "not open"} /\ dest.scheme = "sftp" /\ dest.insecure
       => call.scheme = "sftp" /\ call.insecure

SessionInvariant == SteadyCall /\ SessionIsItsOwn /\ KeyIsKnown /\ RepeatedCallSucceeds

LEMMA OwnStep ==
  ASSUME SessionIsItsOwn, DestOK, [DestNext]_destVars
  PROVE  SessionIsItsOwn'
<1> USE DEF SessionIsItsOwn, Checking
<1>1. ASSUME NEW u \in Uri, Open(u) PROVE SessionIsItsOwn'
  <2>1. /\ at = "idle" /\ sess' = sess /\ call' = u /\ dest' = Resolved(u)
        /\ at' \in {"not open", "opening", "ready"} /\ (at' # "not open" => dest' # NoDest)
    BY <1>1 DEF Open, remote
  <2>2. ASSUME dest' # NoDest, dest'.scheme = "sftp", dest'.insecure
        PROVE  u.scheme = "sftp" /\ u.insecure
    BY <2>1, <2>2 DEF Resolved
  <2>3. at' = "ready" => dest'.scheme # "sftp"
    BY <1>1 DEF Open
  <2> QED
    BY <2>1, <2>2, <2>3
<1>2. ASSUME NEW o \in Op, BeginOp(o) PROVE SessionIsItsOwn'
  BY <1>2 DEF BeginOp
<1>3. CASE Return
  BY <1>3 DEF Return
<1>4. CASE Close
  BY <1>4 DEF Close
<1>5. CASE CheckMount
  BY <1>5 DEF CheckMount, CheckPath, ResolveRequired, ResolveDestination, ObserveRequired,
     ObserveDestination, Judge, DestOK, remote
<1>6. ASSUME NEW f \in KnownHosts, NEW l \in Login, NEW k \in Key, Connect(f, l, k)
      PROVE  SessionIsItsOwn'
  BY <1>6 DEF Connect
<1>7. CASE ConnectFails
  BY <1>7 DEF ConnectFails
<1>8. CASE Reuse \/ GiveUp \/ Send \/ SendDenied \/ SendFails
  BY <1>8 DEF Reuse, GiveUp, Send, SendDenied, SendFails, remote
<1>9. CASE ServerStops \/ ServerStarts
  BY <1>9 DEF ServerStops, ServerStarts
<1>10. CASE UNCHANGED <<at, call, dest, sess>>
  BY <1>10
<1> QED
  BY <1>1, <1>2, <1>3, <1>4, <1>5, <1>6, <1>7, <1>8, <1>9, <1>10
     DEF DestNext, NextLocal, NextRemote, Operations, Admin, Mounts, Session, SetDestination,
     RemoveDestination, Mount, Umount, Relink, destVars, remote

LEMMA KeyStep ==
  ASSUME KeyIsKnown, SessionIsItsOwn, SteadyCall, DestOK, [DestNext]_destVars
  PROVE  KeyIsKnown'
<1>1. ASSUME NEW f \in KnownHosts, NEW l \in Login, NEW k \in Key, Connect(f, l, k)
      PROVE  KeyIsKnown'
  <2>1. srvKey' = [key |-> k, file |-> f] /\ call' = call /\ dest.scheme = "sftp"
    BY <1>1 DEF Connect, DestOK
  <2>2. dest.insecure => call.scheme = "sftp" /\ call.insecure
    BY <1>1, <2>1 DEF Connect, SessionIsItsOwn, Checking
  <2>3. ~ dest.insecure => Verify(f, k)
    BY <1>1 DEF Connect, TrustsServer
  <2> QED
    BY <2>1, <2>2, <2>3 DEF KeyIsKnown, Verify, Applies
<1>2. CASE UNCHANGED <<srvKey, call>> /\ (sess' # "none" => sess # "none")
  BY <1>2 DEF KeyIsKnown
<1>3. CASE sess' = "none"
  BY <1>3 DEF KeyIsKnown
<1>4. ASSUME NEW u \in Uri, Open(u) PROVE sess' = "none"
  BY <1>4 DEF Open, SessionIsItsOwn, remote
<1>5. CASE SendFails
  <2>1. UNCHANGED <<srvKey, call>> /\ sess # "none"
    BY <1>5 DEF SendFails, SteadyCall
  <2> QED
    BY <2>1 DEF KeyIsKnown
<1>6. CASE ServerStops
  <2>1. UNCHANGED <<srvKey, call>> /\ (sess' # "none" => sess # "none")
    BY <1>6 DEF ServerStops
  <2> QED
    BY <2>1 DEF KeyIsKnown
<1>7. CASE Close
  BY <1>3, <1>7 DEF Close
<1> QED
  BY <1>1, <1>2, <1>3, <1>4, <1>5, <1>6, <1>7 DEF DestNext, NextLocal, NextRemote, Operations,
     Admin, Mounts, CheckMount, Session, destVars, remote, SetDestination, RemoveDestination,
     BeginOp, Return, CheckPath, ResolveRequired, ResolveDestination, ObserveRequired,
     ObserveDestination, Judge, Mount, Umount, Relink, ConnectFails, Reuse, GiveUp, Send,
     SendDenied, ServerStarts

LEMMA SteadyStep ==
  ASSUME SteadyCall, RepeatedCallSucceeds, DestOK, [DestNext]_destVars
  PROVE  SteadyCall' /\ RepeatedCallSucceeds'
<1> USE DestinationsAssumption DEF SteadyCall, RepeatedCallSucceeds, remote
<1>1. ASSUME NEW u \in Uri, Open(u) PROVE SteadyCall' /\ RepeatedCallSucceeds'
  <2>1. at' \in {"not open", "opening", "ready"} /\ UNCHANGED remote
    BY <1>1 DEF Open
  <2> QED
    BY <2>1
<1>2. ASSUME NEW o \in Op, BeginOp(o) PROVE SteadyCall' /\ RepeatedCallSucceeds'
  <2>1. /\ at' \in {"connect", "check path", "accepted"}
        /\ tries' = 0 /\ sess' = sess /\ sshd' = sshd /\ (steady' => sshd = "up")
    BY <1>2 DEF BeginOp
  <2> QED
    BY <2>1
<1>3. CASE Return \/ Close
  <2>1. at' \in {"ready", "idle"} /\ sshd' = sshd /\ steady' = steady
    BY <1>3 DEF Return, Close
  <2>2. sess' \in {"none", sess}
    BY <1>3 DEF Return, Close
  <2>3. tries' \in {0, tries}
    BY <1>3 DEF Return, Close
  <2> QED
    BY <2>1, <2>2, <2>3
<1>4. CASE CheckMount
  <2>1. UNCHANGED <<dest, op, remote>> /\ at \in Checking
    BY <1>4 DEF CheckMount, CheckPath, ResolveRequired, ResolveDestination, ObserveRequired,
       ObserveDestination, Judge, Checking
  <2>2. at' \in Checking \cup {"accepted", "refused"} /\ dest.scheme # "sftp"
    BY <1>4, <2>1 DEF CheckMount, CheckPath, ResolveRequired, ResolveDestination, ObserveRequired,
       ObserveDestination, Judge, Checking, DestOK
  <2> QED
    BY <2>1, <2>2 DEF Checking
<1>5. ASSUME NEW f \in KnownHosts, NEW l \in Login, NEW k \in Key, Connect(f, l, k)
      PROVE  SteadyCall' /\ RepeatedCallSucceeds'
  BY <1>5 DEF Connect
<1>6. CASE ConnectFails
  <2>1. at' \in {"not open", "connect", "refused"}
    BY <1>6 DEF ConnectFails
  <2>2. ~ steady' /\ sess' = sess
    BY <1>6 DEF ConnectFails
  <2>3. tries' \in {tries, tries + 1}
    <3>1. CASE at = "opening"
      BY <1>6, <3>1 DEF ConnectFails
    <3>2. CASE at # "opening"
      BY <1>6, <3>2 DEF ConnectFails
    <3> QED
      BY <3>1, <3>2
  <2>4. tries' \in Nat
    BY <2>3
  <2>5. sess' \in {"none", "live", "dead"}
    BY <2>2
  <2>6. SteadyCall'
    BY <2>1, <2>2, <2>4, <2>5
  <2>7. RepeatedCallSucceeds'
    BY <2>2
  <2> QED
    BY <2>6, <2>7
<1>7. CASE Reuse
  BY <1>7 DEF Reuse
<1>8. CASE GiveUp
  BY <1>8 DEF GiveUp
<1>9. CASE Send \/ SendDenied
  BY <1>9 DEF Send, SendDenied
<1>10. CASE SendFails
  <2>1. /\ at = "send" /\ at' \in {"connect", "refused"} /\ tries' = tries + 1 /\ tries' \in Nat
        /\ sshd' = sshd /\ op' = op /\ sess' \in {"none", sess}
        /\ at' = "connect" => sess' = "none"
        /\ at' = "refused" => ~ (op \in RepeatedOp /\ tries + 1 < RetryAttempts)
    BY <1>10 DEF SendFails
  <2>2. steady' => steady /\ sess = "dead"
    BY <1>10 DEF SendFails
  <2>3. steady' => tries = 0
    BY <2>1, <2>2
  <2>4. SteadyCall'
    BY <2>1, <2>2, <2>3
  <2>5. RepeatedCallSucceeds'
    BY <2>1, <2>3
  <2> QED
    BY <2>4, <2>5
<1>11. CASE ServerStops \/ ServerStarts
  BY <1>11 DEF ServerStops, ServerStarts
<1>12. CASE UNCHANGED <<at, op, dest, remote>>
  BY <1>12
<1> QED
  BY <1>1, <1>2, <1>3, <1>4, <1>5, <1>6, <1>7, <1>8, <1>9, <1>10, <1>11, <1>12
     DEF DestNext, NextLocal, NextRemote, Operations, Admin, Mounts, Session, SetDestination,
     RemoveDestination, Mount, Umount, Relink, destVars

-----------------------------------------------------------------------------
DestInvariant == RegistryOK /\ MountInvariant /\ SessionInvariant

LEMMA DestInitInvariant == DestInit => DestInvariant
<1> SUFFICES ASSUME DestInit PROVE DestInvariant
  OBVIOUS
<1>1. RegistryOK
  BY DestinationsAssumption DEF DestInit, RegistryOK
<1>2. MountInvariant
  <2>1. mounts = <<[id |-> 1, target |-> <<>>, root |-> TRUE, fs |-> "disk"]>>
    BY DEF DestInit
  <2>2. TableOK
    <3> DEFINE m == [id |-> 1, target |-> <<>>, root |-> TRUE, fs |-> "disk"]
    <3>1. m \in MountRecord
      BY DEF MountRecord, Targets, FileSystems
    <3>2. m.target = <<>>
      OBVIOUS
    <3> HIDE DEF m
    <3>3. mounts = <<m>>
      BY <2>1 DEF m
    <3>4. mounts \in Seq(MountRecord) /\ mounts # <<>> /\ mounts[1] = m /\ Mounted = {m}
      BY <3>1, <3>3 DEF Mounted
    <3> QED
      BY <3>2, <3>4 DEF TableOK
  <2>3. PathsOK
    BY ShortPaths DEF DestInit, PathsOK
  <2> QED
    BY <2>2, <2>3 DEF DestInit, MountInvariant, PinsHeld, Observed, DestOK, Checking,
       AcceptedIsTheShare
<1>3. SessionInvariant
  BY DEF DestInit, SessionInvariant, SteadyCall, SessionIsItsOwn, KeyIsKnown, RepeatedCallSucceeds
<1> QED
  BY <1>1, <1>2, <1>3 DEF DestInvariant

\* The inductive invariant of opening and using a destination.
THEOREM DestInvariance == DestSpec => []DestInvariant
<1>1. DestInvariant /\ [DestNext]_destVars => DestInvariant'
  BY RegistryStep, MountInvariantStep, OwnStep, KeyStep, SteadyStep
     DEF DestInvariant, SessionInvariant, MountInvariant
<1> QED
  BY <1>1, DestInitInvariant, PTL DEF DestSpec

\* check_path, check_server_key and run_with, whatever is mounted, relinked,
\* presented, denied or stopped in between: an operation works on the destination
\* it was given.
THEOREM DestinationMeant == DestSpec => []DestinationIsTheOneMeant
<1>1. DestInvariant => DestinationIsTheOneMeant
  BY DEF DestInvariant, MountInvariant, SessionInvariant, DestinationIsTheOneMeant
<1> QED
  BY <1>1, DestInvariance, PTL

-------------------------------------------------------------------------------
(***************************************************************************)
(* The files of a local destination.                                       *)
(*                                                                         *)
(* The invariant follows a file through its publication: it is flushed     *)
(* before it has a published name, in memory as on disk; no published name *)
(* holds it before its rename; after it, the name holds it until somebody  *)
(* deletes or replaces it; and every worker works in directories that exist *)
(* below the destination root.                                             *)
(***************************************************************************)
Contents == Worker \cup {Empty}

FilesType ==
  /\ task \in [Worker -> Task] /\ exclusive \in BOOLEAN
  /\ made \in SUBSET Dir /\ kept \in SUBSET made
  /\ place \in made \cup {"absent", "link"}
  /\ inCore \in [Dir \cup {Outside} -> [FileName -> Contents]]
  /\ onDisk \in [Dir -> [FinalName -> Contents]]
  /\ whole \in SUBSET Worker /\ stable \in SUBSET whole
  /\ stage \in [Worker -> Stage]
  /\ tmpDir \in [Worker -> Dir \cup {Outside}]
  /\ finDir \in [Worker -> Dir \cup {Outside}]
  /\ got \in [Worker -> Contents]
  /\ gone \in SUBSET Worker

HasTmpDir == {"create", "write", "find tmp", "make final", "find final", "sync",
              "rename", "check", "rename over", "discard"}
HasFinDir == {"sync", "rename", "check", "rename over", "sync dir", "list", "find read",
              "open", "unlink"}
Written == {"find tmp", "make final", "find final", "sync"}
AfterFlush == {"rename", "check", "rename over", "sync dir", "synced"}
Unpublished == {"begin", "make", "find create", "create", "rename"} \cup
               (Tracked \ {"sync dir"})

\* The directories in hand exist.
DirsInHand ==
  \A w \in Worker : /\ stage[w] \in HasTmpDir => tmpDir[w] \in made
                    /\ stage[w] \in HasFinDir => finDir[w] \in made

\* A worker does what its task asks for, and renames over a name only to
\* replace it or where the file system leaves no choice.
KeepsToItsTask ==
  \A w \in Worker :
    /\ stage[w] \in Tracked \cup {"make", "find create", "create", "synced"}
         => task[w] \in {"publish_new", "replace"}
    /\ stage[w] \in {"rename", "check"} => task[w] = "publish_new"
    /\ stage[w] = "check" => ~ exclusive
    /\ stage[w] = "rename over" => task[w] = "replace" \/ ~ exclusive
    /\ stage[w] \in {"find delete", "unlink"} => task[w] = "delete"

\* A file is written, flushed and only then renamed.
FlushedFirst ==
  \A w \in Worker : /\ stage[w] \in Written => w \in whole
                    /\ stage[w] \in AfterFlush => w \in stable

\* What a published name holds was published under it, and is flushed.
TaskFor(n) == IF n = "catalog" THEN "replace" ELSE "publish_new"

NamesHold ==
  \A d \in Dir, n \in FinalName :
    /\ inCore[d][n] \in stable \cup {Empty}
    /\ onDisk[d][n] \in stable \cup {Empty}
    /\ inCore[d][n] # Empty => task[inCore[d][n]] = TaskFor(n)
    /\ onDisk[d][n] # Empty => task[onDisk[d][n]] = TaskFor(n)

\* No published name holds a file before its rename.
NotYet ==
  \A w \in Worker, d \in Dir, n \in FinalName :
    stage[w] \in Unpublished => inCore[d][n] # w /\ onDisk[d][n] # w

\* Afterwards its own name does.
StaysThere ==
  \A w \in Worker :
    /\ stage[w] = "sync dir" /\ w \notin gone => inCore[finDir[w]][Final(w)] = w
    /\ stage[w] = "synced" /\ w \notin gone /\ finDir[w] \in Dir
         => inCore[finDir[w]][Final(w)] = w /\ onDisk[finDir[w]][Final(w)] = w

OnePublisher ==
  ~ exclusive => \A v, w \in Worker :
                   task[v] = "publish_new" /\ task[w] = "publish_new" => v = w

ReadIsWhole == \A w \in Worker : got[w] \in stable \cup {Empty}

FilesInv ==
  /\ FilesType /\ DirsInHand /\ KeepsToItsTask /\ FlushedFirst /\ NamesHold
  /\ NotYet /\ StaysThere /\ OnePublisher /\ ReadIsWhole /\ OnlyItsOwnFiles

-----------------------------------------------------------------------------
(***************************************************************************)
(* Steps that only move a worker on.                                       *)
(***************************************************************************)
\* What a worker must have to be at a stage short of the end of a publication.
Ready(w, s) ==
  /\ s \in Stage \ {"sync dir", "synced"}
  /\ s \in HasTmpDir => tmpDir[w] \in made
  /\ s \in HasFinDir => finDir[w] \in made
  /\ s \in Tracked \cup {"make", "find create", "create"}
       => task[w] \in {"publish_new", "replace"}
  /\ s \in {"rename", "check"} => task[w] = "publish_new"
  /\ s = "check" => ~ exclusive
  /\ s = "rename over" => task[w] = "replace" \/ ~ exclusive
  /\ s \in {"find delete", "unlink"} => task[w] = "delete"
  /\ s \in Written => w \in whole'
  /\ s \in AfterFlush => w \in stable'
  /\ s \in Unpublished => stage[w] \in Unpublished

LEMMA NamesKept ==
  ASSUME NamesHold, stable \subseteq stable', task' = task,
         \A d \in Dir, n \in FinalName : /\ inCore'[d][n] = inCore[d][n]
                                        /\ onDisk'[d][n] = onDisk[d][n]
  PROVE  NamesHold'
BY DEF NamesHold

\* A worker that is short of its rename after a step was before it.
LEMMA NotYetKept ==
  ASSUME NotYet, inCore' = inCore, onDisk' = onDisk,
         \A v \in Worker : stage'[v] \in Unpublished => stage[v] \in Unpublished
  PROVE  NotYet'
BY DEF NotYet

\* More content may be complete, or on stable storage: nothing depends on less.
LEMMA MovesOn ==
  ASSUME FilesInv, NEW w \in Worker, NEW s, Ready(w, s), Reaches(w, s),
         UNCHANGED <<given, place, made, kept, inCore, onDisk, tmpDir, finDir, got, gone>>,
         whole \subseteq whole', stable \subseteq stable', stable' \subseteq whole',
         whole' \subseteq Worker
  PROVE  FilesInv'
<1>1. /\ task' = task /\ exclusive' = exclusive /\ place' = place /\ made' = made
      /\ inCore' = inCore /\ onDisk' = onDisk /\ kept' = kept
      /\ tmpDir' = tmpDir /\ finDir' = finDir /\ got' = got
      /\ gone' = gone /\ stage' = [stage EXCEPT ![w] = s] /\ s \in Stage
  BY DEF given, disk, Reaches, Ready
<1>2. FilesType'
  BY <1>1 DEF FilesInv, FilesType
<1>3. \A v \in Worker : stage'[v] = IF v = w THEN s ELSE stage[v]
  BY <1>1 DEF FilesInv, FilesType
<1>4. DirsInHand'
  BY <1>1, <1>3 DEF FilesInv, DirsInHand, Ready
<1>5. KeepsToItsTask'
  BY <1>1, <1>3 DEF FilesInv, KeepsToItsTask, Ready
<1>6. FlushedFirst'
  BY <1>1, <1>3 DEF FilesInv, FlushedFirst, Ready
<1>7. NamesHold'
  BY <1>1, NamesKept DEF FilesInv
<1>8. NotYet'
  <2>1. \A v \in Worker : stage'[v] \in Unpublished => stage[v] \in Unpublished
    BY <1>3 DEF Ready
  <2> QED
    BY <1>1, <2>1, NotYetKept DEF FilesInv
<1>9. StaysThere'
  BY <1>1, <1>3 DEF FilesInv, StaysThere, Ready, Final
<1>10. OnePublisher' /\ ReadIsWhole' /\ OnlyItsOwnFiles'
  BY <1>1 DEF FilesInv, OnePublisher, ReadIsWhole, OnlyItsOwnFiles, NoFiles
<1> QED
  BY <1>2, <1>4, <1>5, <1>6, <1>7, <1>8, <1>9, <1>10 DEF FilesInv

LEMMA NothingWritten ==
  ASSUME FilesInv, UNCHANGED <<disk, whole>>
  PROVE  /\ UNCHANGED <<kept, onDisk>>
         /\ whole \subseteq whole' /\ stable \subseteq stable' /\ stable' \subseteq whole'
         /\ whole' \subseteq Worker
BY DEF disk, FilesInv, FilesType

LEMMA BeginStep ==
  ASSUME FilesInv, NEW w \in Worker, Begin(w)
  PROVE  FilesInv'
<1> DEFINE s == CASE task[w] \in {"publish_new", "replace"} -> "make"
                  [] task[w] \in {"read image", "read catalog"} -> "find listed"
                  [] OTHER -> "find delete"
<1>1. stage[w] = "begin" /\ Reaches(w, s)
  BY DEF Begin
<1>2. Ready(w, s)
  BY <1>1 DEF Ready, FilesInv, FilesType, Task, Stage, Working, Finished, Finding, Tracked,
           HasTmpDir, HasFinDir, Written, AfterFlush, Unpublished
<1>3. UNCHANGED <<given, place, made, inCore, disk, whole, tmpDir, finDir, got, gone>>
  BY DEF Begin
<1> QED
  BY <1>1, <1>2, <1>3, MovesOn, NothingWritten

\* Whatever the error, the guard has nothing but the temporary file to delete.
LEMMA ErrorStep ==
  ASSUME FilesInv, NEW w \in Worker, stage[w] \in Working, Reaches(w, OnError(stage[w])),
         UNCHANGED <<given, place, made, inCore, disk, whole, tmpDir, finDir, got, gone>>
  PROVE  FilesInv'
<1>1. Ready(w, OnError(stage[w]))
  BY DEF Ready, OnError, Stage, Working, Finished, Finding, Tracked,
           HasTmpDir, HasFinDir, Written, AfterFlush, Unpublished
<1> QED
  BY <1>1, MovesOn, NothingWritten

LEMMA RefusedSteps ==
  ASSUME FilesInv, NEW w \in Worker, OpenRefused(w) \/ RenameRefuses(w) \/ Fails(w)
  PROVE  FilesInv'
<1>1. stage[w] \in Working
  BY DEF OpenRefused, RenameRefuses, Fails, Working, Finding, Tracked
<1>2. /\ Reaches(w, OnError(stage[w]))
      /\ UNCHANGED <<given, place, made, inCore, disk, whole, tmpDir, finDir, got, gone>>
  BY DEF OpenRefused, RenameRefuses, Fails
<1> QED
  BY <1>1, <1>2, ErrorStep

LEMMA CheckFreeStep ==
  ASSUME FilesInv, NEW w \in Worker, CheckFree(w)
  PROVE  FilesInv'
<1>1. /\ stage[w] = "check" /\ Reaches(w, "rename over")
      /\ UNCHANGED <<given, place, made, inCore, disk, whole, tmpDir, finDir, got, gone>>
  BY DEF CheckFree
<1>2. Ready(w, "rename over")
  BY <1>1 DEF Ready, FilesInv, DirsInHand, KeepsToItsTask, FlushedFirst, Stage, Working,
           Finished, Finding, Tracked, HasTmpDir, HasFinDir, Written, AfterFlush, Unpublished,
           disk
<1> QED
  BY <1>1, <1>2, MovesOn, NothingWritten

LEMMA ListStep ==
  ASSUME FilesInv, NEW w \in Worker, List(w)
  PROVE  FilesInv'
<1> DEFINE s == IF Occupied(w) THEN "find read" ELSE "ended"
<1>1. /\ stage[w] = "list" /\ Reaches(w, s)
      /\ UNCHANGED <<given, place, made, inCore, disk, whole, tmpDir, finDir, got, gone>>
  BY DEF List
<1>2. s \in {"find read", "ended"}
  OBVIOUS
<1>3. Ready(w, s)
  <2> HIDE DEF s
  <2> QED
    BY <1>1, <1>2 DEF Ready, FilesInv, DirsInHand, Stage, Working,
           Finished, Finding, Tracked, HasTmpDir, HasFinDir, Written, AfterFlush, Unpublished
<1> QED
  BY <1>1, <1>3, MovesOn, NothingWritten

-----------------------------------------------------------------------------
(***************************************************************************)
(* Directories.                                                            *)
(***************************************************************************)
\* A new directory, or none, and then the worker moves on.
LEMMA MakeStep ==
  ASSUME FilesInv, NEW w \in Worker, Make(w)
  PROVE  FilesInv'
<1> DEFINE s == IF stage[w] = "make" THEN "find create" ELSE "find final"
<1>1. /\ stage[w] \in {"make", "make final"} /\ stage' = [stage EXCEPT ![w] = s]
      /\ task' = task /\ exclusive' = exclusive
      /\ inCore' = inCore /\ onDisk' = onDisk /\ stable' = stable /\ kept' = kept
      /\ whole' = whole /\ tmpDir' = tmpDir /\ finDir' = finDir /\ got' = got
      /\ gone' = gone
  BY DEF Make, Reaches, given, disk
<1>2. /\ made' \in SUBSET Dir /\ made \subseteq made'
      /\ place' \in made' \cup {"absent", "link"}
  <2>1. CASE place # "absent"
    BY <2>1 DEF Make, FilesInv, FilesType
  <2>2. CASE place = "absent" /\ Dir \ made # {}
    <3>1. (CHOOSE d \in Dir \ made : TRUE) \in Dir \ made
      BY <2>2
    <3> QED
      BY <2>2, <3>1 DEF Make, FilesInv, FilesType
  <2> QED
    BY <2>1, <2>2 DEF Make
<1>3. \A v \in Worker : stage'[v] = IF v = w THEN s ELSE stage[v]
  BY <1>1 DEF FilesInv, FilesType
<1>4. s \in {"find create", "find final"} /\ (s = "find final" => stage[w] = "make final")
  BY <1>1
<1> HIDE DEF s
<1>5. FilesType'
  BY <1>1, <1>2, <1>4 DEF FilesInv, FilesType, Stage, Working, Finding, Tracked
<1>6. DirsInHand'
  BY <1>1, <1>2, <1>3, <1>4 DEF FilesInv, DirsInHand, HasTmpDir, HasFinDir
<1>7. KeepsToItsTask'
  BY <1>1, <1>3, <1>4 DEF FilesInv, KeepsToItsTask, Tracked
<1>8. FlushedFirst'
  BY <1>1, <1>3, <1>4 DEF FilesInv, FlushedFirst, Written, AfterFlush
<1>9. NamesHold'
  BY <1>1, NamesKept DEF FilesInv
<1>10. NotYet'
  <2>1. \A v \in Worker : stage'[v] \in Unpublished => stage[v] \in Unpublished
    BY <1>1, <1>3, <1>4 DEF Unpublished, Tracked
  <2> QED
    BY <1>1, <2>1, NotYetKept DEF FilesInv
<1>11. StaysThere'
  BY <1>1, <1>3, <1>4 DEF FilesInv, StaysThere, Final
<1>12. OnePublisher' /\ ReadIsWhole' /\ OnlyItsOwnFiles'
  BY <1>1 DEF FilesInv, OnePublisher, ReadIsWhole, OnlyItsOwnFiles, NoFiles
<1> QED
  BY <1>5, <1>6, <1>7, <1>8, <1>9, <1>10, <1>11, <1>12 DEF FilesInv

\* The pinned directory is one below the root, whatever the name stands for
\* afterwards.
LEMMA OpenDirStep ==
  ASSUME FilesInv, NEW w \in Worker, OpenDir(w)
  PROVE  FilesInv'
<1> DEFINE s == AfterFind(stage[w])
           forTmp == stage[w] \in {"find create", "find tmp", "find discard"}
<1>1. /\ stage[w] \in Finding /\ place \in made /\ stage' = [stage EXCEPT ![w] = s]
      /\ task' = task /\ exclusive' = exclusive /\ made' = made /\ place' = place
      /\ inCore' = inCore /\ onDisk' = onDisk /\ stable' = stable /\ kept' = kept
      /\ whole' = whole /\ got' = got /\ gone' = gone
  BY FilesAssumption DEF OpenDir, Reaches, given, disk, FilesInv, FilesType
<1>2. /\ tmpDir' = IF forTmp THEN [tmpDir EXCEPT ![w] = place] ELSE tmpDir
      /\ finDir' = IF forTmp THEN finDir ELSE [finDir EXCEPT ![w] = place]
  BY DEF OpenDir, Pins
<1>3. /\ stage[w] = "find create" => s = "create"
      /\ stage[w] = "find tmp" => s = "make final"
      /\ stage[w] = "find final" => s = "sync"
      /\ stage[w] = "find discard" => s = "discard"
      /\ stage[w] = "find listed" => s = "list"
      /\ stage[w] = "find read" => s = "open"
      /\ stage[w] = "find delete" => s = "unlink"
  BY DEF AfterFind
<1>4. s \in {"create", "make final", "sync", "discard", "list", "open", "unlink"}
  BY <1>1, <1>3 DEF Finding
<1> HIDE DEF s
<1>5. \A v \in Worker :
        /\ stage'[v] = IF v = w THEN s ELSE stage[v]
        /\ tmpDir'[v] = IF v = w /\ forTmp THEN place ELSE tmpDir[v]
        /\ finDir'[v] = IF v = w /\ ~ forTmp THEN place ELSE finDir[v]
  BY <1>1, <1>2 DEF FilesInv, FilesType
<1>6. FilesType'
  BY <1>1, <1>2, <1>4 DEF FilesInv, FilesType, Stage, Working, Finding, Tracked
<1>7. DirsInHand'
  <2> SUFFICES ASSUME NEW v \in Worker
               PROVE  /\ stage'[v] \in HasTmpDir => tmpDir'[v] \in made
                      /\ stage'[v] \in HasFinDir => finDir'[v] \in made
    BY <1>1 DEF DirsInHand
  <2>1. CASE v # w
    BY <2>1, <1>5 DEF FilesInv, DirsInHand
  <2>2. CASE v = w
    BY <2>2, <1>1, <1>3, <1>4, <1>5 DEF FilesInv, DirsInHand, HasTmpDir, HasFinDir, Finding
  <2> QED
    BY <2>1, <2>2
<1>8. KeepsToItsTask'
  <2>1. /\ s \in Tracked \cup {"create"} => stage[w] \in Tracked \cup {"find create"}
        /\ s = "unlink" => stage[w] = "find delete"
        /\ s \notin {"make", "find create", "synced", "rename", "check", "rename over",
                     "find delete"}
    BY <1>1, <1>3, <1>4 DEF Tracked, Finding
  <2> QED
    BY <1>1, <1>5, <2>1 DEF FilesInv, KeepsToItsTask
<1>9. FlushedFirst'
  BY <1>1, <1>3, <1>4, <1>5 DEF FilesInv, FlushedFirst, Written, AfterFlush, Finding
<1>10. NamesHold'
  BY <1>1, NamesKept DEF FilesInv
<1>11. NotYet'
  <2>1. \A v \in Worker : stage'[v] \in Unpublished => stage[v] \in Unpublished
    BY <1>1, <1>3, <1>4, <1>5 DEF Unpublished, Tracked, Finding
  <2> QED
    BY <1>1, <2>1, NotYetKept DEF FilesInv
<1>12. StaysThere'
  BY <1>1, <1>4, <1>5 DEF FilesInv, StaysThere, Final
<1>13. OnePublisher' /\ ReadIsWhole' /\ OnlyItsOwnFiles'
  BY <1>1 DEF FilesInv, OnePublisher, ReadIsWhole, OnlyItsOwnFiles, NoFiles
<1> QED
  BY <1>6, <1>7, <1>8, <1>9, <1>10, <1>11, <1>12, <1>13 DEF FilesInv

-----------------------------------------------------------------------------
(***************************************************************************)
(* Temporary files.                                                        *)
(***************************************************************************)
\* A temporary name that comes or goes changes no published name.
LEMMA TmpChanges ==
  ASSUME FilesInv, NEW w \in Worker, NEW d \in made, NEW c \in Contents,
         inCore' = [inCore EXCEPT ![d][w] = c]
  PROVE  /\ inCore' \in [Dir \cup {Outside} -> [FileName -> Contents]]
         /\ \A e \in Dir, n \in FinalName : inCore'[e][n] = inCore[e][n]
         /\ inCore'[Outside] = inCore[Outside]
<1>1. w \in FileName /\ w \notin FinalName /\ FinalName \subseteq FileName
  BY FilesAssumption DEF FileName, FinalName
<1>2. d \in Dir /\ d # Outside
  BY FilesAssumption DEF FilesInv, FilesType
<1>3. inCore \in [Dir \cup {Outside} -> [FileName -> Contents]]
  BY DEF FilesInv, FilesType
<1> HIDE DEF FileName, FinalName, Contents, Outside
<1>4. inCore[d] \in [FileName -> Contents]
  BY <1>2, <1>3
<1>5. [inCore[d] EXCEPT ![w] = c] \in [FileName -> Contents]
  BY <1>4
<1>6. inCore' = [inCore EXCEPT ![d] = [inCore[d] EXCEPT ![w] = c]]
  BY <1>3
<1>7. inCore' \in [Dir \cup {Outside} -> [FileName -> Contents]]
  BY <1>2, <1>3, <1>5, <1>6
<1>8. \A e \in Dir \cup {Outside} :
        inCore'[e] = IF e = d THEN [inCore[d] EXCEPT ![w] = c] ELSE inCore[e]
  BY <1>2, <1>3, <1>6
<1>9. \A n \in FinalName : [inCore[d] EXCEPT ![w] = c][n] = inCore[d][n]
  BY <1>1, <1>4
<1> QED
  BY <1>2, <1>7, <1>8, <1>9

\* The rest of the invariant when only temporary names changed.
LEMMA TmpMovesOn ==
  ASSUME FilesInv, NEW w \in Worker, NEW d \in made, NEW c \in Contents,
         inCore' = [inCore EXCEPT ![d][w] = c],
         NEW s, Ready(w, s), Reaches(w, s),
         UNCHANGED <<given, place, made, disk, whole, tmpDir, finDir, got, gone>>
  PROVE  FilesInv'
<1>1. /\ task' = task /\ exclusive' = exclusive /\ place' = place /\ made' = made
      /\ onDisk' = onDisk /\ stable' = stable /\ kept' = kept
      /\ whole' = whole /\ tmpDir' = tmpDir /\ finDir' = finDir /\ got' = got
      /\ gone' = gone /\ stage' = [stage EXCEPT ![w] = s] /\ s \in Stage
  BY DEF given, disk, Reaches, Ready
<1>2. /\ inCore' \in [Dir \cup {Outside} -> [FileName -> Contents]]
      /\ \A e \in Dir, n \in FinalName : inCore'[e][n] = inCore[e][n]
      /\ inCore'[Outside] = inCore[Outside]
  BY TmpChanges
<1>3. \A v \in Worker : stage'[v] = IF v = w THEN s ELSE stage[v]
  BY <1>1 DEF FilesInv, FilesType
<1>4. FilesType'
  BY <1>1, <1>2 DEF FilesInv, FilesType
<1>5. DirsInHand'
  BY <1>1, <1>3 DEF FilesInv, DirsInHand, Ready
<1>6. KeepsToItsTask'
  BY <1>1, <1>3 DEF FilesInv, KeepsToItsTask, Ready
<1>7. FlushedFirst'
  BY <1>1, <1>3 DEF FilesInv, FlushedFirst, Ready
<1>8. NamesHold'
  BY <1>1, <1>2, NamesKept DEF FilesInv
<1>9. NotYet'
  <2>1. \A v \in Worker : stage'[v] \in Unpublished => stage[v] \in Unpublished
    BY <1>3 DEF Ready
  <2> QED
    BY <1>1, <1>2, <2>1 DEF FilesInv, NotYet
<1>10. StaysThere'
  <2> SUFFICES ASSUME NEW v \in Worker, stage'[v] \in {"sync dir", "synced"}, v \notin gone,
                      stage'[v] = "synced" => finDir[v] \in Dir
               PROVE  /\ inCore'[finDir[v]][Final(v)] = v
                      /\ stage'[v] = "synced" => onDisk[finDir[v]][Final(v)] = v
    BY <1>1 DEF StaysThere, Final
  <2>1. stage[v] = stage'[v] /\ finDir[v] \in Dir /\ Final(v) \in FinalName
    BY <1>1, <1>3 DEF FilesInv, FilesType, DirsInHand, HasFinDir, Ready, Final, FinalName
  <2> QED
    BY <1>2, <2>1 DEF FilesInv, StaysThere
<1>11. OnePublisher' /\ ReadIsWhole' /\ OnlyItsOwnFiles'
  BY <1>1, <1>2 DEF FilesInv, OnePublisher, ReadIsWhole, OnlyItsOwnFiles, NoFiles
<1> QED
  BY <1>4, <1>5, <1>6, <1>7, <1>8, <1>9, <1>10, <1>11 DEF FilesInv

LEMMA CreateStep ==
  ASSUME FilesInv, NEW w \in Worker, CreateTmp(w)
  PROVE  FilesInv'
<1>1. /\ stage[w] = "create" /\ Reaches(w, "write")
      /\ inCore' = [inCore EXCEPT ![tmpDir[w]][w] = w]
      /\ UNCHANGED <<given, place, made, disk, whole, tmpDir, finDir, got, gone>>
  BY DEF CreateTmp
<1>2. tmpDir[w] \in made /\ w \in Contents
  BY <1>1 DEF FilesInv, DirsInHand, HasTmpDir, Contents
<1>3. Ready(w, "write")
  BY <1>1, <1>2 DEF Ready, FilesInv, KeepsToItsTask, Stage, Working, Finished, Finding,
           Tracked, HasTmpDir, HasFinDir, Written, AfterFlush, Unpublished
<1> QED
  BY <1>1, <1>2, <1>3, TmpMovesOn

LEMMA DiscardStep ==
  ASSUME FilesInv, NEW w \in Worker, DiscardTmp(w)
  PROVE  FilesInv'
<1>1. /\ stage[w] = "discard" /\ Reaches(w, "ended")
      /\ inCore' = [inCore EXCEPT ![tmpDir[w]][w] = Empty]
      /\ UNCHANGED <<given, place, made, disk, whole, tmpDir, finDir, got, gone>>
  BY DEF DiscardTmp
<1>2. tmpDir[w] \in made /\ Empty \in Contents
  BY <1>1 DEF FilesInv, DirsInHand, HasTmpDir, Contents
<1>3. Ready(w, "ended")
  BY DEF Ready, Stage, Working, Finished, Finding, Tracked, HasTmpDir, HasFinDir, Written,
           AfterFlush, Unpublished
<1> QED
  BY <1>1, <1>2, <1>3, TmpMovesOn

\* More content is complete, or on stable storage: nothing depends on less.
LEMMA MoreIsWritten ==
  ASSUME FilesInv,
         whole \subseteq whole', stable \subseteq stable', stable' \subseteq whole',
         whole' \subseteq Worker,
         UNCHANGED <<given, place, made, kept, inCore, onDisk, stage, tmpDir, finDir, got,
                     gone>>
  PROVE  FilesInv'
<1>1. /\ task' = task /\ exclusive' = exclusive /\ place' = place /\ made' = made
      /\ inCore' = inCore /\ onDisk' = onDisk /\ stage' = stage /\ kept' = kept
      /\ tmpDir' = tmpDir /\ finDir' = finDir /\ got' = got /\ gone' = gone
  BY DEF given
<1>2. FilesType'
  BY <1>1 DEF FilesInv, FilesType
<1>3. DirsInHand' /\ KeepsToItsTask' /\ FlushedFirst'
  BY <1>1 DEF FilesInv, DirsInHand, KeepsToItsTask, FlushedFirst
<1>4. NamesHold'
  BY <1>1, NamesKept DEF FilesInv
<1>5. NotYet'
  BY <1>1 DEF FilesInv, NotYet
<1>6. StaysThere'
  BY <1>1 DEF FilesInv, StaysThere, Final
<1>7. OnePublisher' /\ ReadIsWhole' /\ OnlyItsOwnFiles'
  BY <1>1 DEF FilesInv, OnePublisher, ReadIsWhole, OnlyItsOwnFiles, NoFiles
<1> QED
  BY <1>2, <1>3, <1>4, <1>5, <1>6, <1>7 DEF FilesInv

LEMMA WriteOutStep ==
  ASSUME FilesInv, NEW w \in Worker, WriteOut(w)
  PROVE  FilesInv'
<1>1. /\ stage[w] = "write" /\ Reaches(w, "find tmp")
      /\ UNCHANGED <<given, place, made, kept, inCore, onDisk, tmpDir, finDir, got, gone>>
      /\ whole' = whole \cup {w} /\ stable' = stable
  BY DEF WriteOut, disk
<1>2. Ready(w, "find tmp")
  BY <1>1 DEF Ready, FilesInv, DirsInHand, KeepsToItsTask, Stage, Working, Finished, Finding,
           Tracked, HasTmpDir, HasFinDir, Written, AfterFlush, Unpublished
<1>3. /\ whole \subseteq whole' /\ stable \subseteq stable' /\ stable' \subseteq whole'
      /\ whole' \subseteq Worker
  BY <1>1 DEF FilesInv, FilesType
<1> QED
  BY <1>1, <1>2, <1>3, MovesOn

LEMMA SyncFileStep ==
  ASSUME FilesInv, NEW w \in Worker, SyncFile(w)
  PROVE  FilesInv'
<1> DEFINE s == AfterSync(w)
<1>1. /\ stage[w] = "sync" /\ Reaches(w, s)
      /\ UNCHANGED <<given, place, made, kept, inCore, onDisk, tmpDir, finDir, got, gone>>
      /\ whole' = whole /\ stable' = stable \cup {w}
  BY DEF SyncFile
<1>2. w \in whole /\ task[w] \in {"publish_new", "replace"}
  BY <1>1 DEF FilesInv, FlushedFirst, Written, KeepsToItsTask, Tracked
<1>3. /\ s \in {"rename", "check", "rename over"}
      /\ s \in {"rename", "check"} => task[w] = "publish_new"
      /\ s = "check" => ~ exclusive
      /\ s = "rename over" => task[w] = "replace"
  BY <1>2 DEF AfterSync
<1> HIDE DEF s
<1>4. Ready(w, s)
  BY <1>1, <1>2, <1>3 DEF Ready, FilesInv, DirsInHand, Stage, Working, Finished, Finding,
           Tracked, HasTmpDir, HasFinDir, Written, AfterFlush, Unpublished
<1>5. /\ whole \subseteq whole' /\ stable \subseteq stable' /\ stable' \subseteq whole'
      /\ whole' \subseteq Worker
  BY <1>1, <1>2 DEF FilesInv, FilesType
<1> QED
  BY <1>1, <1>4, <1>5, MovesOn

-----------------------------------------------------------------------------
(***************************************************************************)
(* Published names.                                                        *)
(***************************************************************************)
\* What a rename does to the published names.
LEMMA MovedNames ==
  ASSUME FilesInv, NEW w \in Worker, tmpDir[w] \in made, finDir[w] \in made
  PROVE  /\ Moved(w) \in [Dir \cup {Outside} -> [FileName -> Contents]]
         /\ \A e \in Dir, n \in FinalName :
              Moved(w)[e][n] = IF e = finDir[w] /\ n = Final(w) THEN w ELSE inCore[e][n]
         /\ Moved(w)[Outside] = inCore[Outside]
<1> DEFINE t == [inCore EXCEPT ![tmpDir[w]][w] = Empty]
<1>1. w \in FileName /\ w \notin FinalName /\ FinalName \subseteq FileName
      /\ Empty \in Contents /\ w \in Contents /\ Final(w) \in FinalName
  BY FilesAssumption DEF FileName, FinalName, Contents, Final
<1>2. tmpDir[w] \in Dir /\ tmpDir[w] # Outside
  BY FilesAssumption DEF FilesInv, FilesType
<1>3. inCore \in [Dir \cup {Outside} -> [FileName -> Contents]]
  BY DEF FilesInv, FilesType
<1>4. /\ t \in [Dir \cup {Outside} -> [FileName -> Contents]]
      /\ \A e \in Dir, n \in FinalName : t[e][n] = inCore[e][n]
      /\ t[Outside] = inCore[Outside]
  <2> HIDE DEF FileName, FinalName, Contents, Outside
  <2>1. inCore[tmpDir[w]] \in [FileName -> Contents]
    BY <1>2, <1>3
  <2>2. [inCore[tmpDir[w]] EXCEPT ![w] = Empty] \in [FileName -> Contents]
    BY <2>1, <1>1
  <2>3. t = [inCore EXCEPT ![tmpDir[w]] = [inCore[tmpDir[w]] EXCEPT ![w] = Empty]]
    BY <1>3
  <2> HIDE DEF t
  <2>4. t \in [Dir \cup {Outside} -> [FileName -> Contents]]
    BY <1>2, <1>3, <2>2, <2>3
  <2>5. \A e \in Dir \cup {Outside} :
          t[e] = IF e = tmpDir[w] THEN [inCore[tmpDir[w]] EXCEPT ![w] = Empty] ELSE inCore[e]
    BY <1>2, <1>3, <2>3
  <2>6. \A n \in FinalName : [inCore[tmpDir[w]] EXCEPT ![w] = Empty][n] = inCore[tmpDir[w]][n]
    BY <1>1, <2>1
  <2> QED
    BY <1>2, <2>4, <2>5, <2>6
<1>5. Moved(w) = [t EXCEPT ![finDir[w]][Final(w)] = w]
  BY DEF Moved
<1> HIDE DEF t, Moved, FileName, FinalName, Contents, Outside
<1>6. /\ Moved(w) \in [Dir \cup {Outside} -> [FileName -> Contents]]
      /\ \A e \in Dir, n \in FinalName :
           Moved(w)[e][n] = IF e = finDir[w] /\ n = Final(w) THEN w ELSE t[e][n]
      /\ Moved(w)[Outside] = t[Outside]
  <2> DEFINE d == finDir[w]
             m == Final(w)
             row == [t[d] EXCEPT ![m] = w]
  <2>1. d \in Dir /\ d # Outside /\ m \in FinalName /\ m \in FileName
    BY <1>1, FilesAssumption DEF FilesInv, FilesType, Outside
  <2>2. Moved(w) = [t EXCEPT ![d] = row]
    BY <1>4, <1>5
  <2> HIDE DEF d, m
  <2>3. t[d] \in [FileName -> Contents]
    BY <1>4, <2>1
  <2>4. row \in [FileName -> Contents] /\ \A n \in FinalName : row[n] = IF n = m THEN w ELSE t[d][n]
    BY <1>1, <2>1, <2>3
  <2> HIDE DEF row
  <2>5. Moved(w) \in [Dir \cup {Outside} -> [FileName -> Contents]]
    BY <1>4, <2>1, <2>2, <2>4
  <2>6. \A e \in Dir \cup {Outside} : Moved(w)[e] = IF e = d THEN row ELSE t[e]
    BY <1>4, <2>1, <2>2
  <2>7. \A e \in Dir, n \in FinalName :
          Moved(w)[e][n] = IF e = d /\ n = m THEN w ELSE t[e][n]
    BY <2>4, <2>6
  <2> QED
    BY <2>1, <2>5, <2>6, <2>7 DEF d, m
<1> QED
  BY <1>4, <1>6

\* A file gets its published name: the rename replaces nothing that is not
\* counted as gone.
LEMMA GetsItsName ==
  ASSUME FilesInv, NEW w \in Worker, stage[w] \in {"rename", "rename over"},
         inCore' = Moved(w), Reaches(w, "sync dir"),
         gone \subseteq gone', gone' \subseteq Worker,
         inCore[finDir[w]][Final(w)] \in gone' \cup {Empty},
         \A v \in gone' : task[v] = "replace" \/ \E u \in Worker : task[u] = "delete",
         UNCHANGED <<given, place, made, disk, whole, tmpDir, finDir, got>>
  PROVE  FilesInv'
<1>1. /\ task' = task /\ exclusive' = exclusive /\ place' = place /\ made' = made
      /\ onDisk' = onDisk /\ stable' = stable /\ kept' = kept
      /\ whole' = whole /\ tmpDir' = tmpDir /\ finDir' = finDir /\ got' = got
      /\ stage' = [stage EXCEPT ![w] = "sync dir"]
  BY DEF given, disk, Reaches
<1>2. /\ tmpDir[w] \in made /\ finDir[w] \in made /\ finDir[w] \in Dir
      /\ w \in stable /\ task[w] \in {"publish_new", "replace"}
      /\ stage[w] \in Unpublished
  BY DEF FilesInv, FilesType, DirsInHand, HasTmpDir, HasFinDir, FlushedFirst, AfterFlush,
         KeepsToItsTask, Tracked, Unpublished
<1>3. /\ inCore' \in [Dir \cup {Outside} -> [FileName -> Contents]]
      /\ \A e \in Dir, n \in FinalName :
           inCore'[e][n] = IF e = finDir[w] /\ n = Final(w) THEN w ELSE inCore[e][n]
      /\ inCore'[Outside] = inCore[Outside]
  BY <1>2, MovedNames
<1>4. \A v \in Worker : stage'[v] = IF v = w THEN "sync dir" ELSE stage[v]
  BY <1>1 DEF FilesInv, FilesType
<1>5. Final(w) \in FinalName /\ task[w] = TaskFor(Final(w)) /\ \A v \in Worker : Final(v)' = Final(v)
  BY <1>1, <1>2 DEF Final, FinalName, TaskFor
<1>6. FilesType'
  BY <1>1, <1>3 DEF FilesInv, FilesType, Stage, Working, Tracked
<1>7. DirsInHand'
  BY <1>1, <1>2, <1>4 DEF FilesInv, DirsInHand, HasTmpDir
<1>8. KeepsToItsTask'
  <2>1. \A v \in Worker : v # w => stage'[v] = stage[v]
    BY <1>4
  <2>2. stage'[w] = "sync dir"
    BY <1>4
  <2>3. KeepsToItsTask
    BY DEF FilesInv
  <2> QED
    BY <1>1, <1>2, <2>1, <2>2, <2>3 DEF KeepsToItsTask
<1>9. FlushedFirst'
  <2>1. stage'[w] \notin Written
    BY <1>4 DEF Written
  <2>2. FlushedFirst
    BY DEF FilesInv
  <2> QED
    BY <1>1, <1>2, <1>4, <2>1, <2>2 DEF FlushedFirst
<1>10. NamesHold'
  <2> SUFFICES ASSUME NEW d \in Dir, NEW n \in FinalName
               PROVE  /\ inCore'[d][n] \in stable \cup {Empty}
                      /\ onDisk[d][n] \in stable \cup {Empty}
                      /\ inCore'[d][n] # Empty => task[inCore'[d][n]] = TaskFor(n)
                      /\ onDisk[d][n] # Empty => task[onDisk[d][n]] = TaskFor(n)
    BY <1>1 DEF NamesHold
  <2>1. /\ inCore[d][n] \in stable \cup {Empty}
        /\ onDisk[d][n] \in stable \cup {Empty}
        /\ inCore[d][n] # Empty => task[inCore[d][n]] = TaskFor(n)
        /\ onDisk[d][n] # Empty => task[onDisk[d][n]] = TaskFor(n)
    BY DEF FilesInv, NamesHold
  <2>2. CASE d = finDir[w] /\ n = Final(w)
    BY <2>1, <2>2, <1>2, <1>3, <1>5
  <2>3. CASE ~ (d = finDir[w] /\ n = Final(w))
    BY <2>1, <2>3, <1>3
  <2> QED
    BY <2>2, <2>3
<1>11. NotYet'
  <2> SUFFICES ASSUME NEW v \in Worker, NEW d \in Dir, NEW n \in FinalName,
                      stage'[v] \in Unpublished
               PROVE  inCore'[d][n] # v /\ onDisk[d][n] # v
    BY <1>1 DEF NotYet
  <2>1. v # w /\ stage[v] \in Unpublished
    BY <1>4 DEF Unpublished, Tracked
  <2>2. inCore[d][n] # v /\ onDisk[d][n] # v
    BY <2>1 DEF FilesInv, NotYet
  <2>3. inCore'[d][n] \in {w, inCore[d][n]}
    BY <1>3
  <2> QED
    BY <2>1, <2>2, <2>3
<1>12. StaysThere'
  <2> SUFFICES ASSUME NEW v \in Worker, stage'[v] \in {"sync dir", "synced"}, v \notin gone',
                      stage'[v] = "synced" => finDir[v] \in Dir
               PROVE  /\ inCore'[finDir[v]][Final(v)] = v
                      /\ stage'[v] = "synced" => onDisk[finDir[v]][Final(v)] = v
    BY <1>1, <1>5 DEF StaysThere
  <2>1. CASE v = w
    BY <2>1, <1>2, <1>3, <1>4, <1>5
  <2>2. CASE v # w
    <3>1. stage[v] = stage'[v] /\ finDir[v] \in Dir /\ Final(v) \in FinalName
      BY <1>1, <1>4, <2>2 DEF FilesInv, FilesType, DirsInHand, HasFinDir, Final, FinalName
    <3>2. /\ inCore[finDir[v]][Final(v)] = v
          /\ stage'[v] = "synced" => onDisk[finDir[v]][Final(v)] = v
      BY <3>1 DEF FilesInv, StaysThere
    <3>3. ~ (finDir[v] = finDir[w] /\ Final(v) = Final(w))
      BY <3>2, FilesAssumption
    <3> QED
      BY <3>1, <3>2, <3>3, <1>3
  <2> QED
    BY <2>1, <2>2
<1>13. OnePublisher' /\ ReadIsWhole' /\ OnlyItsOwnFiles'
  BY <1>1, <1>3 DEF FilesInv, OnePublisher, ReadIsWhole, OnlyItsOwnFiles, NoFiles
<1> QED
  BY <1>6, <1>7, <1>8, <1>9, <1>10, <1>11, <1>12, <1>13 DEF FilesInv

\* `rename_noreplace` meets no file.
LEMMA RenameNewStep ==
  ASSUME FilesInv, NEW w \in Worker, RenameNew(w)
  PROVE  FilesInv'
<1>1. /\ stage[w] = "rename" /\ inCore' = Moved(w) /\ Reaches(w, "sync dir") /\ gone' = gone
      /\ inCore[finDir[w]][Final(w)] = Empty
      /\ UNCHANGED <<given, place, made, disk, whole, tmpDir, finDir, got>>
  BY DEF RenameNew, Occupied
<1>2. gone' \subseteq Worker
  BY <1>1 DEF FilesInv, FilesType
<1>3. \A v \in gone' : task[v] = "replace" \/ \E u \in Worker : task[u] = "delete"
  BY <1>1 DEF FilesInv, OnlyItsOwnFiles
<1> QED
  BY <1>1, <1>2, <1>3, GetsItsName

\* rename(2) replaces a catalog, or without RENAME_NOREPLACE nothing: the only
\* publisher of an image has not published it yet.
LEMMA RenameOverStep ==
  ASSUME FilesInv, NEW w \in Worker, RenameOver(w)
  PROVE  FilesInv'
<1> DEFINE old == inCore[finDir[w]][Final(w)]
<1>1. /\ stage[w] = "rename over" /\ inCore' = Moved(w) /\ Reaches(w, "sync dir")
      /\ gone' = gone \cup ({old} \ {Empty})
      /\ UNCHANGED <<given, place, made, disk, whole, tmpDir, finDir, got>>
  BY DEF RenameOver
<1>2. finDir[w] \in Dir /\ Final(w) \in FinalName
  BY <1>1 DEF FilesInv, FilesType, DirsInHand, HasFinDir, Final, FinalName
<1>3. old \in stable \cup {Empty} /\ (old # Empty => task[old] = TaskFor(Final(w)))
  BY <1>2 DEF FilesInv, NamesHold
<1>4. gone' \subseteq Worker
  BY <1>1, <1>3 DEF FilesInv, FilesType
<1>5. old # Empty => task[old] = "replace"
  <2> SUFFICES ASSUME old # Empty, task[old] # "replace"
               PROVE  FALSE
    OBVIOUS
  <2>1. task[old] = "publish_new" /\ task[w] # "replace"
    BY <1>3 DEF TaskFor, Final
  <2>2. task[w] = "publish_new" /\ ~ exclusive
    BY <1>1, <2>1 DEF FilesInv, KeepsToItsTask, Tracked
  <2>3. old = w
    BY <1>3, <2>1, <2>2 DEF FilesInv, FilesType, OnePublisher
  <2> QED
    BY <1>1, <1>2, <2>3 DEF FilesInv, NotYet, Unpublished, Tracked
<1>6. \A v \in gone' : task[v] = "replace" \/ \E u \in Worker : task[u] = "delete"
  BY <1>1, <1>5 DEF FilesInv, OnlyItsOwnFiles
<1> QED
  BY <1>1, <1>4, <1>6, GetsItsName

\* `Synced`: from here on the name is on disk too.
LEMMA SyncDirStep ==
  ASSUME FilesInv, NEW w \in Worker, SyncDir(w)
  PROVE  FilesInv'
<1> DEFINE d == finDir[w]
<1>1. /\ stage[w] = "sync dir" /\ task' = task /\ exclusive' = exclusive /\ place' = place
      /\ made' = made /\ inCore' = inCore /\ stable' = stable /\ kept' = kept
      /\ whole' = whole /\ tmpDir' = tmpDir /\ finDir' = finDir /\ got' = got /\ gone' = gone
      /\ stage' = [stage EXCEPT ![w] = "synced"]
      /\ onDisk' = [onDisk EXCEPT ![d] = Published(d)]
  BY DEF SyncDir, Reaches, given
<1>2. d \in made /\ d \in Dir /\ w \in stable /\ task[w] \in {"publish_new", "replace"}
  BY <1>1 DEF FilesInv, FilesType, DirsInHand, HasFinDir, FlushedFirst, AfterFlush,
           KeepsToItsTask, Tracked
<1>3. /\ onDisk' \in [Dir -> [FinalName -> Contents]]
      /\ \A e \in Dir, n \in FinalName :
           onDisk'[e][n] = IF e = d THEN inCore[e][n] ELSE onDisk[e][n]
  <2>1. Published(d) \in [FinalName -> Contents]
    BY <1>2 DEF Published, FilesInv, FilesType, FileName
  <2>2. \A n \in FinalName : Published(d)[n] = inCore[d][n]
    BY DEF Published
  <2>3. onDisk \in [Dir -> [FinalName -> Contents]]
    BY DEF FilesInv, FilesType
  <2> HIDE DEF d
  <2> QED
    BY <1>1, <1>2, <2>1, <2>2, <2>3
<1>4. \A v \in Worker : stage'[v] = IF v = w THEN "synced" ELSE stage[v]
  BY <1>1 DEF FilesInv, FilesType
<1>5. \A v \in Worker : Final(v) \in FinalName /\ Final(v)' = Final(v)
  BY <1>1 DEF Final, FinalName
<1>6. FilesType'
  BY <1>1, <1>3 DEF FilesInv, FilesType, Stage, Finished
<1>7. DirsInHand'
  <2>1. stage'[w] \notin HasTmpDir \cup HasFinDir
    BY <1>4 DEF HasTmpDir, HasFinDir
  <2> QED
    BY <1>1, <1>4, <2>1 DEF FilesInv, DirsInHand
<1>8. KeepsToItsTask'
  <2>1. \A v \in Worker : v # w => stage'[v] = stage[v]
    BY <1>4
  <2>2. stage'[w] = "synced"
    BY <1>4
  <2> QED
    BY <1>1, <1>2, <2>1, <2>2 DEF FilesInv, KeepsToItsTask
<1>9. FlushedFirst'
  <2>1. stage'[w] \notin Written
    BY <1>4 DEF Written
  <2> QED
    BY <1>1, <1>2, <1>4, <2>1 DEF FilesInv, FlushedFirst
<1>10. NamesHold'
  <2> HIDE DEF d
  <2> SUFFICES ASSUME NEW e \in Dir, NEW n \in FinalName
               PROVE  /\ inCore[e][n] \in stable \cup {Empty}
                      /\ onDisk'[e][n] \in stable \cup {Empty}
                      /\ inCore[e][n] # Empty => task[inCore[e][n]] = TaskFor(n)
                      /\ onDisk'[e][n] # Empty => task[onDisk'[e][n]] = TaskFor(n)
    BY <1>1 DEF NamesHold
  <2>1. onDisk'[e][n] \in {inCore[e][n], onDisk[e][n]}
    BY <1>3
  <2> QED
    BY <2>1 DEF FilesInv, NamesHold
<1>11. NotYet'
  <2>1. \A v \in Worker : stage'[v] \in Unpublished => stage[v] \in Unpublished
    BY <1>4 DEF Unpublished, Tracked
  <2>2. \A e \in Dir, n \in FinalName : onDisk'[e][n] \in {inCore[e][n], onDisk[e][n]}
    BY <1>3
  <2> QED
    BY <1>1, <2>1, <2>2 DEF FilesInv, NotYet
<1>12. StaysThere'
  <2> SUFFICES ASSUME NEW v \in Worker, stage'[v] \in {"sync dir", "synced"}, v \notin gone,
                      stage'[v] = "synced" => finDir[v] \in Dir
               PROVE  /\ inCore[finDir[v]][Final(v)] = v
                      /\ stage'[v] = "synced" => onDisk'[finDir[v]][Final(v)] = v
    BY <1>1, <1>5 DEF StaysThere
  <2>1. CASE v = w
    <3>1. inCore[d][Final(w)] = w
      BY <1>1, <2>1 DEF FilesInv, StaysThere
    <3> QED
      BY <2>1, <3>1, <1>2, <1>3, <1>5
  <2>2. CASE v # w
    <3>1. /\ inCore[finDir[v]][Final(v)] = v
          /\ stage'[v] = "synced" => onDisk[finDir[v]][Final(v)] = v
      BY <2>2, <1>4 DEF FilesInv, StaysThere
    <3> QED
      BY <3>1, <1>3, <1>5
  <2> QED
    BY <2>1, <2>2
<1>13. OnePublisher' /\ ReadIsWhole' /\ OnlyItsOwnFiles'
  BY <1>1 DEF FilesInv, OnePublisher, ReadIsWhole, OnlyItsOwnFiles, NoFiles
<1> QED
  BY <1>6, <1>7, <1>8, <1>9, <1>10, <1>11, <1>12, <1>13 DEF FilesInv

\* A worker whose operation is over has nothing in hand.
LEMMA Over ==
  ASSUME FilesInv, NEW w \in Worker, stage' = [stage EXCEPT ![w] = "ended"],
         UNCHANGED <<task, exclusive, made, tmpDir, finDir, whole, stable>>
  PROVE  /\ DirsInHand' /\ KeepsToItsTask' /\ FlushedFirst'
         /\ \A v \in Worker : /\ stage'[v] \in Unpublished => stage[v] \in Unpublished
                              /\ stage'[v] \in {"sync dir", "synced"} => stage'[v] = stage[v]
<1>1. \A v \in Worker : v # w => stage'[v] = stage[v]
  BY DEF FilesInv, FilesType
<1>2. stage'[w] = "ended"
  BY DEF FilesInv, FilesType
<1>3. stage'[w] \notin HasTmpDir \cup HasFinDir \cup Written \cup AfterFlush \cup Unpublished
                        \cup Tracked \cup {"make", "find create", "create", "synced", "sync dir"}
                        \cup {"rename", "check", "rename over", "find delete", "unlink"}
  BY <1>2 DEF HasTmpDir, HasFinDir, Written, AfterFlush, Unpublished, Tracked
<1>4. DirsInHand'
  <2> SUFFICES ASSUME NEW v \in Worker
               PROVE  /\ stage'[v] \in HasTmpDir => tmpDir[v] \in made
                      /\ stage'[v] \in HasFinDir => finDir[v] \in made
    BY DEF DirsInHand
  <2> QED
    BY <1>1, <1>3 DEF FilesInv, DirsInHand
<1>5. KeepsToItsTask'
  BY <1>1, <1>3 DEF FilesInv, KeepsToItsTask
<1>6. FlushedFirst'
  BY <1>1, <1>3 DEF FilesInv, FlushedFirst
<1> QED
  BY <1>1, <1>3, <1>4, <1>5, <1>6

\* A reader opens a flushed file, or none.
LEMMA OpenRoStep ==
  ASSUME FilesInv, NEW w \in Worker, OpenRo(w)
  PROVE  FilesInv'
<1> DEFINE c == inCore[finDir[w]][Final(w)]
<1>1. /\ stage[w] = "open" /\ task' = task /\ exclusive' = exclusive /\ place' = place
      /\ made' = made /\ inCore' = inCore /\ stable' = stable /\ kept' = kept
      /\ whole' = whole /\ tmpDir' = tmpDir /\ finDir' = finDir /\ gone' = gone
      /\ onDisk' = onDisk
      /\ stage' = [stage EXCEPT ![w] = "ended"]
      /\ got' = [got EXCEPT ![w] = c]
  BY DEF OpenRo, Reaches, given, disk
<1>2. finDir[w] \in Dir /\ Final(w) \in FinalName
  BY <1>1 DEF FilesInv, FilesType, DirsInHand, HasFinDir, Final, FinalName
<1>3. c \in stable \cup {Empty} /\ c \in Contents
  BY <1>2 DEF FilesInv, FilesType, NamesHold, Contents
<1> HIDE DEF c
<1>4. \A v \in Worker : stage'[v] = IF v = w THEN "ended" ELSE stage[v]
  BY <1>1 DEF FilesInv, FilesType
<1>5. FilesType'
  BY <1>1, <1>3 DEF FilesInv, FilesType, Stage, Finished
<1>6. /\ DirsInHand' /\ KeepsToItsTask' /\ FlushedFirst'
      /\ \A v \in Worker : /\ stage'[v] \in Unpublished => stage[v] \in Unpublished
                           /\ stage'[v] \in {"sync dir", "synced"} => stage'[v] = stage[v]
  BY <1>1, Over
<1>9. NamesHold'
  BY <1>1, NamesKept DEF FilesInv
<1>10. NotYet'
  BY <1>1, <1>6, NotYetKept DEF FilesInv
<1>11. StaysThere'
  <2> SUFFICES ASSUME NEW v \in Worker, stage'[v] \in {"sync dir", "synced"}, v \notin gone,
                      stage'[v] = "synced" => finDir[v] \in Dir
               PROVE  /\ inCore[finDir[v]][Final(v)] = v
                      /\ stage'[v] = "synced" => onDisk[finDir[v]][Final(v)] = v
    BY <1>1 DEF StaysThere, Final
  <2> QED
    BY <1>6 DEF FilesInv, StaysThere
<1>12. ReadIsWhole'
  BY <1>1, <1>3 DEF FilesInv, FilesType, ReadIsWhole
<1>13. OnePublisher' /\ OnlyItsOwnFiles'
  BY <1>1 DEF FilesInv, OnePublisher, OnlyItsOwnFiles, NoFiles
<1> QED
  BY <1>5, <1>6, <1>9, <1>10, <1>11, <1>12, <1>13 DEF FilesInv

\* A deleted file is gone because a worker came to delete.
LEMMA UnlinkStep ==
  ASSUME FilesInv, NEW w \in Worker, Unlink(w)
  PROVE  FilesInv'
<1> DEFINE d == finDir[w]
           m == Final(w)
           old == inCore[d][m]
<1>1. /\ stage[w] = "unlink" /\ task' = task /\ exclusive' = exclusive /\ place' = place
      /\ made' = made /\ onDisk' = onDisk /\ stable' = stable /\ kept' = kept
      /\ whole' = whole /\ tmpDir' = tmpDir /\ finDir' = finDir /\ got' = got
      /\ stage' = [stage EXCEPT ![w] = "ended"]
      /\ gone' = gone \cup {old} /\ old # Empty
      /\ inCore' = [inCore EXCEPT ![d][m] = Empty]
  BY DEF Unlink, Reaches, Occupied, given, disk
<1>2. d \in Dir /\ m \in FinalName /\ m \in FileName /\ d # Outside /\ task[w] = "delete"
  BY <1>1, FilesAssumption
     DEF FilesInv, FilesType, DirsInHand, HasFinDir, Final, FinalName, FileName, KeepsToItsTask
<1>3. old \in stable /\ old \in Worker
  BY <1>1, <1>2 DEF FilesInv, FilesType, NamesHold
<1>4. /\ inCore' \in [Dir \cup {Outside} -> [FileName -> Contents]]
      /\ \A e \in Dir, n \in FinalName :
           inCore'[e][n] = IF e = d /\ n = m THEN Empty ELSE inCore[e][n]
      /\ inCore'[Outside] = inCore[Outside]
  <2> DEFINE row == [inCore[d] EXCEPT ![m] = Empty]
  <2>1. inCore \in [Dir \cup {Outside} -> [FileName -> Contents]] /\ Empty \in Contents
        /\ FinalName \subseteq FileName
    BY DEF FilesInv, FilesType, Contents, FileName
  <2>2. inCore' = [inCore EXCEPT ![d] = row]
    BY <1>1
  <2> HIDE DEF d, m, Outside, FileName, FinalName, Contents
  <2>3. inCore[d] \in [FileName -> Contents]
    BY <1>2, <2>1
  <2>4. row \in [FileName -> Contents]
        /\ \A n \in FinalName : row[n] = IF n = m THEN Empty ELSE inCore[d][n]
    BY <1>2, <2>1, <2>3
  <2> HIDE DEF row
  <2>5. inCore' \in [Dir \cup {Outside} -> [FileName -> Contents]]
    BY <1>2, <2>1, <2>2, <2>4
  <2>6. \A e \in Dir \cup {Outside} : inCore'[e] = IF e = d THEN row ELSE inCore[e]
    BY <1>2, <2>1, <2>2
  <2> QED
    BY <1>2, <2>4, <2>5, <2>6
<1>5. \A v \in Worker : stage'[v] = IF v = w THEN "ended" ELSE stage[v]
  BY <1>1 DEF FilesInv, FilesType
<1>6. FilesType'
  BY <1>1, <1>3, <1>4 DEF FilesInv, FilesType, Stage, Finished
<1>7. /\ DirsInHand' /\ KeepsToItsTask' /\ FlushedFirst'
      /\ \A v \in Worker : /\ stage'[v] \in Unpublished => stage[v] \in Unpublished
                           /\ stage'[v] \in {"sync dir", "synced"} => stage'[v] = stage[v]
  BY <1>1, Over
<1>10. NamesHold'
  <2> HIDE DEF d, m
  <2> QED
    BY <1>1, <1>4 DEF FilesInv, NamesHold
<1>11. NotYet'
  <2> SUFFICES ASSUME NEW v \in Worker, NEW e \in Dir, NEW n \in FinalName,
                      stage'[v] \in Unpublished
               PROVE  inCore'[e][n] # v /\ onDisk[e][n] # v
    BY <1>1 DEF NotYet
  <2>1. stage[v] \in Unpublished
    BY <1>7
  <2>2. inCore[e][n] # v /\ onDisk[e][n] # v
    BY <2>1 DEF FilesInv, NotYet
  <2>3. inCore'[e][n] \in {Empty, inCore[e][n]}
    BY <1>4
  <2> QED
    BY <2>2, <2>3, FilesAssumption
<1>12. StaysThere'
  <2> SUFFICES ASSUME NEW v \in Worker, stage'[v] \in {"sync dir", "synced"}, v \notin gone',
                      stage'[v] = "synced" => finDir[v] \in Dir
               PROVE  /\ inCore'[finDir[v]][Final(v)] = v
                      /\ stage'[v] = "synced" => onDisk[finDir[v]][Final(v)] = v
    BY <1>1 DEF StaysThere, Final
  <2>1. stage[v] = stage'[v] /\ finDir[v] \in Dir /\ Final(v) \in FinalName
    BY <1>1, <1>5 DEF FilesInv, FilesType, DirsInHand, HasFinDir, Final, FinalName
  <2>2. /\ inCore[finDir[v]][Final(v)] = v
        /\ stage'[v] = "synced" => onDisk[finDir[v]][Final(v)] = v
    BY <1>1, <2>1 DEF FilesInv, StaysThere
  <2>3. ~ (finDir[v] = d /\ Final(v) = m)
    BY <1>1, <2>2
  <2> HIDE DEF d, m
  <2> QED
    BY <2>1, <2>2, <2>3, <1>4
<1>13. OnePublisher' /\ ReadIsWhole'
  BY <1>1 DEF FilesInv, OnePublisher, ReadIsWhole
<1>14. OnlyItsOwnFiles'
  BY <1>1, <1>2, <1>4 DEF FilesInv, OnlyItsOwnFiles, NoFiles
<1> QED
  BY <1>6, <1>7, <1>10, <1>11, <1>12, <1>13, <1>14 DEF FilesInv

-----------------------------------------------------------------------------
(***************************************************************************)
(* The kernel, the power and the others.                                   *)
(***************************************************************************)
LEMMA WriteBackStep ==
  ASSUME FilesInv, WriteBack
  PROVE  FilesInv'
<1>1. /\ task' = task /\ exclusive' = exclusive /\ place' = place /\ made' = made
      /\ inCore' = inCore /\ whole' = whole /\ stage' = stage /\ tmpDir' = tmpDir
      /\ finDir' = finDir /\ got' = got /\ gone' = gone
  BY DEF WriteBack, given
<1>2. CASE (\E w \in whole : stable' = stable \cup {w}) /\ UNCHANGED <<onDisk, kept>>
  <2>1. /\ whole \subseteq whole' /\ stable \subseteq stable' /\ stable' \subseteq whole'
        /\ whole' \subseteq Worker
    BY <1>1, <1>2 DEF FilesInv, FilesType
  <2> QED
    BY <1>1, <1>2, <2>1, MoreIsWritten DEF given
<1>3. CASE (\E d \in made : kept' = kept \cup {d}) /\ UNCHANGED <<onDisk, stable>>
  <2>1. FilesType'
    BY <1>1, <1>3 DEF FilesInv, FilesType
  <2>2. DirsInHand' /\ KeepsToItsTask' /\ FlushedFirst' /\ NotYet'
    BY <1>1, <1>3 DEF FilesInv, DirsInHand, KeepsToItsTask, FlushedFirst, NotYet
  <2>3. NamesHold'
    BY <1>1, <1>3, NamesKept DEF FilesInv
  <2>4. StaysThere'
    BY <1>1, <1>3 DEF FilesInv, StaysThere, Final
  <2>5. OnePublisher' /\ ReadIsWhole' /\ OnlyItsOwnFiles'
    BY <1>1, <1>3 DEF FilesInv, OnePublisher, ReadIsWhole, OnlyItsOwnFiles, NoFiles
  <2> QED
    BY <2>1, <2>2, <2>3, <2>4, <2>5 DEF FilesInv
<1>4. CASE /\ \E d \in made : onDisk' = [onDisk EXCEPT ![d] = Published(d)]
           /\ UNCHANGED <<kept, stable>>
  <2> PICK d \in made : onDisk' = [onDisk EXCEPT ![d] = Published(d)]
    BY <1>4
  <2>1. d \in Dir /\ kept' = kept /\ stable' = stable
    BY <1>4 DEF FilesInv, FilesType
  <2>2. /\ onDisk' \in [Dir -> [FinalName -> Contents]]
        /\ \A e \in Dir, n \in FinalName :
             onDisk'[e][n] = IF e = d THEN inCore[e][n] ELSE onDisk[e][n]
    <3>1. Published(d) \in [FinalName -> Contents]
      BY <2>1 DEF Published, FilesInv, FilesType, FileName
    <3>2. \A n \in FinalName : Published(d)[n] = inCore[d][n]
      BY DEF Published
    <3>3. onDisk \in [Dir -> [FinalName -> Contents]]
      BY DEF FilesInv, FilesType
    <3> QED
      BY <2>1, <3>1, <3>2, <3>3
  <2>3. FilesType'
    BY <1>1, <2>1, <2>2 DEF FilesInv, FilesType
  <2>4. DirsInHand' /\ KeepsToItsTask' /\ FlushedFirst'
    BY <1>1, <2>1 DEF FilesInv, DirsInHand, KeepsToItsTask, FlushedFirst
  <2>5. \A e \in Dir, n \in FinalName : onDisk'[e][n] \in {inCore[e][n], onDisk[e][n]}
    BY <2>2
  <2>6. NamesHold'
    <3> SUFFICES ASSUME NEW e \in Dir, NEW n \in FinalName
                 PROVE  /\ inCore[e][n] \in stable \cup {Empty}
                        /\ onDisk'[e][n] \in stable \cup {Empty}
                        /\ inCore[e][n] # Empty => task[inCore[e][n]] = TaskFor(n)
                        /\ onDisk'[e][n] # Empty => task[onDisk'[e][n]] = TaskFor(n)
      BY <1>1, <2>1 DEF NamesHold
    <3> QED
      BY <2>5 DEF FilesInv, NamesHold
  <2>7. NotYet'
    BY <1>1, <2>5 DEF FilesInv, NotYet
  <2>8. StaysThere'
    <3> SUFFICES ASSUME NEW v \in Worker, stage[v] \in {"sync dir", "synced"}, v \notin gone,
                        stage[v] = "synced" => finDir[v] \in Dir
                 PROVE  /\ inCore[finDir[v]][Final(v)] = v
                        /\ stage[v] = "synced" => onDisk'[finDir[v]][Final(v)] = v
      BY <1>1 DEF StaysThere, Final
    <3>1. /\ inCore[finDir[v]][Final(v)] = v
          /\ stage[v] = "synced" => onDisk[finDir[v]][Final(v)] = v
      BY DEF FilesInv, StaysThere
    <3>2. Final(v) \in FinalName
      BY DEF Final, FinalName
    <3> QED
      BY <2>2, <3>1, <3>2
  <2>9. OnePublisher' /\ ReadIsWhole' /\ OnlyItsOwnFiles'
    BY <1>1, <2>1 DEF FilesInv, OnePublisher, ReadIsWhole, OnlyItsOwnFiles, NoFiles
  <2> QED
    BY <2>3, <2>4, <2>6, <2>7, <2>8, <2>9 DEF FilesInv
<1> QED
  BY <1>2, <1>3, <1>4 DEF WriteBack

\* Every name comes back as it was on disk, flushed, and nobody is at work.
LEMMA PowerLossStep ==
  ASSUME FilesInv, PowerLoss
  PROVE  FilesInv'
<1>1. /\ task' = task /\ exclusive' = exclusive /\ kept' = kept /\ stable' = stable
      /\ tmpDir' = tmpDir /\ got' = got /\ gone' = gone /\ made' = kept /\ whole' = stable
      /\ place' = IF place \in Dir \ kept THEN "absent" ELSE place
      /\ inCore' = [d \in Dir \cup {Outside} |-> [n \in FileName |->
                      IF d \in kept /\ n \in FinalName THEN onDisk[d][n] ELSE Empty]]
      /\ onDisk' = [d \in Dir |-> [n \in FinalName |-> inCore'[d][n]]]
      /\ stage' = [w \in Worker |-> IF stage[w] \in Working THEN "dead" ELSE stage[w]]
      /\ finDir' = [w \in Worker |-> IF finDir[w] \in kept THEN finDir[w] ELSE Outside]
  BY DEF PowerLoss, given
<1>2. FinalName \subseteq FileName /\ Outside \notin kept /\ kept \subseteq Dir /\ Empty \in Contents
  BY FilesAssumption DEF FileName, FilesInv, FilesType, Contents
<1>3. \A d \in Dir, n \in FinalName :
        /\ inCore'[d][n] = IF d \in kept THEN onDisk[d][n] ELSE Empty
        /\ onDisk'[d][n] = inCore'[d][n]
  BY <1>1, <1>2
<1>4. inCore' \in [Dir \cup {Outside} -> [FileName -> Contents]]
  <2>1. \A d \in Dir, n \in FinalName : onDisk[d][n] \in Contents
    BY DEF FilesInv, FilesType
  <2> QED
    BY <1>1, <1>2, <2>1
<1>5. onDisk' \in [Dir -> [FinalName -> Contents]]
  BY <1>1, <1>2, <1>4
<1>6. \A w \in Worker : stage'[w] = IF stage[w] \in Working THEN "dead" ELSE stage[w]
  BY <1>1
<1>7. \A w \in Worker : /\ stage'[w] \in Stage \ Working
                        /\ stage'[w] # "dead" => stage'[w] = stage[w]
  BY <1>6 DEF FilesInv, FilesType, Stage, Finished, Working, Finding, Tracked
<1>8. \A w \in Worker : /\ stage'[w] \notin HasTmpDir \cup HasFinDir \cup Written \cup Tracked
                        /\ stage'[w] \in AfterFlush => stage'[w] = stage[w]
                        /\ stage'[w] \in Unpublished => stage'[w] = stage[w]
                        /\ stage'[w] \notin {"make", "find create", "create", "rename", "check",
                                             "rename over", "find delete", "unlink", "sync dir"}
  BY <1>7 DEF Working, Finding, Tracked, HasTmpDir, HasFinDir, Written, AfterFlush, Unpublished
<1>9. FilesType'
  <2>1. place' \in made' \cup {"absent", "link"}
    BY <1>1 DEF FilesInv, FilesType
  <2>2. stage' \in [Worker -> Stage]
    BY <1>1, <1>7
  <2>3. finDir' \in [Worker -> Dir \cup {Outside}]
    BY <1>1, <1>2
  <2> QED
    BY <1>1, <1>2, <1>4, <1>5, <2>1, <2>2, <2>3 DEF FilesInv, FilesType
<1>10. DirsInHand'
  BY <1>8 DEF DirsInHand
<1>11. KeepsToItsTask'
  <2>1. \A w \in Worker : stage'[w] = "synced" => task[w] \in {"publish_new", "replace"}
    BY <1>7 DEF FilesInv, KeepsToItsTask
  <2> QED
    BY <1>1, <1>8, <2>1 DEF KeepsToItsTask
<1>12. FlushedFirst'
  BY <1>1, <1>8 DEF FilesInv, FlushedFirst
<1>13. NamesHold'
  <2> SUFFICES ASSUME NEW d \in Dir, NEW n \in FinalName
               PROVE  /\ inCore'[d][n] \in stable \cup {Empty}
                      /\ onDisk'[d][n] \in stable \cup {Empty}
                      /\ inCore'[d][n] # Empty => task[inCore'[d][n]] = TaskFor(n)
                      /\ onDisk'[d][n] # Empty => task[onDisk'[d][n]] = TaskFor(n)
    BY <1>1 DEF NamesHold
  <2>1. inCore'[d][n] \in {onDisk[d][n], Empty} /\ onDisk'[d][n] = inCore'[d][n]
    BY <1>3
  <2> QED
    BY <2>1 DEF FilesInv, NamesHold
<1>14. NotYet'
  <2> SUFFICES ASSUME NEW w \in Worker, NEW d \in Dir, NEW n \in FinalName,
                      stage'[w] \in Unpublished
               PROVE  inCore'[d][n] # w /\ onDisk'[d][n] # w
    BY DEF NotYet
  <2>1. onDisk[d][n] # w
    BY <1>8 DEF FilesInv, NotYet
  <2> QED
    BY <1>3, <2>1, FilesAssumption
<1>15. StaysThere'
  <2> SUFFICES ASSUME NEW v \in Worker, stage'[v] = "synced", v \notin gone, finDir'[v] \in Dir
               PROVE  inCore'[finDir'[v]][Final(v)] = v /\ onDisk'[finDir'[v]][Final(v)] = v
    BY <1>1, <1>8 DEF StaysThere, Final
  <2>1. finDir'[v] = finDir[v] /\ finDir[v] \in kept /\ Final(v) \in FinalName
    BY <1>1, FilesAssumption DEF Final, FinalName
  <2>2. onDisk[finDir[v]][Final(v)] = v
    BY <1>2, <1>7, <2>1 DEF FilesInv, StaysThere
  <2> QED
    BY <1>2, <1>3, <2>1, <2>2
<1>16. OnePublisher' /\ ReadIsWhole'
  BY <1>1 DEF FilesInv, OnePublisher, ReadIsWhole
<1>17. OnlyItsOwnFiles'
  <2>1. inCore'[Outside] = NoFiles
    BY <1>1, <1>2 DEF NoFiles
  <2> QED
    BY <1>1, <2>1 DEF FilesInv, OnlyItsOwnFiles, NoFiles
<1> QED
  BY <1>9, <1>10, <1>11, <1>12, <1>13, <1>14, <1>15, <1>16, <1>17 DEF FilesInv

\* What the name stands for matters to nobody who has the directory open.
LEMMA SwapStep ==
  ASSUME FilesInv, Swap
  PROVE  FilesInv'
<1>1. /\ task' = task /\ exclusive' = exclusive /\ made' = made /\ kept' = kept
      /\ inCore' = inCore /\ onDisk' = onDisk /\ stable' = stable /\ whole' = whole
      /\ stage' = stage /\ tmpDir' = tmpDir /\ finDir' = finDir /\ got' = got /\ gone' = gone
      /\ place' \in made \cup {"absent", "link"}
  BY DEF Swap, given, disk
<1>2. FilesType'
  BY <1>1 DEF FilesInv, FilesType
<1>3. DirsInHand' /\ KeepsToItsTask' /\ FlushedFirst' /\ NotYet'
  BY <1>1 DEF FilesInv, DirsInHand, KeepsToItsTask, FlushedFirst, NotYet
<1>4. NamesHold'
  BY <1>1, NamesKept DEF FilesInv
<1>5. StaysThere'
  BY <1>1 DEF FilesInv, StaysThere, Final
<1>6. OnePublisher' /\ ReadIsWhole' /\ OnlyItsOwnFiles'
  BY <1>1 DEF FilesInv, OnePublisher, ReadIsWhole, OnlyItsOwnFiles, NoFiles
<1> QED
  BY <1>2, <1>3, <1>4, <1>5, <1>6 DEF FilesInv

-----------------------------------------------------------------------------
(***************************************************************************)
(* The theorems.                                                           *)
(***************************************************************************)
LEMMA FilesInitially == FilesInit => FilesInv
<1> SUFFICES ASSUME FilesInit
             PROVE  FilesInv
  OBVIOUS
<1>1. /\ task \in [Worker -> Task] /\ exclusive \in BOOLEAN /\ OnePublisher
      /\ place = "absent" /\ made = {} /\ kept = {} /\ whole = {} /\ stable = {} /\ gone = {}
      /\ inCore = [d \in Dir \cup {Outside} |-> NoFiles]
      /\ onDisk = [d \in Dir |-> [n \in FinalName |-> Empty]]
      /\ stage = [w \in Worker |-> "begin"]
      /\ tmpDir = [w \in Worker |-> Outside] /\ finDir = [w \in Worker |-> Outside]
      /\ got = [w \in Worker |-> Empty]
  BY DEF FilesInit, OnePublisher
<1>2. NoFiles \in [FileName -> Contents] /\ Empty \in Contents
  BY DEF NoFiles, Contents
<1>3. FilesType
  BY <1>1, <1>2 DEF FilesType, Stage
<1>4. DirsInHand /\ KeepsToItsTask /\ FlushedFirst
  BY <1>1 DEF DirsInHand, KeepsToItsTask, FlushedFirst, HasTmpDir, HasFinDir, Written, AfterFlush,
           Tracked
<1>5. \A d \in Dir, n \in FinalName : inCore[d][n] = Empty /\ onDisk[d][n] = Empty
  BY <1>1 DEF NoFiles, FileName
<1>6. NamesHold /\ NotYet
  BY <1>5, FilesAssumption DEF NamesHold, NotYet
<1>7. StaysThere /\ ReadIsWhole /\ OnlyItsOwnFiles
  BY <1>1 DEF StaysThere, ReadIsWhole, OnlyItsOwnFiles
<1> QED
  BY <1>1, <1>3, <1>4, <1>6, <1>7 DEF FilesInv

LEMMA FilesStep == FilesInv /\ [FilesNext]_filesVars => FilesInv'
<1> SUFFICES ASSUME FilesInv, [FilesNext]_filesVars
             PROVE  FilesInv'
  OBVIOUS
<1>1. ASSUME NEW w \in Worker, Works(w)
      PROVE  FilesInv'
  BY <1>1, BeginStep, MakeStep, OpenDirStep, RefusedSteps, CreateStep, WriteOutStep,
     SyncFileStep, RenameNewStep, CheckFreeStep, RenameOverStep, SyncDirStep, DiscardStep,
     ListStep, OpenRoStep, UnlinkStep
     DEF Works
<1>2. CASE UNCHANGED filesVars
  <2>1. /\ task' = task /\ exclusive' = exclusive /\ made' = made /\ kept' = kept
        /\ inCore' = inCore /\ onDisk' = onDisk /\ stable' = stable /\ whole' = whole
        /\ stage' = stage /\ tmpDir' = tmpDir /\ finDir' = finDir /\ got' = got
        /\ gone' = gone /\ place' = place
    BY <1>2 DEF filesVars
  <2>2. UNCHANGED <<given, place, made, kept, inCore, onDisk, stage, tmpDir, finDir, got, gone>>
    BY <2>1 DEF given
  <2>3. /\ whole \subseteq whole' /\ stable \subseteq stable' /\ stable' \subseteq whole'
        /\ whole' \subseteq Worker
    BY <2>1 DEF FilesInv, FilesType
  <2> QED
    BY <2>2, <2>3, MoreIsWritten
<1> QED
  BY <1>1, <1>2, WriteBackStep, PowerLossStep, SwapStep DEF FilesNext

\* Every publication, reading and deletion on a local destination keeps its
\* place in the order written, flushed, renamed, synced (local.rs `publish`),
\* whatever others do to directories and whenever power is lost.
THEOREM FilesInvariant == FilesSpec => []FilesInv
<1>1. FilesInit => FilesInv
  BY FilesInitially
<1>2. FilesInv /\ [FilesNext]_filesVars => FilesInv'
  BY FilesStep
<1> QED
  BY <1>1, <1>2, PTL DEF FilesSpec

\* No crash leaves a partial file under a published name, what `publish` called
\* Synced stays, no image replaces another, and nothing is written through a
\* symlink (local.rs `publish`, `entry`).
THEOREM LocalFilesAreSafe == FilesSpec => []FilesAreSafe
<1>1. FilesInv => FilesAreSafe
  <2> SUFFICES ASSUME FilesInv
               PROVE  FilesAreSafe
    OBVIOUS
  <2>1. NoTornFile
    BY DEF FilesInv, FilesType, NamesHold, ReadIsWhole, NoTornFile
  <2>2. SyncedStays
    BY DEF FilesInv, StaysThere, SyncedStays
  <2> QED
    BY <2>1, <2>2 DEF FilesInv, FilesAreSafe
<1>2. FilesSpec => []FilesInv
  BY FilesInvariant
<1> QED
  BY <1>1, <1>2, PTL

-------------------------------------------------------------------------------
(***************************************************************************)
(* Publication on a remote destination, for any number of jobs that publish *)
(* one name, of attempts, of abandoned requests and of refusals, on every  *)
(* kind of server.                                                         *)
(*                                                                         *)
(* A success is recognised from two sizes that are looked up one after the *)
(* other, while abandoned requests still run.  The invariant says which    *)
(* requests can be abandoned at all (Requests), and that a temporary file  *)
(* which is gone has become the final one (Mine): that is why the absence  *)
(* of the source is evidence.  For the catalog it says where the old copy  *)
(* is (Copy) while it is moved aside.                                      *)
(***************************************************************************)
Placing(j) == [op |-> IF Replacing /\ server.posix THEN "over" ELSE "rename",
               from |-> Tmp(j), to |-> To]
Moving(j) == [op |-> "rename", from |-> To, to |-> Aside(j)]
Removing(n) == [op |-> "remove", from |-> n]

Renaming == {"rename", "statfrom", "statto"}

PublishType ==
  /\ mode \in {"image", "catalog", "first"}
  /\ server \in [posix : BOOLEAN, fsync : BOOLEAN]
  /\ fs \in [Name -> Content \cup {NoFile}]
  /\ flushed \subseteq Content
  /\ step \in [Job -> Renaming \cup {"idle", "sync", "lookold", "rmaside", "discard",
                                     "ok", "failed"}]
  /\ leg \in [Job -> {"main", "aside", "final"}]
  /\ round \in [Job -> Nat]
  /\ hard \in [Job -> BOOLEAN]
  /\ fromThere \in [Job -> BOOLEAN]

\* Only a catalog without an atomic replace goes the way over a second name.
Legs ==
  \A j \in Job :
    /\ leg[j] # "main" \/ step[j] = "lookold" => Replacing /\ ~ server.posix
    /\ leg[j] = "main" /\ step[j] \in Renaming => ~ Replacing \/ server.posix
    /\ leg[j] = "aside" => mode = "catalog"
    /\ step[j] \in {"idle", "sync", "lookold"} => leg[j] = "main"
    /\ step[j] = "rmaside" => leg[j] = "final"

\* One job replaces the catalog.
OneWriter ==
  Replacing => \E w \in Job : step[w] # "idle" /\ \A j \in Job \ {w} : step[j] = "idle"

\* The requests that may still run.
Requests ==
  /\ \A r \in late : \E j \in Job :
       r \in {Placing(j), Moving(j), Removing(Tmp(j)), Removing(Aside(j))}
  /\ \A j \in Job :
       /\ Placing(j) \in late => step[j] \notin {"idle", "sync", "lookold"} /\ leg[j] # "aside"
       /\ Moving(j) \in late => leg[j] # "main" /\ mode = "catalog"
       /\ Removing(Tmp(j)) \in late => step[j] = "failed"
       /\ Removing(Aside(j)) \in late => step[j] = "ok"

\* A temporary file leaves its name only to become the final one, until its job
\* discards it.
Mine ==
  \A j \in Job :
    /\ fs[Tmp(j)] \in {j, NoFile}
    /\ step[j] \in {"sync", "lookold"} => fs[Tmp(j)] = j
    /\ step[j] \in Renaming => fs[Tmp(j)] = j \/ (fs[To] = j /\ leg[j] # "aside")
    /\ step[j] = "statto" /\ ~ fromThere[j] /\ leg[j] # "aside" => fs[Tmp(j)] = NoFile
    /\ step[j] = "statto" /\ ~ fromThere[j] /\ leg[j] = "aside" => fs[To] = NoFile
    /\ step[j] = "rmaside" => fs[To] = j

\* The old catalog is in its place or set aside, until the new one is there.
Copy ==
  /\ mode = "catalog" /\ server.posix => fs[To] # NoFile
  /\ mode = "catalog" => \A j \in Job :
       /\ step[j] \notin {"idle", "ok"} => fs[To] # NoFile \/ fs[Aside(j)] # NoFile
       /\ step[j] \in {"sync", "lookold"} => fs[To] # NoFile
       /\ leg[j] = "final" /\ step[j] # "ok" => fs[Aside(j)] # NoFile
  /\ mode = "first" => \A j \in Job : step[j] \in {"sync", "lookold"} => fs[To] = NoFile

SyncedFirst ==
  server.fsync =>
    /\ \A j \in Job : step[j] \in Renaming \cup {"lookold", "rmaside"} => j \in flushed
    /\ \A j \in Job : Placing(j) \in late => j \in flushed
    /\ PublishedIsFlushed

PublishInv ==
  PublishType /\ Legs /\ OneWriter /\ Requests /\ Mine /\ Copy /\ SyncedFirst

-------------------------------------------------------------------------------
(***************************************************************************)
(* What a request does to the names.                                       *)
(***************************************************************************)
FileSystem == [Name -> Content \cup {NoFile}]

\* j's temporary file becomes the final one.
Puts(j) ==
  /\ fs' \in FileSystem
  /\ fs[Tmp(j)] # NoFile /\ ((Replacing /\ server.posix) \/ fs[To] = NoFile)
  /\ fs'[To] = fs[Tmp(j)]
  /\ \A k \in Job : /\ fs'[Tmp(k)] = IF k = j THEN NoFile ELSE fs[Tmp(k)]
                    /\ fs'[Aside(k)] = fs[Aside(k)]

\* The final file goes to j's second name.
Moves(j) ==
  /\ fs' \in FileSystem
  /\ fs[To] # NoFile /\ fs[Aside(j)] = NoFile
  /\ fs'[To] = NoFile
  /\ \A k \in Job : /\ fs'[Tmp(k)] = fs[Tmp(k)]
                    /\ fs'[Aside(k)] = IF k = j THEN fs[To] ELSE fs[Aside(k)]

Drops(j) ==
  /\ fs' \in FileSystem
  /\ fs'[To] = fs[To]
  /\ \A k \in Job : /\ fs'[Tmp(k)] = IF k = j THEN NoFile ELSE fs[Tmp(k)]
                    /\ fs'[Aside(k)] = fs[Aside(k)]

DropsAside(j) ==
  /\ fs' \in FileSystem
  /\ fs'[To] = fs[To]
  /\ \A k \in Job : /\ fs'[Tmp(k)] = fs[Tmp(k)]
                    /\ fs'[Aside(k)] = IF k = j THEN NoFile ELSE fs[Aside(k)]

LEMMA NamesDiffer ==
  /\ To \in Name
  /\ \A j \in Job : /\ Tmp(j) \in Name /\ Aside(j) \in Name
                    /\ Tmp(j) # To /\ Aside(j) # To
  /\ \A j, k \in Job : /\ Tmp(j) # Aside(k)
                       /\ j # k => Tmp(j) # Tmp(k) /\ Aside(j) # Aside(k)
BY DEF Name, To, Tmp, Aside

LEMMA NoFileIsNoContent == NoFile \notin Content
BY PublishAssumption DEF NoFile, Content

LEMMA RequestEffect ==
  ASSUME PublishType, NEW j \in Job
  PROVE  /\ Run(Placing(j)) => fs' = fs \/ Puts(j)
         /\ Run(Moving(j)) => fs' = fs \/ Moves(j)
         /\ Run(Removing(Tmp(j))) => fs' = fs \/ Drops(j)
         /\ Run(Removing(Aside(j))) => fs' = fs \/ DropsAside(j)
<1>1. fs \in FileSystem /\ \A n \in Name : fs[n] \in Content \cup {NoFile}
  BY DEF PublishType, FileSystem
<1>2. ASSUME Run(Placing(j)), fs' # fs PROVE Puts(j)
  <2>1. /\ fs[Tmp(j)] # NoFile /\ ((Replacing /\ server.posix) \/ fs[To] = NoFile)
        /\ fs' = [fs EXCEPT ![To] = fs[Tmp(j)], ![Tmp(j)] = NoFile]
    BY <1>2 DEF Run, Possible, After, Placing
  <2> QED
    BY <2>1, <1>1, NamesDiffer DEF Puts, FileSystem
<1>3. ASSUME Run(Moving(j)), fs' # fs PROVE Moves(j)
  <2>1. /\ fs[To] # NoFile /\ fs[Aside(j)] = NoFile
        /\ fs' = [fs EXCEPT ![Aside(j)] = fs[To], ![To] = NoFile]
    BY <1>3 DEF Run, Possible, After, Moving
  <2> QED
    BY <2>1, <1>1, NamesDiffer DEF Moves, FileSystem
<1>4. ASSUME Run(Removing(Tmp(j))), fs' # fs PROVE Drops(j)
  <2>1. fs' = [fs EXCEPT ![Tmp(j)] = NoFile]
    BY <1>4 DEF Run, Possible, After, Removing
  <2> QED
    BY <2>1, <1>1, NamesDiffer DEF Drops, FileSystem
<1>5. ASSUME Run(Removing(Aside(j))), fs' # fs PROVE DropsAside(j)
  <2>1. fs' = [fs EXCEPT ![Aside(j)] = NoFile]
    BY <1>5 DEF Run, Possible, After, Removing
  <2> QED
    BY <2>1, <1>1, NamesDiffer DEF DropsAside, FileSystem
<1> QED
  BY <1>2, <1>3, <1>4, <1>5

\* The requests of different jobs, and of one job, differ.
LEMMA RequestsDiffer ==
  /\ \A j, k \in Job : j # k => /\ Placing(j) # Placing(k) /\ Moving(j) # Moving(k)
                                /\ Removing(Tmp(j)) # Removing(Tmp(k))
                                /\ Removing(Aside(j)) # Removing(Aside(k))
  /\ \A j, k \in Job : /\ Placing(j) # Moving(k)
                       /\ Placing(j) # Removing(Tmp(k)) /\ Placing(j) # Removing(Aside(k))
                       /\ Moving(j) # Removing(Tmp(k)) /\ Moving(j) # Removing(Aside(k))
                       /\ Removing(Tmp(j)) # Removing(Aside(k))
<1>1. \A j \in Job : /\ Placing(j).from = Tmp(j) /\ Moving(j).to = Aside(j) /\ Moving(j).from = To
                     /\ Placing(j).op # "remove" /\ Moving(j).op # "remove"
  BY DEF Placing, Moving
<1>2. \A n : Removing(n).from = n /\ Removing(n).op = "remove"
  BY DEF Removing
<1> QED
  BY <1>1, <1>2, NamesDiffer

LEMMA WantedIs ==
  ASSUME Legs, NEW j \in Job
  PROVE  /\ leg[j] = "aside" => Wanted(j) = Moving(j)
         /\ leg[j] # "aside" => Wanted(j) = Placing(j)
BY DEF Legs, Wanted, Moving, Placing, From, Into

-------------------------------------------------------------------------------
(***************************************************************************)
(* The invariant.                                                          *)
(***************************************************************************)
LEMMA InvInit == PublishInit => PublishInv
<1> SUFFICES ASSUME PublishInit PROVE PublishInv
  OBVIOUS
<1>1. PICK J \in SUBSET Job :
        /\ Replacing => \E j \in Job : J = {j}
        /\ fs = [n \in Name |-> CASE n = To /\ mode = "catalog" -> "old"
                                  [] n[1] = "tmp" /\ n[2] \in J -> n[2]
                                  [] OTHER -> NoFile]
        /\ step = [j \in Job |-> IF j \in J THEN "sync" ELSE "idle"]
  BY DEF PublishInit
<1>2. /\ fs[To] = IF mode = "catalog" THEN "old" ELSE NoFile
      /\ \A j \in Job : fs[Tmp(j)] = IF j \in J THEN j ELSE NoFile
      /\ \A j \in Job : fs[Aside(j)] = NoFile
  BY <1>1, NamesDiffer DEF To, Tmp, Aside
<1>3. fs \in [Name -> Content \cup {NoFile}]
  BY <1>1 DEF Name, Content
<1>4. PublishType
  BY <1>1, <1>3 DEF PublishInit, PublishType, Renaming, Content
<1>5. Legs /\ Requests
  BY <1>1 DEF PublishInit, Legs, Requests, Renaming
<1>6. OneWriter
  BY <1>1 DEF OneWriter
<1>7. Mine /\ Copy
  BY <1>1, <1>2, PublishAssumption DEF Mine, Copy, Renaming, PublishInit, NoFile, Replacing
<1>8. SyncedFirst
  BY <1>1, <1>2 DEF SyncedFirst, Renaming, PublishInit, PublishedIsFlushed
<1> QED
  BY <1>4, <1>5, <1>6, <1>7, <1>8 DEF PublishInv

\* An abandoned request may run at any time.
LEMMA LateStep ==
  ASSUME PublishInv, LateRequest
  PROVE  PublishInv'
<1>1. PICK r \in late : Run(r) /\ late' = late \ {r}
  BY DEF LateRequest
<1>2. UNCHANGED <<mode, server, flushed, step, leg, round, hard, fromThere>>
  BY DEF LateRequest
<1>3. PICK j \in Job : r \in {Placing(j), Moving(j), Removing(Tmp(j)), Removing(Aside(j))}
  BY DEF PublishInv, Requests
<1>4. /\ PublishType /\ Legs /\ OneWriter /\ Requests /\ Mine /\ Copy /\ SyncedFirst
      /\ Replacing' = Replacing /\ \A k : Placing(k)' = Placing(k)
  BY <1>2 DEF PublishInv, Replacing, Placing
<1>5. \/ fs' = fs
      \/ r = Placing(j) /\ Puts(j)
      \/ r = Moving(j) /\ Moves(j)
      \/ r = Removing(Tmp(j)) /\ Drops(j)
      \/ r = Removing(Aside(j)) /\ DropsAside(j)
  BY <1>1, <1>3, <1>4, RequestEffect
<1>6. PublishType'
  BY <1>2, <1>4, <1>5 DEF PublishType, Puts, Moves, Drops, DropsAside, FileSystem
<1>7. Legs' /\ OneWriter'
  BY <1>2, <1>4 DEF Legs, OneWriter
<1>8. Requests'
  BY <1>1, <1>2, <1>4 DEF Requests
<1>9. /\ r = Placing(j) => step[j] \notin {"idle", "sync", "lookold"} /\ leg[j] # "aside"
      /\ r = Moving(j) => leg[j] # "main" /\ mode = "catalog"
      /\ r = Removing(Tmp(j)) => step[j] = "failed"
      /\ r = Removing(Aside(j)) => step[j] = "ok"
      /\ r = Placing(j) /\ server.fsync => j \in flushed
  BY <1>1, <1>4 DEF Requests, SyncedFirst
<1>10. Replacing => \A k \in Job \ {j} : step[k] = "idle"
  <2>1. step[j] # "idle"
    BY <1>3, <1>4, <1>9 DEF Legs
  <2>2. ASSUME Replacing PROVE \A k \in Job \ {j} : step[k] = "idle"
    <3>1. PICK w \in Job : \A k \in Job \ {w} : step[k] = "idle"
      BY <2>2, <1>4 DEF OneWriter
    <3> QED
      BY <3>1, <2>1
  <2> QED
    BY <2>2
<1>11. Mine'
  <2>1. CASE fs' = fs
    BY <2>1, <1>2, <1>4 DEF Mine
  <2>2. CASE r = Placing(j) /\ Puts(j)
    BY <2>2, <1>2, <1>4, <1>9, <1>10, PublishAssumption
    DEF Mine, Puts, Renaming, NoFile, Legs, Replacing
  <2>3. CASE r = Moving(j) /\ Moves(j)
    BY <2>3, <1>2, <1>4, <1>9, <1>10 DEF Mine, Moves, Renaming, Copy, Replacing, Legs, PublishType
  <2>4. CASE r = Removing(Tmp(j)) /\ Drops(j)
    BY <2>4, <1>2, <1>4, <1>9 DEF Mine, Drops, Renaming
  <2>5. CASE r = Removing(Aside(j)) /\ DropsAside(j)
    BY <2>5, <1>2, <1>4 DEF Mine, DropsAside
  <2> QED
    BY <1>5, <2>1, <2>2, <2>3, <2>4, <2>5
<1>12. Copy'
  <2>1. CASE fs' = fs
    BY <2>1, <1>2, <1>4 DEF Copy
  <2>2. CASE r = Placing(j) /\ Puts(j)
    BY <2>2, <1>2, <1>4, <1>9, <1>10 DEF Copy, Puts, Replacing
  <2>3. CASE r = Moving(j) /\ Moves(j)
    BY <2>3, <1>2, <1>4, <1>9, <1>10 DEF Copy, Moves, Replacing, Legs
  <2>4. CASE r = Removing(Tmp(j)) /\ Drops(j)
    BY <2>4, <1>2, <1>4 DEF Copy, Drops
  <2>5. CASE r = Removing(Aside(j)) /\ DropsAside(j)
    BY <2>5, <1>2, <1>4, <1>9 DEF Copy, DropsAside
  <2> QED
    BY <1>5, <2>1, <2>2, <2>3, <2>4, <2>5
<1>13. SyncedFirst'
  <2>1. PublishedIsFlushed' \/ ~ server.fsync
    BY <1>2, <1>4, <1>5, <1>9 DEF SyncedFirst, PublishedIsFlushed, Puts, Moves, Drops,
       DropsAside, Mine
  <2> QED
    BY <2>1, <1>1, <1>2, <1>4 DEF SyncedFirst
<1> QED
  BY <1>6, <1>7, <1>8, <1>11, <1>12, <1>13 DEF PublishInv

\* What a step of job j changes of the jobs: only j's own place.
OnlyMoves(j) ==
  /\ UNCHANGED <<mode, server>>
  /\ step[j] # "idle" /\ step'[j] # "idle"
  /\ \A k \in Job \ {j} : /\ step'[k] = step[k] /\ leg'[k] = leg[k]
                          /\ fromThere'[k] = fromThere[k]

\* A step that sends nothing: what has to be shown of job j.
LEMMA QuietStep ==
  ASSUME PublishInv, NEW j \in Job, OnlyMoves(j), PublishType', fs' = fs, late' = late,
         flushed \subseteq flushed',
         step'[j] # "sync", step'[j] = "ok" => step[j] \in Renaming,
         step'[j] = "lookold" => step[j] = "sync",
         step[j] \notin {"ok", "failed"},
         Legs', leg[j] = "main" \/ leg'[j] # "main",
         leg'[j] = "aside" => leg[j] = "aside" \/ step[j] = "lookold",
         Mine', Copy',
         server.fsync /\ step'[j] \in Renaming \cup {"lookold", "rmaside"} => j \in flushed'
  PROVE  PublishInv'
<1>1. /\ PublishType /\ Legs /\ OneWriter /\ Requests /\ Mine /\ Copy /\ SyncedFirst
      /\ Replacing' = Replacing /\ \A k : Placing(k)' = Placing(k)
  BY DEF PublishInv, Replacing, Placing, OnlyMoves
<1>2. OneWriter'
  <2>1. ASSUME Replacing PROVE \A k \in Job \ {j} : step[k] = "idle"
    BY <2>1, <1>1 DEF OneWriter, OnlyMoves
  <2> QED
    BY <2>1, <1>1 DEF OneWriter, OnlyMoves
<1>3. Requests'
  BY <1>1 DEF Requests, OnlyMoves
<1>4. SyncedFirst'
  BY <1>1 DEF SyncedFirst, PublishedIsFlushed, OnlyMoves
<1> QED
  BY <1>1, <1>2, <1>3, <1>4 DEF PublishInv

LEMMA SyncStep ==
  ASSUME PublishInv, NEW j \in Job, Sync(j) \/ SyncFails(j), UNCHANGED <<mode, server>>
  PROVE  PublishInv'
<1>1. /\ PublishType /\ Legs /\ Mine /\ Copy /\ SyncedFirst /\ Replacing' = Replacing
      /\ UNCHANGED <<fs, late, leg, round, hard, fromThere>> /\ step[j] = "sync"
  BY DEF PublishInv, Replacing, Sync, SyncFails
<1>2. /\ \/ step'[j] = "discard" /\ flushed' = flushed
         \/ /\ step'[j] = IF Replacing /\ ~ server.posix THEN "lookold" ELSE "rename"
            /\ server.fsync => j \in flushed'
      /\ \A k \in Job \ {j} : step'[k] = step[k]
      /\ flushed \subseteq flushed'
  BY <1>1 DEF Sync, SyncFails, Goes, PublishType
<1>3. PublishType'
  BY <1>1 DEF PublishType, Sync, SyncFails, Goes, Renaming, Content
<1>4. OnlyMoves(j) /\ step'[j] \in {"discard", "lookold", "rename"}
  BY <1>1, <1>2 DEF OnlyMoves
<1>5. Legs'
  BY <1>1, <1>2 DEF Legs, Renaming
<1>6. Mine' /\ Copy'
  BY <1>1, <1>2 DEF Mine, Copy, Legs, Renaming
<1>7. leg[j] = "main" /\ leg' = leg
  BY <1>1 DEF Legs
<1>8. server.fsync /\ step'[j] \in Renaming \cup {"lookold", "rmaside"} => j \in flushed'
  BY <1>2 DEF Renaming
<1> QED
  BY <1>1, <1>2, <1>3, <1>4, <1>5, <1>6, <1>7, <1>8, QuietStep DEF Renaming

LEMMA LookOldStep ==
  ASSUME PublishInv, NEW j \in Job, LookOld(j), UNCHANGED <<mode, server>>
  PROVE  PublishInv'
<1>1. /\ PublishType /\ Legs /\ Mine /\ Copy /\ SyncedFirst /\ Replacing' = Replacing
      /\ UNCHANGED <<fs, flushed, late, round, hard, fromThere>> /\ step[j] = "lookold"
  BY DEF PublishInv, Replacing, LookOld
<1>2. /\ step'[j] = "rename" /\ leg'[j] = IF fs[To] # NoFile THEN "aside" ELSE "final"
      /\ \A k \in Job \ {j} : step'[k] = step[k] /\ leg'[k] = leg[k]
  BY <1>1 DEF LookOld, Goes, PublishType
<1>3. PublishType'
  BY <1>1 DEF PublishType, LookOld, Goes, Renaming
<1>4. OnlyMoves(j)
  BY <1>1, <1>2 DEF OnlyMoves
<1>5. mode # "image" /\ ~ server.posix /\ (mode = "first" => fs[To] = NoFile)
      /\ (mode = "catalog" => fs[To] # NoFile) /\ mode \in {"image", "catalog", "first"}
  BY <1>1 DEF Legs, Replacing, Copy, PublishType
<1>6. Legs'
  BY <1>1, <1>2, <1>5 DEF Legs, Renaming, Replacing
<1>7. Mine'
  BY <1>1, <1>2 DEF Mine, Renaming
<1>8. Copy'
  BY <1>1, <1>2, <1>5 DEF Copy
<1>9. server.fsync => j \in flushed
  BY <1>1 DEF SyncedFirst
<1>10. leg[j] = "main"
  BY <1>1 DEF Legs
<1> QED
  BY <1>1, <1>2, <1>3, <1>4, <1>6, <1>7, <1>8, <1>9, <1>10, QuietStep DEF Renaming

\* The request was refused, or one of the sizes was looked up.
LEMMA LookStep ==
  ASSUME PublishInv, NEW j \in Job,
         \/ RenameRefused(j) \/ StatFrom(j) \/ StatToRetry(j)
         \/ StatToGivesUp(j) \/ StatFails(j),
         UNCHANGED <<mode, server>>
  PROVE  PublishInv'
<1>1. /\ PublishType /\ Legs /\ Mine /\ Copy /\ SyncedFirst /\ Replacing' = Replacing
      /\ UNCHANGED <<fs, flushed, late, leg>> /\ step[j] \in Renaming \cup {"lookold"}
  BY DEF PublishInv, Replacing, RenameRefused, StatFrom, StatToRetry, StatToGivesUp,
         StatFails, Renaming
<1>2. /\ \/ step[j] \in Renaming /\ step'[j] \in {"rename", "statfrom", "discard"}
         \/ step[j] = "lookold" /\ step'[j] = "discard"
         \/ /\ step[j] = "statfrom" /\ step'[j] = "statto"
            /\ fromThere'[j] = (fs[From(j)] # NoFile)
      /\ \A k \in Job \ {j} : step'[k] = step[k] /\ fromThere'[k] = fromThere[k]
  BY <1>1 DEF RenameRefused, StatFrom, StatToRetry, StatToGivesUp, StatFails, Renaming, Goes,
              PublishType
<1>3. PublishType'
  <2>1. /\ step' \in [Job -> Renaming \cup {"idle", "sync", "lookold", "rmaside", "discard",
                                            "ok", "failed"}]
        /\ round' \in [Job -> Nat] /\ hard' \in [Job -> BOOLEAN]
        /\ fromThere' \in [Job -> BOOLEAN]
    <3>1. CASE RenameRefused(j)
      BY <3>1, <1>1 DEF RenameRefused, Goes, Renaming, PublishType
    <3>2. CASE StatFrom(j)
      BY <3>2, <1>1 DEF StatFrom, Goes, Renaming, PublishType
    <3>3. CASE StatToRetry(j) \/ StatToGivesUp(j) \/ StatFails(j)
      BY <3>3, <1>1 DEF StatToRetry, StatToGivesUp, StatFails, Goes, Renaming, PublishType
    <3> QED
      BY <3>1, <3>2, <3>3
  <2> QED
    BY <2>1, <1>1 DEF PublishType
<1>4. OnlyMoves(j)
  BY <1>1, <1>2 DEF OnlyMoves, Renaming
<1>5. Legs'
  BY <1>1, <1>2 DEF Legs, Renaming
<1>6. Mine'
  BY <1>1, <1>2 DEF Mine, Renaming, From
<1>7. Copy'
  BY <1>1, <1>2 DEF Copy, Renaming
<1>8. server.fsync => j \in flushed
  BY <1>1 DEF SyncedFirst
<1>9. /\ step'[j] \in {"rename", "statfrom", "statto", "discard"}
      /\ step[j] \notin {"ok", "failed"}
  BY <1>1, <1>2 DEF Renaming
<1>10. leg' = leg
  BY <1>1
<1> QED
  BY <1>1, <1>3, <1>4, <1>5, <1>6, <1>7, <1>8, <1>9, <1>10, QuietStep DEF Renaming

\* The source is gone and the target there: an earlier attempt has succeeded.
LEMMA RecognisedStep ==
  ASSUME PublishInv, NEW j \in Job, StatToOk(j), UNCHANGED <<mode, server>>
  PROVE  PublishInv' /\ (step'[j] = "ok" => fs'[To] = j)
<1>1. /\ PublishType /\ Legs /\ Mine /\ Copy /\ SyncedFirst /\ Replacing' = Replacing
      /\ UNCHANGED <<fs, flushed, late, hard, fromThere>> /\ step[j] = "statto"
      /\ ~ fromThere[j] /\ fs[Into(j)] # NoFile
  BY DEF PublishInv, Replacing, StatToOk, Recognised, ToThere
<1>2. /\ \/ leg[j] = "aside" /\ leg'[j] = "final" /\ step'[j] = "rename"
         \/ leg[j] = "final" /\ leg'[j] = "final" /\ step'[j] = "rmaside"
         \/ leg[j] # "aside" /\ leg'[j] = leg[j] /\ step'[j] = "ok"
      /\ \A k \in Job \ {j} : step'[k] = step[k] /\ leg'[k] = leg[k]
  BY <1>1 DEF StatToOk, Renamed, Goes, PublishType
<1>3. PublishType'
  BY <1>1 DEF PublishType, StatToOk, Renamed, Goes, Renaming
<1>4. OnlyMoves(j)
  BY <1>1, <1>2 DEF OnlyMoves
<1>5. leg[j] # "aside" => fs[To] = j
  BY <1>1, PublishAssumption DEF Mine, Renaming, NoFile
<1>6. leg[j] = "aside" => fs[Aside(j)] # NoFile /\ mode = "catalog"
  BY <1>1 DEF Into, Legs
<1>7. Legs'
  BY <1>1, <1>2 DEF Legs, Renaming
<1>8. Mine'
  BY <1>1, <1>2, <1>5 DEF Mine, Renaming
<1>9. Copy'
  BY <1>1, <1>2, <1>6 DEF Copy
<1>10. server.fsync => j \in flushed
  BY <1>1 DEF SyncedFirst, Renaming
<1> QED
  BY <1>1, <1>2, <1>3, <1>4, <1>5, <1>7, <1>8, <1>9, <1>10, QuietStep DEF Renaming

\* In a replacement every other job is idle.
LEMMA OthersIdle ==
  ASSUME OneWriter, NEW j \in Job, step[j] # "idle", Replacing
  PROVE  \A k \in Job \ {j} : step[k] = "idle"
<1>1. PICK w \in Job : \A k \in Job \ {w} : step[k] = "idle"
  BY DEF OneWriter
<1> QED
  BY <1>1

\* The server ran the rename and said so.
LEMMA RenameOkStep ==
  ASSUME PublishInv, NEW j \in Job, RenameOk(j), UNCHANGED <<mode, server>>
  PROVE  PublishInv' /\ (step'[j] = "ok" => fs'[To] = j)
<1>1. /\ PublishType /\ Legs /\ OneWriter /\ Requests /\ Mine /\ Copy /\ SyncedFirst
      /\ Replacing' = Replacing /\ \A k : Placing(k)' = Placing(k)
      /\ UNCHANGED <<flushed, late, hard, fromThere>> /\ step[j] = "rename"
      /\ Possible(Wanted(j)) /\ Run(Wanted(j))
  BY DEF PublishInv, Replacing, Placing, RenameOk
<1>2. /\ \/ leg[j] = "aside" /\ leg'[j] = "final" /\ step'[j] = "rename"
         \/ leg[j] = "final" /\ leg'[j] = "final" /\ step'[j] = "rmaside"
         \/ leg[j] # "aside" /\ leg'[j] = leg[j] /\ step'[j] = "ok"
      /\ \A k \in Job \ {j} : step'[k] = step[k] /\ leg'[k] = leg[k]
  BY <1>1 DEF RenameOk, Renamed, Goes, PublishType
<1>3. /\ leg[j] = "aside" => Moves(j)
      /\ leg[j] # "aside" => Puts(j)
  <2>1. CASE leg[j] = "aside"
    <3>1. Possible(Moving(j)) /\ Run(Moving(j))
      BY <2>1, <1>1, WantedIs
    <3>2. fs[To] # NoFile /\ fs'[To] = NoFile
      BY <3>1, <1>1, NamesDiffer DEF Possible, Run, After, Moving, PublishType
    <3> QED
      BY <2>1, <3>1, <3>2, <1>1, RequestEffect
  <2>2. CASE leg[j] # "aside"
    <3>1. Possible(Placing(j)) /\ Run(Placing(j))
      BY <2>2, <1>1, WantedIs
    <3>2. fs[Tmp(j)] # NoFile /\ fs'[Tmp(j)] = NoFile
      BY <3>1, <1>1, NamesDiffer DEF Possible, Run, After, Placing, PublishType
    <3> QED
      BY <2>2, <3>1, <3>2, <1>1, RequestEffect
  <2> QED
    BY <2>1, <2>2
<1>4. Replacing => \A k \in Job \ {j} : step[k] = "idle"
  BY <1>1, OthersIdle
<1>5. PublishType'
  <2>1. fs' \in FileSystem
    BY <1>3 DEF Moves, Puts
  <2> QED
    BY <2>1, <1>1 DEF PublishType, RenameOk, Renamed, Goes, Renaming, FileSystem
<1>6. Legs' /\ OneWriter' /\ Requests'
  <2>1. Legs'
    BY <1>1, <1>2 DEF Legs, Renaming
  <2>2. OneWriter'
    BY <1>1, <1>2, <1>4 DEF OneWriter
  <2>3. Requests'
    BY <1>1, <1>2 DEF Requests
  <2> QED
    BY <2>1, <2>2, <2>3
<1>7. leg[j] # "aside" => fs[Tmp(j)] = j /\ fs'[To] = j
  BY <1>1, <1>3 DEF Puts, Mine
<1>8. Mine'
  <2>1. CASE leg[j] = "aside"
    BY <2>1, <1>1, <1>2, <1>3, <1>4 DEF Mine, Moves, Renaming, Legs, Replacing
  <2>2. CASE leg[j] # "aside"
    BY <2>2, <1>1, <1>2, <1>3, <1>4, <1>7, PublishAssumption
    DEF Mine, Puts, Renaming, NoFile, Legs, Replacing
  <2> QED
    BY <2>1, <2>2
<1>9. Copy'
  <2>1. CASE leg[j] = "aside"
    BY <2>1, <1>1, <1>2, <1>3, <1>4 DEF Copy, Moves, Legs, Replacing
  <2>2. CASE leg[j] # "aside"
    BY <2>2, <1>1, <1>2, <1>3, <1>4, <1>7 DEF Copy, Puts, Legs, Replacing
  <2> QED
    BY <2>1, <2>2
<1>10. SyncedFirst'
  <2>1. server.fsync => j \in flushed
    BY <1>1 DEF SyncedFirst, Renaming
  <2>2. server.fsync => PublishedIsFlushed'
    BY <2>1, <1>1, <1>3, <1>7 DEF PublishedIsFlushed, Moves
  <2> QED
    BY <2>1, <2>2, <1>1, <1>2 DEF SyncedFirst
<1> QED
  BY <1>2, <1>5, <1>6, <1>7, <1>8, <1>9, <1>10 DEF PublishInv

\* The reply is lost: the server ran the rename, will run it, or never does.
LEMMA RenameUnansweredStep ==
  ASSUME PublishInv, NEW j \in Job, RenameUnanswered(j), UNCHANGED <<mode, server>>
  PROVE  PublishInv'
<1>1. /\ PublishType /\ Legs /\ OneWriter /\ Requests /\ Mine /\ Copy /\ SyncedFirst
      /\ Replacing' = Replacing /\ \A k : Placing(k)' = Placing(k)
      /\ UNCHANGED <<flushed, leg, fromThere>> /\ step[j] = "rename"
  BY DEF PublishInv, Replacing, Placing, RenameUnanswered
<1>2. step'[j] = "statfrom" /\ \A k \in Job \ {j} : step'[k] = step[k]
  BY <1>1 DEF RenameUnanswered, Goes, PublishType
<1>3. /\ fs' = fs \/ (leg[j] = "aside" /\ Moves(j)) \/ (leg[j] # "aside" /\ Puts(j))
      /\ \/ late' = late
         \/ leg[j] = "aside" /\ late' = late \cup {Moving(j)}
         \/ leg[j] # "aside" /\ late' = late \cup {Placing(j)}
  BY <1>1, WantedIs, RequestEffect DEF RenameUnanswered
<1>4. Replacing => \A k \in Job \ {j} : step[k] = "idle"
  BY <1>1, OthersIdle
<1>5. PublishType'
  <2>1. fs' \in FileSystem
    BY <1>1, <1>3 DEF Moves, Puts, PublishType, FileSystem
  <2> QED
    BY <2>1, <1>1 DEF PublishType, RenameUnanswered, Goes, Renaming, FileSystem
<1>6. Legs' /\ OneWriter'
  <2>1. Legs'
    BY <1>1, <1>2 DEF Legs, Renaming
  <2>2. OneWriter'
    BY <1>1, <1>2, <1>4 DEF OneWriter
  <2> QED
    BY <2>1, <2>2
<1>7. Requests'
  <2>1. leg[j] = "aside" => mode' = "catalog"
    BY <1>1 DEF Legs
  <2> QED
    BY <2>1, <1>1, <1>2, <1>3, RequestsDiffer DEF Requests
<1>8. Mine'
  <2>1. CASE fs' = fs
    BY <2>1, <1>1, <1>2 DEF Mine, Renaming
  <2>2. CASE leg[j] = "aside" /\ Moves(j)
    BY <2>2, <1>1, <1>2, <1>4 DEF Mine, Moves, Renaming, Legs, Replacing
  <2>3. CASE leg[j] # "aside" /\ Puts(j)
    BY <2>3, <1>1, <1>2, <1>4, PublishAssumption
    DEF Mine, Puts, Renaming, NoFile, Legs, Replacing
  <2> QED
    BY <1>3, <2>1, <2>2, <2>3
<1>9. Copy'
  <2>1. CASE fs' = fs
    BY <2>1, <1>1, <1>2 DEF Copy
  <2>2. CASE leg[j] = "aside" /\ Moves(j)
    BY <2>2, <1>1, <1>2, <1>4 DEF Copy, Moves, Legs, Replacing
  <2>3. CASE leg[j] # "aside" /\ Puts(j)
    BY <2>3, <1>1, <1>2, <1>4 DEF Copy, Puts, Legs, Replacing
  <2> QED
    BY <1>3, <2>1, <2>2, <2>3
<1>10. SyncedFirst'
  <2>1. server.fsync => j \in flushed
    BY <1>1 DEF SyncedFirst, Renaming
  <2>2. server.fsync => PublishedIsFlushed'
    BY <2>1, <1>1, <1>3 DEF SyncedFirst, PublishedIsFlushed, Moves, Puts, Mine
  <2>3. server.fsync => \A k \in Job : Placing(k)' \in late' => k \in flushed'
    BY <2>1, <1>1, <1>3, RequestsDiffer DEF SyncedFirst
  <2> QED
    BY <2>1, <2>2, <2>3, <1>1, <1>2 DEF SyncedFirst, Renaming
<1> QED
  BY <1>5, <1>6, <1>7, <1>8, <1>9, <1>10 DEF PublishInv

\* The old copy or the temporary file is removed, now, later or never.
LEMMA RemovalStep ==
  ASSUME PublishInv, NEW j \in Job, RemoveAside(j) \/ Discard(j), UNCHANGED <<mode, server>>
  PROVE  PublishInv' /\ (step'[j] = "ok" => fs'[To] = j)
<1>1. /\ PublishType /\ Legs /\ OneWriter /\ Requests /\ Mine /\ Copy /\ SyncedFirst
      /\ Replacing' = Replacing /\ \A k : Placing(k)' = Placing(k)
      /\ UNCHANGED <<flushed, leg, round, hard, fromThere>>
  BY DEF PublishInv, Replacing, Placing, RemoveAside, Discard
<1>2. \/ /\ step[j] = "rmaside" /\ step'[j] = "ok" /\ (fs' = fs \/ DropsAside(j))
         /\ late' = late \/ late' = late \cup {Removing(Aside(j))}
      \/ /\ step[j] = "discard" /\ step'[j] = "failed" /\ (fs' = fs \/ Drops(j))
         /\ late' = late \/ late' = late \cup {Removing(Tmp(j))}
  BY <1>1, RequestEffect DEF RemoveAside, Discard, Removal, Removing, Goes, PublishType
<1>3. /\ step' = [step EXCEPT ![j] = step'[j]] /\ step'[j] \in {"ok", "failed"}
      /\ \A k \in Job \ {j} : step'[k] = step[k]
  BY <1>1 DEF RemoveAside, Discard, Goes, PublishType
<1>4. Replacing => \A k \in Job \ {j} : step[k] = "idle"
  BY <1>1, <1>2, OthersIdle
<1>5. PublishType'
  BY <1>1, <1>2, <1>3 DEF PublishType, Drops, DropsAside, FileSystem
<1>6. Legs' /\ OneWriter'
  <2>1. Legs'
    BY <1>1, <1>2, <1>3 DEF Legs, Renaming
  <2>2. OneWriter'
    BY <1>1, <1>2, <1>3, <1>4 DEF OneWriter
  <2> QED
    BY <2>1, <2>2
<1>7. Requests'
  BY <1>1, <1>2, <1>3, RequestsDiffer DEF Requests
<1>8. Mine'
  BY <1>1, <1>2, <1>3 DEF Mine, Renaming, Drops, DropsAside
<1>9. Copy'
  BY <1>1, <1>2, <1>3 DEF Copy, Drops, DropsAside
<1>10. SyncedFirst'
  <2>1. PublishedIsFlushed' = PublishedIsFlushed
    BY <1>1, <1>2 DEF PublishedIsFlushed, Drops, DropsAside
  <2>2. \A k \in Job : Placing(k)' \in late' <=> Placing(k) \in late
    BY <1>1, <1>2, RequestsDiffer
  <2> QED
    BY <2>1, <2>2, <1>1, <1>3 DEF SyncedFirst, Renaming
<1>11. step'[j] = "ok" => fs'[To] = j
  BY <1>1, <1>2 DEF Mine, DropsAside
<1> QED
  BY <1>5, <1>6, <1>7, <1>8, <1>9, <1>10, <1>11 DEF PublishInv

LEMMA StepKeeps ==
  ASSUME PublishInv, NEW j \in Job, Step(j)
  PROVE  PublishInv'
BY SyncStep, LookOldStep, LookStep, RecognisedStep, RenameOkStep, RenameUnansweredStep,
   RemovalStep DEF Step

LEMMA InvNext == PublishInv /\ [PublishNext]_publishVars => PublishInv'
<1> SUFFICES ASSUME PublishInv, [PublishNext]_publishVars PROVE PublishInv'
  OBVIOUS
<1>1. CASE UNCHANGED publishVars
  <2> USE <1>1 DEF publishVars
  <2>1. PublishType' /\ Replacing' = Replacing /\ \A k : Placing(k)' = Placing(k)
    BY DEF PublishInv, PublishType, Replacing, Placing
  <2>2. Legs' /\ OneWriter' /\ Mine' /\ Copy'
    BY <2>1 DEF PublishInv, Legs, OneWriter, Mine, Copy
  <2>3. Requests' /\ SyncedFirst'
    BY <2>1 DEF PublishInv, Requests, SyncedFirst, PublishedIsFlushed
  <2> QED
    BY <2>1, <2>2, <2>3 DEF PublishInv
<1> QED
  BY <1>1, StepKeeps, LateStep DEF PublishNext

\* Whatever is lost, late or refused, the temporary file of a publication that
\* still runs is there or has become the final one, and a catalog has a copy.
THEOREM PublishInvariant == PublishSpec => []PublishInv
BY InvInit, InvNext, PTL DEF PublishSpec

-------------------------------------------------------------------------------
(***************************************************************************)
(* What follows for the destination.                                       *)
(***************************************************************************)

\* No request that publishing an image can send takes the final name away.
LEMMA ImageIsKept ==
  ASSUME PublishInv, [PublishNext]_publishVars, mode = "image", fs[To] # NoFile
  PROVE  fs'[To] = fs[To]
<1>1. /\ PublishType /\ Legs /\ Requests /\ ~ Replacing
      /\ \A j \in Job : leg[j] = "main"
  BY DEF PublishInv, Legs, Replacing, PublishType
<1>2. \A j \in Job : ~ Puts(j)
  BY <1>1 DEF Puts
<1>3. ASSUME NEW j \in Job, Step(j) PROVE fs'[To] = fs[To]
  <2>1. CASE RenameOk(j) \/ RenameUnanswered(j)
    <3>1. fs' = fs \/ Run(Placing(j))
      BY <2>1, <1>1, WantedIs DEF RenameOk, RenameUnanswered
    <3> QED
      BY <3>1, <1>1, <1>2, RequestEffect
  <2>2. CASE RemoveAside(j) \/ Discard(j)
    <3>1. fs' = fs \/ Run(Removing(Aside(j))) \/ Run(Removing(Tmp(j)))
      BY <2>2 DEF RemoveAside, Discard, Removal, Removing
    <3> QED
      BY <3>1, <1>1, RequestEffect DEF Drops, DropsAside
  <2>3. CASE fs' = fs
    BY <2>3
  <2> QED
    BY <1>3, <2>1, <2>2, <2>3
    DEF Step, Sync, SyncFails, LookOld, RenameRefused, StatFrom, StatToOk, StatToRetry,
        StatToGivesUp, StatFails
<1>4. ASSUME LateRequest PROVE fs'[To] = fs[To]
  <2>1. PICK r \in late : Run(r)
    BY <1>4 DEF LateRequest
  <2>2. PICK j \in Job : r \in {Placing(j), Removing(Tmp(j)), Removing(Aside(j))}
    BY <1>1 DEF Requests
  <2> QED
    BY <2>1, <2>2, <1>1, <1>2, RequestEffect DEF Drops, DropsAside
<1> QED
  BY <1>3, <1>4 DEF PublishNext, publishVars

\* `publish_new_with` never replaces or deletes an image (R18), nothing that
\* was not flushed gets a final name (R19), and `replace_with` never leaves the
\* set without a copy of its catalog: for any number of jobs, attempts and
\* abandoned requests.
THEOREM PublicationIsSafe == PublishSpec => PublishedStays
<1>1. PublishInv /\ [PublishNext]_publishVars =>
        [mode = "image" /\ fs[To] # NoFile => fs'[To] = fs[To]]_publishVars
  BY ImageIsKept
<1>2. PublishInv => (server.fsync => PublishedIsFlushed)
  BY DEF PublishInv, SyncedFirst
<1>3. PublishInv => (mode = "catalog" => ReplaceKeepsACopy /\ CatalogAlwaysThere)
  <2> SUFFICES ASSUME PublishInv, mode = "catalog"
               PROVE  ReplaceKeepsACopy /\ CatalogAlwaysThere
    OBVIOUS
  <2>1. CatalogAlwaysThere
    BY DEF PublishInv, Copy, CatalogAlwaysThere
  <2>2. PICK w \in Job : step[w] # "idle"
    BY DEF PublishInv, OneWriter, Replacing
  <2>3. step[w] # "ok" => fs[To] # NoFile \/ fs[Aside(w)] # NoFile
    BY <2>2 DEF PublishInv, Copy
  <2> QED
    BY <2>1, <2>3, NamesDiffer DEF ReplaceKeepsACopy
<1>4. PublishSpec => ImageStays
  BY <1>1, PublishInvariant, PTL DEF PublishSpec, ImageStays
<1> QED
  BY <1>2, <1>3, <1>4, PublishInvariant, PTL DEF PublishedStays

\* The sizes that `renamed_with` compares after a lost reply never make another
\* job's success, or a late request, look like this job's own.
THEOREM SuccessIsMine == PublishSpec => OkMeansMine
<1>1. ASSUME PublishInv, NEW k \in Job, Step(k), NEW j \in Job, step'[j] = "ok", step[j] # "ok"
      PROVE  fs'[To] = j
  <2>1. step' = [step EXCEPT ![k] = step'[k]] /\ j = k
    <3>1. \E label : Goes(k, label)
      BY <1>1 DEF Step, Sync, SyncFails, LookOld, RenameOk, Renamed, RenameRefused,
                  RenameUnanswered, StatFrom, StatToOk, StatToRetry, StatToGivesUp, StatFails,
                  RemoveAside, Discard
    <3> QED
      BY <3>1, <1>1 DEF Goes, PublishInv, PublishType
  <2>2. StatToOk(j) \/ RenameOk(j) \/ RemoveAside(j)
    BY <2>1, <1>1
    DEF Step, Sync, SyncFails, LookOld, RenameRefused, RenameUnanswered, StatFrom, StatToRetry,
        StatToGivesUp, StatFails, Discard, Goes, PublishInv, PublishType
  <2> QED
    BY <2>1, <2>2, <1>1, RecognisedStep, RenameOkStep, RemovalStep DEF Step
<1>2. PublishInv /\ [PublishNext]_publishVars =>
        [\A j \in Job : (step'[j] = "ok" /\ step[j] # "ok") => fs'[To] = j]_publishVars
  BY <1>1 DEF PublishNext, LateRequest
<1> QED
  BY <1>2, PublishInvariant, PTL DEF PublishSpec, OkMeansMine
===============================================================================
