--------------------------- MODULE BackupSetProofs ----------------------------
(***************************************************************************)
(* Proofs about BackupSet and Schedule: what backup, retention and         *)
(* verification promise of a set, for any number of jobs, images, seconds  *)
(* and damaged files, and what the schedules that start them promise.      *)
(*                                                                         *)
(* None of the properties is inductive: each is about a decision that one  *)
(* step takes and a later step carries out.  SetInv says what the decision *)
(* still stands on in between.  A plan fits the chain it will extend, a    *)
(* retention run's kept chains still justify every file it has left to     *)
(* delete, a verification has read what it will mark; and the lock makes   *)
(* sure that nobody else publishes or deletes meanwhile.                   *)
(***************************************************************************)
EXTENDS BackupSet, Schedule, SequenceTheorems, FiniteSetTheorems, TLAPS

(***************************************************************************)
(* The inductive invariant.                                                *)
(***************************************************************************)
Published == 1 .. Len(sb)

Plans == [chain : Image \cup {None}, seq : Nat, parent : Image \cup {None}, created : Nat]
Retentions == [kept : SUBSET Image, doomed : SUBSET Image, passed : SUBSET Image,
               left : SUBSET Image, cat : Catalog]

\* The jobs that changed or will change the set hold its lock.
Locked == {"plan", "publish", "record", "select", "delete", "rebuild", "marking"}

SetType ==
  /\ sb \in Seq([chain : Image, seq : Nat, parent : Image \cup {None}, created : Nat])
  /\ Len(sb) <= MaxImages
  /\ files \subseteq Published
  /\ damage \in [Image -> Damage]
  /\ catalog \in Catalog
  /\ clock \in Nat
  /\ lock \in Job \cup {Nobody}
  /\ pc \in [Job -> Locked \cup {"idle", "mark"}]
  /\ plan \in [Job -> Plans \cup {NoPlan}]
  /\ ret \in [Job -> Retentions \cup {NoRetention}]
  /\ target \in [Job -> Image \cup {None}]
  /\ earned \subseteq Image

\* A full is the first of its chain, and no member is older than it.
Lineage ==
  \A i \in Published :
    /\ sb[i].chain \in 1 .. i
    /\ sb[i].seq = 0 => sb[i].chain = i
    /\ sb[sb[i].chain].created <= sb[i].created
    /\ sb[i].created <= clock

\* An image that is not there yet is not damaged.
Fresh == \A i \in Image \ Published : damage[i] = "none"

LockHeld == \A j \in Job : pc[j] \in Locked => lock = j

Incrementals(M) == {i \in M : sb[i].seq > 0}

\* A plan that is not a full goes behind the last member that can be read.
Fits(p) ==
  /\ p \in Plans
  /\ p.created <= clock
  /\ p.seq > 0 =>
       /\ p.parent \in Published
       /\ p.chain = sb[p.parent].chain
       /\ p.seq = sb[p.parent].seq + 1
       /\ sb[p.chain].created <= p.created
       /\ ~ Transient =>
            /\ \A i \in Members(Visible, p.chain) : sb[i].seq <= sb[p.parent].seq
            /\ MaxIncrementals > 0 =>
                 Cardinality(Incrementals(Members(Visible, p.chain))) < MaxIncrementals

PlansFit == \A j \in Job : pc[j] = "publish" => Fits(plan[j])

\* What a retention run still keeps justifies what it still deletes.
Justified(r) ==
  LET S == r.cat.members
  IN  /\ r \in Retentions
      /\ S \subseteq Published
      /\ r.left \subseteq {i \in S : sb[i].chain \in r.doomed}
      /\ {i \in S : sb[i].chain \notin r.doomed} \subseteq files
      /\ r.doomed # {} => \E c \in r.passed : c \notin r.doomed
      /\ \A c \in r.doomed \cap Complete(S) :
           /\ Cardinality({d \in Complete(S) \ r.doomed : sb[d].created >= sb[c].created})
                >= KeepCount
           /\ Verified(Members(S, c), r.cat.verified) =>
                \E d \in Complete(S) \ r.doomed : Verified(Members(S, d), r.cat.verified)
      /\ ~ Transient => r.cat.verified \subseteq earned

RetentionsJustified == \A j \in Job : pc[j] = "delete" => Justified(ret[j])

\* What a verification will mark it has read.
Earned(j) ==
  /\ target[j] \in Published
  /\ ~ Transient /\ target[j] \in Visible => Ancestry(Visible, target[j]) \subseteq earned

TargetsEarned == \A j \in Job : pc[j] \in {"mark", "marking"} => Earned(j)

SetInv ==
  /\ SetType /\ Lineage /\ Fresh /\ LockHeld
  /\ PlansFit /\ RetentionsJustified /\ TargetsEarned
  /\ ~ Transient => MarksWereEarned /\ ChainsAreBounded

-------------------------------------------------------------------------------
(***************************************************************************)
(* Finite sets and orders.                                                 *)
(***************************************************************************)
LEMMA ImagesAreFinite ==
  /\ IsFiniteSet(Image) /\ Image \subseteq Nat
  /\ \A S \in SUBSET Image : IsFiniteSet(S) /\ Cardinality(S) \in Nat
<1>1. IsFiniteSet(Image) /\ Image \subseteq Nat
  BY FS_Interval, SetAssumption DEF Image
<1>2. ASSUME NEW S \in SUBSET Image
      PROVE  IsFiniteSet(S) /\ Cardinality(S) \in Nat
  BY <1>1, FS_Subset, FS_CardinalityType
<1> QED
  BY <1>1, <1>2

LEMMA FewerWithout ==
  ASSUME NEW S, IsFiniteSet(S), NEW T \in SUBSET S, NEW x \in S, x \notin T
  PROVE  Cardinality(T) < Cardinality(S)
<1>1. S # T
  OBVIOUS
<1>2. Cardinality(T) <= Cardinality(S) /\ Cardinality(S) # Cardinality(T)
  BY <1>1, FS_Subset
<1>3. Cardinality(S) \in Nat /\ Cardinality(T) \in Nat
  BY FS_Subset, FS_CardinalityType
<1> QED
  BY <1>2, <1>3

\* In a finite set with a strict total order R (first is newest), the ranks are
\* 0, 1, 2, ...: exactly the first k elements have a rank below k.
LEMMA Ranks ==
  ASSUME NEW U, IsFiniteSet(U), NEW R,
         \A x \in U : <<x, x>> \notin R,
         \A x, y, z \in U : <<x, y>> \in R /\ <<y, z>> \in R => <<x, z>> \in R,
         \A x, y \in U : x # y => <<x, y>> \in R \/ <<y, x>> \in R,
         NEW rank, rank = [x \in U |-> Cardinality({y \in U : <<y, x>> \in R})]
  PROVE  /\ rank \in Surjection(U, 0 .. Cardinality(U) - 1)
         /\ \A x, y \in U : <<x, y>> \in R <=> rank[x] < rank[y]
<1> DEFINE Above(x) == {y \in U : <<y, x>> \in R}
           n == Cardinality(U)
<1>1. /\ n \in Nat
      /\ \A x \in U : IsFiniteSet(Above(x)) /\ Cardinality(Above(x)) \in Nat
  <2>1. \A x \in U : Above(x) \in SUBSET U
    OBVIOUS
  <2> QED
    BY <2>1, FS_Subset, FS_CardinalityType
<1>2. ASSUME NEW x \in U, NEW y \in U, <<x, y>> \in R
      PROVE  Cardinality(Above(x)) < Cardinality(Above(y))
  <2>1. Above(x) \in SUBSET Above(y) /\ x \in Above(y) /\ x \notin Above(x)
    BY <1>2
  <2> HIDE DEF Above
  <2> QED
    BY <2>1, <1>1, FewerWithout
<1>3. ASSUME NEW x \in U
      PROVE  Cardinality(Above(x)) \in 0 .. n - 1
  <2>1. Above(x) \in SUBSET U /\ x \in U /\ x \notin Above(x)
    OBVIOUS
  <2> HIDE DEF Above
  <2>2. Cardinality(Above(x)) < n
    BY <2>1, FewerWithout
  <2> QED
    BY <2>2, <1>1
<1>4. \A x \in U : rank[x] = Cardinality(Above(x))
  OBVIOUS
<1>5. \A x, y \in U : <<x, y>> \in R <=> rank[x] < rank[y]
  <2>1. \A x, y \in U : <<x, y>> \in R => rank[x] < rank[y]
    BY <1>2, <1>4
  <2>2. \A x \in U : rank[x] \in Nat
    BY <1>1, <1>4
  <2>3. SUFFICES ASSUME NEW x \in U, NEW y \in U, rank[x] < rank[y]
                 PROVE  <<x, y>> \in R
    BY <2>1
  <2>4. rank[x] \in Nat /\ rank[y] \in Nat /\ rank[x] # rank[y] /\ ~ (rank[y] < rank[x])
    BY <2>2, <2>3
  <2>5. x # y /\ <<y, x>> \notin R
    BY <2>1, <2>4
  <2> QED
    BY <2>5
<1>6. rank \in [U -> 0 .. n - 1]
  <2> HIDE DEF Above, n
  <2> QED
    BY <1>3, <1>4
<1>7. \A x, y \in U : rank[x] = rank[y] => x = y
  BY <1>5, <1>1, <1>4
<1>8. rank \in Injection(U, 0 .. n - 1)
  BY <1>6, <1>7 DEF Injection, IsInjective
<1>9. IsFiniteSet(0 .. n - 1) /\ Cardinality(0 .. n - 1) = n
  BY <1>1, FS_Interval
<1>10. rank \in Surjection(U, 0 .. n - 1)
  BY <1>8, <1>9, FS_Injection
<1> QED
  BY <1>5, <1>10

LEMMA FirstOnes ==
  ASSUME NEW U, IsFiniteSet(U), NEW rank \in Surjection(U, 0 .. Cardinality(U) - 1),
         NEW k \in Nat, k <= Cardinality(U)
  PROVE  Cardinality({x \in U : rank[x] < k}) >= k
<1> DEFINE F == {x \in U : rank[x] < k}
           f == [x \in F |-> rank[x]]
<1>1. Cardinality(U) \in Nat /\ IsFiniteSet(F) /\ Cardinality(F) \in Nat
  <2>1. F \in SUBSET U
    OBVIOUS
  <2> QED
    BY <2>1, FS_Subset, FS_CardinalityType
<1>2. \A t \in 0 .. Cardinality(U) - 1 : \E x \in U : rank[x] = t
  BY DEF Surjection
<1>3. \A x \in U : rank[x] \in 0 .. Cardinality(U) - 1
  BY DEF Surjection
<1>4. f \in Surjection(F, 0 .. k - 1)
  <2>1. f \in [F -> 0 .. k - 1]
    BY <1>1, <1>3
  <2>2. ASSUME NEW t \in 0 .. k - 1
        PROVE  \E x \in F : f[x] = t
    BY <1>1, <1>2
  <2> QED
    BY <2>1, <2>2 DEF Surjection
<1>5. Cardinality(0 .. k - 1) <= Cardinality(F)
  BY <1>1, <1>4, FS_Surjection
<1>6. Cardinality(0 .. k - 1) = k
  BY FS_Interval
<1> QED
  BY <1>1, <1>5, <1>6

-------------------------------------------------------------------------------
(***************************************************************************)
(* Chains.                                                                 *)
(***************************************************************************)
LEMMA PublishedImages ==
  ASSUME SetType
  PROVE  /\ Published \subseteq Image
         /\ Len(sb) \in Nat
         /\ \A i \in Published : /\ sb[i].chain \in Image /\ sb[i].seq \in Nat
                                 /\ sb[i].parent \in Image \cup {None}
                                 /\ sb[i].created \in Nat
<1> DEFINE Rec == [chain : Image, seq : Nat, parent : Image \cup {None}, created : Nat]
<1>1. sb \in Seq(Rec) /\ Len(sb) <= MaxImages
  BY DEF SetType
<1>2. Len(sb) \in Nat /\ \A i \in Published : sb[i] \in Rec
  <2> HIDE DEF Rec
  <2> QED
    BY <1>1 DEF Published
<1>3. Published \subseteq Image
  BY <1>1, <1>2, SetAssumption DEF Published, Image
<1> QED
  BY <1>2, <1>3

\* A complete chain has its full, which is its oldest member.
LEMMA ChainDate ==
  ASSUME SetType, Lineage, NEW S \in SUBSET Published, NEW c \in Complete(S)
  PROVE  c \in Members(S, c) /\ c \in Image /\ CreatedOf(S, c) = sb[c].created
<1>1. Members(S, c) \in SUBSET Image /\ NoGaps(Members(S, c))
  BY PublishedImages DEF Complete, Members
<1>2. Cardinality(Members(S, c)) \in Nat /\ Cardinality(Members(S, c)) # 0
  BY <1>1, ImagesAreFinite, FS_EmptySet DEF NoGaps
<1>3. 0 \in Seqs(Members(S, c))
  BY <1>1, <1>2 DEF NoGaps
<1>4. PICK i \in Members(S, c) : sb[i].seq = 0
  BY <1>3 DEF Seqs
<1>5. i = c
  BY <1>4 DEF Members, Lineage
<1>6. c \in Members(S, c) /\ c \in Published /\ c \in Image
  BY <1>4, <1>5, PublishedImages DEF Members
<1> DEFINE t == {sb[k].created : k \in Members(S, c)}
<1>7. sb[c].created \in t /\ \A n \in t : n \in Nat /\ sb[c].created <= n
  BY <1>6, PublishedImages DEF Members, Lineage
<1>8. \A m \in t : (\A n \in t : m <= n) => m = sb[c].created
  <2> HIDE DEF t
  <2> QED
    BY <1>7
<1>9. (CHOOSE m \in t : \A n \in t : m <= n) = sb[c].created
  <2> HIDE DEF t
  <2> QED
    BY <1>7, <1>8
<1> QED
  BY <1>6, <1>9 DEF CreatedOf

\* The first k of some complete chains: there are k of them if one is left out,
\* and whatever is left out is no newer.
LEMMA TheNewest ==
  ASSUME SetType, Lineage, NEW S \in SUBSET Published, NEW U \in SUBSET Complete(S),
         NEW k \in Nat
  PROVE  /\ NewestOf(S, U, k) \subseteq U
         /\ \A c \in U \ NewestOf(S, U, k) :
              /\ Cardinality(NewestOf(S, U, k)) >= k
              /\ \A d \in NewestOf(S, U, k) : sb[d].created >= sb[c].created
         /\ U # {} /\ k > 0 => NewestOf(S, U, k) # {}
<1> DEFINE R == {p \in U \X U : Newer(S, p[1], p[2])}
           rank == [x \in U |-> Cardinality({y \in U : <<y, x>> \in R})]
           N == Cardinality(U)
<1>1. IsFiniteSet(U) /\ N \in Nat
  <2>1. U \in SUBSET Image
    BY ChainDate
  <2> QED
    BY <2>1, ImagesAreFinite
<1>2. \A c \in U : /\ CreatedOf(S, c) = sb[c].created /\ sb[c].created \in Nat
                   /\ ChainId[c] \in Nat
  <2> TAKE c \in U
  <2>1. c \in Image /\ c \in Published /\ CreatedOf(S, c) = sb[c].created
    BY ChainDate DEF Members
  <2> QED
    BY <2>1, PublishedImages, SetAssumption DEF Image
<1>3. \A x, y \in U : <<x, y>> \in R <=> Newer(S, x, y)
  OBVIOUS
<1>4. \A x, y \in U : <<x, y>> \in R <=>
        \/ sb[x].created > sb[y].created
        \/ sb[x].created = sb[y].created /\ ChainId[x] > ChainId[y]
  <2> HIDE DEF R
  <2> QED
    BY <1>2, <1>3 DEF Newer
<1>5. \A x, y \in U : x # y => ChainId[x] # ChainId[y]
  <2>1. U \subseteq Image
    BY ChainDate
  <2> QED
    BY <2>1, SetAssumption DEF Image
<1> HIDE DEF R, N
<1>6. /\ \A x \in U : <<x, x>> \notin R
      /\ \A x, y, z \in U : <<x, y>> \in R /\ <<y, z>> \in R => <<x, z>> \in R
      /\ \A x, y \in U : x # y => <<x, y>> \in R \/ <<y, x>> \in R
  BY <1>2, <1>4, <1>5
<1>7. /\ rank \in Surjection(U, 0 .. N - 1)
      /\ \A x, y \in U : <<x, y>> \in R <=> rank[x] < rank[y]
  BY <1>1, <1>6, Ranks DEF N
<1>8. \A x \in U : rank[x] \in 0 .. N - 1
  BY <1>7 DEF Surjection
<1>9. \A x \in U : {y \in U : <<y, x>> \in R} = {d \in U : Newer(S, d, x)}
  BY <1>3
<1>10. NewestOf(S, U, k) = {x \in U : rank[x] < k}
  BY <1>9 DEF NewestOf
<1> HIDE DEF rank
<1>11. ASSUME NEW c \in U \ NewestOf(S, U, k)
       PROVE  /\ Cardinality(NewestOf(S, U, k)) >= k
              /\ \A d \in NewestOf(S, U, k) : sb[d].created >= sb[c].created
  <2>1. rank[c] >= k /\ k <= N
    BY <1>1, <1>8, <1>10
  <2>2. Cardinality(NewestOf(S, U, k)) >= k
    BY <2>1, <1>1, <1>7, <1>10, FirstOnes DEF N
  <2>3. ASSUME NEW d \in NewestOf(S, U, k)
        PROVE  sb[d].created >= sb[c].created
    <3>1. d \in U /\ rank[d] < rank[c]
      BY <2>1, <1>1, <1>8, <1>10
    <3>2. <<d, c>> \in R
      BY <3>1, <1>7
    <3> QED
      BY <3>1, <3>2, <1>2, <1>4
  <2> QED
    BY <2>2, <2>3
<1>12. ASSUME U # {}, k > 0
       PROVE  NewestOf(S, U, k) # {}
  <2>1. 0 \in 0 .. N - 1
    BY <1>12, <1>1, FS_EmptySet DEF N
  <2>2. PICK x \in U : rank[x] = 0
    BY <2>1, <1>7 DEF Surjection
  <2> QED
    BY <2>2, <1>10, <1>12
<1> QED
  BY <1>10, <1>11, <1>12

\* What retention decides is justified by what it decides to keep.
LEMMA SelectionJustified ==
  ASSUME SetType, Lineage, NEW S \in SUBSET Published, NEW U \in SUBSET Complete(S),
         NEW marks, NEW kept, kept = Kept(S, U, marks),
         NEW doomed, doomed = Doomed(S, U, kept)
  PROVE  /\ kept \subseteq Complete(S) \ doomed
         /\ doomed \subseteq Image
         /\ \A c \in doomed \cap Complete(S) :
              /\ Cardinality({d \in Complete(S) \ doomed : sb[d].created >= sb[c].created})
                   >= KeepCount
              /\ Verified(Members(S, c), marks) =>
                   \E d \in Complete(S) \ doomed : Verified(Members(S, d), marks)
<1> DEFINE first == NewestOf(S, U, KeepCount)
           known == {c \in U : Verified(Members(S, c), marks)}
<1>1. KeepCount \in Nat
  BY SetAssumption DEF KeepCount
<1>2. known \in SUBSET Complete(S)
  OBVIOUS
<1>3. NewestOf(S, known, 1) \subseteq known /\ first \subseteq U
  BY <1>1, <1>2, TheNewest
<1>4. first \subseteq kept /\ kept \subseteq U
  BY <1>3 DEF Kept
<1>5. doomed \subseteq Chains(S) /\ doomed \cap Complete(S) = U \ kept
  BY DEF Doomed, Complete
<1>6. Chains(S) \subseteq Image
  BY PublishedImages DEF Chains
<1>7. kept \subseteq Complete(S) \ doomed
  BY <1>4, <1>5
<1>8. ASSUME NEW c \in doomed \cap Complete(S)
      PROVE  Cardinality({d \in Complete(S) \ doomed : sb[d].created >= sb[c].created})
               >= KeepCount
  <2> DEFINE better == {d \in Complete(S) \ doomed : sb[d].created >= sb[c].created}
  <2>1. c \in U \ first
    BY <1>4, <1>5
  <2>2. /\ Cardinality(first) >= KeepCount
        /\ \A d \in first : sb[d].created >= sb[c].created
    BY <2>1, <1>1, TheNewest
  <2>3. first \in SUBSET better
    BY <2>2, <1>4, <1>7
  <2>4. better \in SUBSET Image
    BY ChainDate
  <2>5. Cardinality(first) <= Cardinality(better)
    BY <2>3, <2>4, ImagesAreFinite, FS_Subset
  <2>6. Cardinality(first) \in Nat /\ Cardinality(better) \in Nat
    BY <2>3, <2>4, ImagesAreFinite
  <2> HIDE DEF first, better
  <2>7. Cardinality(better) >= KeepCount
    BY <2>2, <2>5, <2>6, <1>1
  <2> QED
    BY <2>7 DEF better
<1>9. ASSUME NEW c \in doomed \cap Complete(S), Verified(Members(S, c), marks)
      PROVE  \E d \in Complete(S) \ doomed : Verified(Members(S, d), marks)
  <2>1. c \in known
    BY <1>5, <1>9
  <2>2. NewestOf(S, known, 1) # {}
    <3> HIDE DEF known
    <3>1. known # {} /\ 1 \in Nat /\ 1 > 0
      BY <2>1
    <3> QED
      BY <3>1, <1>2, TheNewest
  <2>3. \E d \in kept : d \in known
    BY <2>2, <1>3 DEF Kept
  <2> QED
    BY <2>3, <1>7
<1> QED
  BY <1>5, <1>6, <1>7, <1>8, <1>9

\* The last member of a complete chain, which a new one is planned behind.
LEMMA LatestIsLast ==
  ASSUME SetType, NEW S \in SUBSET Published, NEW c \in Complete(S)
  PROVE  /\ Latest(S, c) \in Members(S, c)
         /\ \A k \in Members(S, c) : sb[k].seq <= sb[Latest(S, c)].seq
<1> DEFINE M == Members(S, c)
           n == Cardinality(M)
<1>1. M \in SUBSET Image /\ M \subseteq Published /\ NoGaps(M)
  BY PublishedImages DEF Complete, Members
<1>2. n \in Nat /\ n # 0
  BY <1>1, ImagesAreFinite, FS_EmptySet DEF NoGaps
<1>3. Seqs(M) = 0 .. n - 1
  BY <1>1 DEF NoGaps
<1>4. PICK i \in M : sb[i].seq = n - 1
  <2> HIDE DEF M, n
  <2>1. n - 1 \in Seqs(M)
    BY <1>2, <1>3
  <2> QED
    BY <2>1 DEF Seqs
<1>5. \A k \in M : sb[k].seq \in 0 .. n - 1
  BY <1>3 DEF Seqs
<1>6. \E m \in M : \A k \in M : sb[k].seq <= sb[m].seq
  BY <1>2, <1>4, <1>5
<1> QED
  BY <1>6 DEF Latest

\* A member behind a recovery point that reads back makes another one.
LEMMA OneMore ==
  ASSUME NEW A \in SUBSET Image, NEW p \in A, NEW q \in [A -> Nat],
         A # {}, {q[k] : k \in A} = 0 .. Cardinality(A) - 1,
         \A k \in A : q[k] <= q[p]
  PROVE  q[p] = Cardinality(A) - 1
<1>1. Cardinality(A) \in Nat /\ Cardinality(A) # 0
  BY ImagesAreFinite, FS_EmptySet
<1>2. PICK k \in A : q[k] = Cardinality(A) - 1
  BY <1>1
<1>3. q[p] \in 0 .. Cardinality(A) - 1
  OBVIOUS
<1> QED
  BY <1>1, <1>2, <1>3

-------------------------------------------------------------------------------
(***************************************************************************)
(* What the steps that publish nothing preserve: images only go away or go *)
(* bad, time passes, and what was read stays read.                         *)
(***************************************************************************)
Fading ==
  /\ sb' = sb
  /\ files' \subseteq files
  /\ Visible' \subseteq Visible
  /\ clock' \in Nat /\ clock <= clock'
  /\ earned \subseteq earned'

LEMMA FadingKeeps ==
  ASSUME SetType, Lineage, Fading
  PROVE  /\ Published' = Published
         /\ Lineage'
         /\ \A k \in Job : plan'[k] = plan[k] /\ Fits(plan[k]) => Fits(plan[k])'
         /\ \A k \in Job : target'[k] = target[k] /\ Earned(k) => Earned(k)'
         /\ ChainsAreBounded => ChainsAreBounded'
<1>1. sb' = sb /\ Published' = Published
  BY DEF Fading, Published
<1>2. clock \in Nat /\ clock' \in Nat /\ clock <= clock'
  BY DEF Fading, SetType
<1>3. Lineage'
  BY <1>1, <1>2, PublishedImages DEF Lineage
<1>4. /\ \A c : Members(Visible, c)' \subseteq Members(Visible, c)
      /\ \A c : Incrementals(Members(Visible, c))' \subseteq Incrementals(Members(Visible, c))
      /\ \A c : Incrementals(Members(Visible, c)) \in SUBSET Image
  BY <1>1, PublishedImages DEF Fading, Members, Incrementals, Visible, SetType
<1>5. \A c : /\ Cardinality(Incrementals(Members(Visible, c))') \in Nat
             /\ Cardinality(Incrementals(Members(Visible, c))) \in Nat
             /\ Cardinality(Incrementals(Members(Visible, c))')
                  <= Cardinality(Incrementals(Members(Visible, c)))
  <2> TAKE c
  <2> DEFINE I == Incrementals(Members(Visible, c))
             J == Incrementals(Members(Visible, c))'
  <2>1. J \in SUBSET I /\ I \in SUBSET Image /\ J \in SUBSET Image
    BY <1>4
  <2> HIDE DEF I, J
  <2>2. IsFiniteSet(I) /\ Cardinality(I) \in Nat /\ Cardinality(J) \in Nat
    BY <2>1, ImagesAreFinite
  <2>3. Cardinality(J) <= Cardinality(I)
    BY <2>1, <2>2, FS_Subset
  <2> QED
    BY <2>2, <2>3 DEF I, J
<1>6. ASSUME NEW k \in Job, plan'[k] = plan[k], Fits(plan[k])
      PROVE  Fits(plan[k])'
  <2>1. plan'[k] \in Plans /\ plan'[k].created <= clock'
    BY <1>2, <1>6 DEF Fits, Plans
  <2>2. ASSUME plan'[k].seq > 0
        PROVE  /\ plan'[k].parent \in Published'
               /\ plan'[k].chain = sb'[plan'[k].parent].chain
               /\ plan'[k].seq = sb'[plan'[k].parent].seq + 1
               /\ sb'[plan'[k].chain].created <= plan'[k].created
    BY <2>2, <1>1, <1>6 DEF Fits
  <2>3. ASSUME plan'[k].seq > 0, ~ Transient, NEW i \in Members(Visible, plan[k].chain)'
        PROVE  sb'[i].seq <= sb'[plan'[k].parent].seq
    BY <2>3, <1>1, <1>4, <1>6 DEF Fits
  <2>4. ASSUME plan'[k].seq > 0, ~ Transient, MaxIncrementals > 0
        PROVE  Cardinality(Incrementals(Members(Visible, plan[k].chain))') < MaxIncrementals
    <3>1. Cardinality(Incrementals(Members(Visible, plan[k].chain))) < MaxIncrementals
      BY <2>4, <1>6 DEF Fits
    <3> QED
      BY <3>1, <1>5, <1>6, SetAssumption
  <2> QED
    BY <2>1, <2>2, <2>3, <2>4 DEF Fits
<1>7. ASSUME NEW k \in Job, target'[k] = target[k], Earned(k)
      PROVE  Earned(k)'
  BY <1>1, <1>4, <1>7 DEF Earned, Ancestry, Fading
<1>8. ASSUME ChainsAreBounded
      PROVE  ChainsAreBounded'
  <2> SUFFICES ASSUME MaxIncrementals > 0, NEW c \in Chains(Visible)'
               PROVE  Cardinality(Incrementals(Members(Visible, c))') <= MaxIncrementals
    BY DEF ChainsAreBounded, Incrementals
  <2>1. c \in Chains(Visible)
    BY <1>1 DEF Chains, Fading
  <2>2. Cardinality(Incrementals(Members(Visible, c))) <= MaxIncrementals
    BY <2>1, <1>8 DEF ChainsAreBounded, Incrementals
  <2> QED
    BY <2>2, <1>5, SetAssumption
<1> QED
  BY <1>1, <1>3, <1>6, <1>7, <1>8

\* A retention run that nobody disturbs stays justified.
LEMMA StaysJustified ==
  ASSUME sb' = sb, files' = files, earned \subseteq earned',
         NEW k \in Job, ret'[k] = ret[k], Justified(ret[k])
  PROVE  Justified(ret[k])'
<1>1. Published' = Published /\ \A S : Complete(S)' = Complete(S)
  BY DEF Published, Complete, Chains, Members, NoGaps, Seqs
<1>2. \A S, c : Members(S, c)' = Members(S, c)
  BY DEF Members
<1> QED
  BY <1>1, <1>2 DEF Justified, Verified, KeepCount

\* A step of job j that publishes nothing.
LEMMA JobStep ==
  ASSUME SetInv, SetType', Fresh', Fading, NEW j \in Job,
         files' = files \/ pc[j] = "delete",
         \A k \in Job \ {j} : /\ pc'[k] = pc[k] /\ plan'[k] = plan[k]
                              /\ ret'[k] = ret[k] /\ target'[k] = target[k],
         \A k \in Job \ {j} : lock = k => lock' = k,
         pc'[j] \in Locked => lock' = j,
         pc'[j] = "publish" => Fits(plan[j])',
         pc'[j] = "delete" => Justified(ret[j])',
         pc'[j] \in {"mark", "marking"} => Earned(j)',
         ~ Transient => MarksWereEarned'
  PROVE  SetInv'
<1>1. SetType /\ Lineage /\ LockHeld
  BY DEF SetInv
<1>2. LockHeld'
  BY <1>1 DEF LockHeld
<1>3. PlansFit'
  <2> SUFFICES ASSUME NEW k \in Job, pc'[k] = "publish", k # j
               PROVE  Fits(plan[k])'
    BY DEF PlansFit
  <2>1. Fits(plan[k])
    BY DEF SetInv, PlansFit
  <2> QED
    BY <2>1, <1>1, FadingKeeps
<1>4. RetentionsJustified'
  <2> SUFFICES ASSUME NEW k \in Job, pc'[k] = "delete", k # j
               PROVE  Justified(ret[k])'
    BY DEF RetentionsJustified
  <2>1. Justified(ret[k]) /\ pc[k] = "delete"
    BY DEF SetInv, RetentionsJustified
  <2>2. files' = files
    BY <2>1, <1>1 DEF LockHeld, Locked
  <2> QED
    BY <2>1, <2>2, StaysJustified DEF Fading
<1>5. TargetsEarned'
  <2> SUFFICES ASSUME NEW k \in Job, pc'[k] \in {"mark", "marking"}, k # j
               PROVE  Earned(k)'
    BY DEF TargetsEarned
  <2>1. Earned(k)
    BY DEF SetInv, TargetsEarned
  <2> QED
    BY <2>1, <1>1, FadingKeeps
<1> QED
  BY <1>1, <1>2, <1>3, <1>4, <1>5, FadingKeeps DEF SetInv

\* The environment leaves the jobs alone.
LEMMA EnvironmentStep ==
  ASSUME SetInv, SetType', Fresh', Fading, files' = files,
         UNCHANGED <<pc, plan, ret, target, lock>>, catalog' \in {catalog, NoCatalog}
  PROVE  SetInv'
<1>1. SetType /\ Lineage /\ LockHeld /\ LockHeld'
  BY DEF SetInv, LockHeld
<1>2. PlansFit'
  <2> SUFFICES ASSUME NEW k \in Job, pc'[k] = "publish" PROVE Fits(plan[k])'
    BY DEF PlansFit
  <2>1. Fits(plan[k]) /\ plan'[k] = plan[k]
    BY DEF SetInv, PlansFit
  <2> QED
    BY <2>1, <1>1, FadingKeeps
<1>3. RetentionsJustified'
  <2> SUFFICES ASSUME NEW k \in Job, pc'[k] = "delete" PROVE Justified(ret[k])'
    BY DEF RetentionsJustified
  <2>1. Justified(ret[k]) /\ ret'[k] = ret[k]
    BY DEF SetInv, RetentionsJustified
  <2> QED
    BY <2>1, StaysJustified DEF Fading
<1>4. TargetsEarned'
  <2> SUFFICES ASSUME NEW k \in Job, pc'[k] \in {"mark", "marking"} PROVE Earned(k)'
    BY DEF TargetsEarned
  <2>1. Earned(k) /\ target'[k] = target[k]
    BY DEF SetInv, TargetsEarned
  <2> QED
    BY <2>1, <1>1, FadingKeeps
<1>5. ~ Transient => MarksWereEarned'
  BY DEF SetInv, MarksWereEarned, NoCatalog, Fading
<1> QED
  BY <1>1, <1>2, <1>3, <1>4, <1>5, FadingKeeps DEF SetInv

-------------------------------------------------------------------------------
(***************************************************************************)
(* The steps.                                                              *)
(***************************************************************************)
LEMMA SetInit == Init => SetInv
<1> SUFFICES ASSUME Init PROVE SetInv
  OBVIOUS
<1>1. Published = {} /\ Len(sb) = 0
  BY DEF Init, Published
<1>2. SetType
  BY <1>1, SetAssumption
  DEF Init, SetType, Published, Damage, NoCatalog, Catalog, Image, None
<1>3. Lineage /\ Fresh /\ LockHeld /\ PlansFit /\ RetentionsJustified /\ TargetsEarned
  BY <1>1
  DEF Init, Lineage, Fresh, LockHeld, PlansFit, RetentionsJustified, TargetsEarned, Locked
<1>4. MarksWereEarned /\ ChainsAreBounded
  BY DEF Init, MarksWereEarned, ChainsAreBounded, Chains, Visible, NoCatalog
<1> QED
  BY <1>2, <1>3, <1>4 DEF SetInv

LEMMA SameSet ==
  ASSUME SetInv, UNCHANGED <<sb, files, damage, clock>>, earned \subseteq earned'
  PROVE  Fading /\ Fresh' /\ Visible' = Visible /\ Published' = Published
BY DEF SetInv, SetType, Fading, Fresh, Visible, Published

LEMMA ScansAreVisible ==
  ASSUME SetType, NEW S \in Scans
  PROVE  /\ S \subseteq Visible /\ S \in SUBSET Published /\ S \in SUBSET Image
         /\ ~ Transient => S = Visible
BY PublishedImages DEF Scans, Visible, SetType

\* A job that ends, after it wrote a catalog or not.
LEMMA EndedStep ==
  ASSUME SetInv, NEW j \in Job, Ended(j), UNCHANGED <<sb, files, damage, clock, earned>>,
         catalog' \in Catalog, ~ Transient => MarksWereEarned'
  PROVE  SetInv'
<1>1. Fading /\ Fresh' /\ Published' = Published
  BY SameSet
<1>2. pc'[j] = "idle"
  BY DEF SetInv, SetType, Ended, Goto
<1>3. SetType'
  BY <1>1 DEF SetInv, SetType, Ended, Goto
<1>4. \A k \in Job \ {j} : /\ pc'[k] = pc[k] /\ plan'[k] = plan[k]
                           /\ ret'[k] = ret[k] /\ target'[k] = target[k]
                           /\ lock = k => lock' = k
  BY DEF SetInv, SetType, Ended, Goto
<1> QED
  BY <1>1, <1>2, <1>3, <1>4, JobStep DEF Locked

LEMMA AcquireStep ==
  ASSUME SetInv, NEW j \in Job, NEW label \in {"plan", "select", "rebuild"}, Acquire(j, label)
  PROVE  SetInv'
<1>1. Fading /\ Fresh' /\ Published' = Published
  BY SameSet DEF Acquire
<1>2. pc'[j] = label /\ lock' = j /\ lock = Nobody
  BY DEF SetInv, SetType, Acquire, Goto
<1>3. SetType'
  BY <1>1 DEF SetInv, SetType, Acquire, Goto, Locked
<1>4. \A k \in Job \ {j} : /\ pc'[k] = pc[k] /\ plan'[k] = plan[k]
                           /\ ret'[k] = ret[k] /\ target'[k] = target[k]
                           /\ lock # k
  BY <1>2, SetAssumption DEF SetInv, SetType, Acquire, Goto, Nobody
<1>5. ~ Transient => MarksWereEarned'
  BY DEF SetInv, MarksWereEarned, Acquire
<1> QED
  BY <1>1, <1>2, <1>3, <1>4, <1>5, JobStep DEF Acquire

LEMMA AbortStep ==
  ASSUME SetInv, NEW j \in Job, Abort(j)
  PROVE  SetInv'
<1>1. catalog' \in Catalog
  BY DEF SetInv, SetType, Abort
<1>2. ~ Transient => MarksWereEarned'
  BY DEF SetInv, MarksWereEarned, Abort
<1> QED
  BY <1>1, <1>2, EndedStep DEF Abort

\* Loading a catalog carries over marks that are there, and adds none.
LEMMA LoadIsSound ==
  ASSUME SetInv, NEW S \in Scans
  PROVE  Load(S) \in Catalog /\ (~ Transient => Load(S).verified \subseteq earned)
<1>1. S \in SUBSET Image
  BY ScansAreVisible DEF SetInv
<1> QED
  BY <1>1 DEF SetInv, SetType, Load, Catalog, MarksWereEarned

LEMMA CatalogStep ==
  ASSUME SetInv, NEW j \in Job, RecordPublished(j) \/ RebuildCatalog(j)
  PROVE  SetInv'
<1>1. PICK S \in Scans : catalog' = Load(S)
  BY DEF RecordPublished, RebuildCatalog
<1>2. /\ Ended(j) /\ UNCHANGED <<sb, files, damage, clock, earned>>
  BY DEF RecordPublished, RebuildCatalog
<1>3. catalog' \in Catalog /\ (~ Transient => MarksWereEarned')
  BY <1>1, <1>2, LoadIsSound DEF MarksWereEarned
<1> QED
  BY <1>2, <1>3, EndedStep

LEMMA PlannedStep ==
  ASSUME SetInv, NEW j \in Job, pc[j] = "plan",
         NEW chain, NEW seq, NEW parent, Planned(j, chain, seq, parent),
         Fits([chain |-> chain, seq |-> seq, parent |-> parent, created |-> clock])
  PROVE  SetInv'
<1> DEFINE p == [chain |-> chain, seq |-> seq, parent |-> parent, created |-> clock]
<1>1. Fading /\ Fresh' /\ Visible' = Visible /\ Published' = Published
  BY SameSet DEF Planned
<1>2. pc'[j] = "publish" /\ lock' = lock /\ lock = j /\ plan'[j] = p
  BY DEF SetInv, SetType, LockHeld, Locked, Planned, Goto
<1>3. p \in Plans
  BY DEF Fits
<1>4. SetType'
  BY <1>1, <1>3 DEF SetInv, SetType, Planned, Goto, Locked
<1>5. \A k \in Job \ {j} : /\ pc'[k] = pc[k] /\ plan'[k] = plan[k]
                           /\ ret'[k] = ret[k] /\ target'[k] = target[k]
  BY DEF SetInv, SetType, Planned, Goto
<1>6. Fits(plan[j])'
  <2>1. \A c : /\ Members(Visible, c)' = Members(Visible, c)
               /\ Incrementals(Members(Visible, c))' = Incrementals(Members(Visible, c))
    BY <1>1 DEF Members, Incrementals, Planned
  <2> QED
    BY <2>1, <1>1, <1>2 DEF Fits, Planned
<1>7. ~ Transient => MarksWereEarned'
  BY DEF SetInv, MarksWereEarned, Planned
<1> QED
  BY <1>1, <1>2, <1>4, <1>5, <1>6, <1>7, JobStep DEF Planned

LEMMA FullFits ==
  ASSUME SetInv
  PROVE  Fits([chain |-> None, seq |-> 0, parent |-> None, created |-> clock])
BY DEF Fits, Plans, None, SetInv, SetType

LEMMA PlanFullStep ==
  ASSUME SetInv, NEW j \in Job, PlanFull(j)
  PROVE  SetInv'
BY FullFits, PlannedStep DEF PlanFull

LEMMA PlanMemberStep ==
  ASSUME SetInv, NEW j \in Job, PlanMember(j)
  PROVE  SetInv'
<1>0. PICK S \in Scans : \E p \in Parents(S) :
        IF ChainIsFull(S, sb[p].chain)
        THEN Planned(j, None, 0, None)
        ELSE Planned(j, sb[p].chain, sb[p].seq + 1, p)
  BY DEF PlanMember
<1>1. PICK p \in Parents(S) :
        IF ChainIsFull(S, sb[p].chain)
        THEN Planned(j, None, 0, None)
        ELSE Planned(j, sb[p].chain, sb[p].seq + 1, p)
  BY <1>0
<1>2. CASE ChainIsFull(S, sb[p].chain)
  BY <1>1, <1>2, FullFits, PlannedStep DEF PlanMember
<1>3. CASE ~ ChainIsFull(S, sb[p].chain)
  <2>1. SetType /\ S \in SUBSET Published /\ (~ Transient => S = Visible)
    BY ScansAreVisible DEF SetInv
  <2>2. PICK c \in Complete(S) : p = Latest(S, c)
    BY DEF Parents, LatestParents
  <2>3. p \in Members(S, c) /\ \A k \in Members(S, c) : sb[k].seq <= sb[p].seq
    BY <2>1, <2>2, LatestIsLast
  <2>4. sb[p].chain = c /\ p \in Published
    BY <2>1, <2>3 DEF Members
  <2>5. MaxIncrementals > 0 => Cardinality(Incrementals(Members(S, c))) < MaxIncrementals
    <3>1. Incrementals(Members(S, c)) \in SUBSET Image
      BY <2>1, PublishedImages DEF Incrementals, Members
    <3>2. Cardinality(Incrementals(Members(S, c))) \in Nat
      BY <3>1, ImagesAreFinite
    <3> QED
      BY <3>2, <2>4, <1>3, SetAssumption DEF ChainIsFull, Incrementals
  <2>6. [chain |-> sb[p].chain, seq |-> sb[p].seq + 1, parent |-> p, created |-> clock] \in Plans
    BY <2>1, <2>4, PublishedImages DEF Plans, SetType
  <2>7. sb[c].created <= clock
    <3>1. c \in Published /\ sb[c].created <= sb[p].created /\ sb[p].created <= clock
      BY <2>4, PublishedImages DEF SetInv, Lineage, Published
    <3> QED
      BY <3>1, <2>1, <2>4, PublishedImages DEF SetType
  <2>8. Fits([chain |-> sb[p].chain, seq |-> sb[p].seq + 1, parent |-> p, created |-> clock])
    BY <2>1, <2>3, <2>4, <2>5, <2>6, <2>7 DEF Fits, SetType
  <2> QED
    BY <2>8, <1>1, <1>3, PlannedStep DEF PlanMember
<1> QED
  BY <1>2, <1>3

LEMMA VerifyImageStep ==
  ASSUME SetInv, NEW j \in Job, NEW i \in Image, VerifyImage(j, i)
  PROVE  SetInv'
<1>1. PICK S \in Scans : ReadsBack(S, i) /\ earned' = earned \cup Ancestry(S, i)
  BY DEF VerifyImage
<1>2. /\ S \in SUBSET Published /\ S \in SUBSET Image /\ i \in S
      /\ ~ Transient => S = Visible
  BY <1>1, ScansAreVisible DEF SetInv, ReadsBack
<1>3. Ancestry(S, i) \subseteq Image
  BY <1>2 DEF Ancestry, Members
<1>4. Fading /\ Fresh' /\ Visible' = Visible /\ Published' = Published
  BY <1>1, SameSet DEF VerifyImage
<1>5. pc'[j] = "mark" /\ target'[j] = i /\ lock' = lock
  BY DEF SetInv, SetType, VerifyImage, Goto
<1>6. SetType'
  BY <1>1, <1>3, <1>4 DEF SetInv, SetType, VerifyImage, Goto
<1>7. \A k \in Job \ {j} : /\ pc'[k] = pc[k] /\ plan'[k] = plan[k]
                           /\ ret'[k] = ret[k] /\ target'[k] = target[k]
  BY DEF SetInv, SetType, VerifyImage, Goto
<1>8. Earned(j)'
  BY <1>1, <1>2, <1>4, <1>5 DEF Earned, Ancestry, Members, VerifyImage
<1>9. ~ Transient => MarksWereEarned'
  BY <1>1 DEF SetInv, MarksWereEarned, VerifyImage
<1> QED
  BY <1>4, <1>5, <1>6, <1>7, <1>8, <1>9, JobStep DEF VerifyImage, Locked

LEMMA LockToMarkStep ==
  ASSUME SetInv, NEW j \in Job, LockToMark(j)
  PROVE  SetInv'
<1>1. Fading /\ Fresh' /\ Published' = Published
  BY SameSet DEF LockToMark
<1>2. /\ pc'[j] = "marking" /\ lock' = j /\ lock = Nobody /\ target'[j] = target[j]
      /\ Earned(j)
  BY DEF SetInv, SetType, TargetsEarned, LockToMark, Goto
<1>3. SetType'
  BY <1>1 DEF SetInv, SetType, LockToMark, Goto, Locked
<1>4. \A k \in Job \ {j} : /\ pc'[k] = pc[k] /\ plan'[k] = plan[k]
                           /\ ret'[k] = ret[k] /\ target'[k] = target[k]
                           /\ lock # k
  BY <1>2, SetAssumption DEF SetInv, SetType, LockToMark, Goto, Nobody
<1>5. Earned(j)'
  BY <1>1, <1>2, FadingKeeps DEF SetInv
<1>6. ~ Transient => MarksWereEarned'
  BY DEF SetInv, MarksWereEarned, LockToMark
<1> QED
  BY <1>1, <1>2, <1>3, <1>4, <1>5, <1>6, JobStep DEF LockToMark

\* The chain is resolved again when the result is recorded, and every member
\* found then was read.
LEMMA RecordVerificationStep ==
  ASSUME SetInv, NEW j \in Job, RecordVerification(j)
  PROVE  SetInv'
<1>1. PICK S \in Scans, R \in Scans :
        /\ target[j] \in R
        /\ catalog' = [members |-> S,
                       verified |-> Load(S).verified \cup (S \cap Marked(R, target[j]))]
  BY DEF RecordVerification
<1>2. Ended(j) /\ UNCHANGED <<sb, files, damage, clock, earned>> /\ pc[j] = "marking"
  BY DEF RecordVerification
<1>3. S \in SUBSET Image /\ Load(S) \in Catalog
  BY LoadIsSound, ScansAreVisible DEF SetInv
<1>4. catalog' \in Catalog
  BY <1>1, <1>3 DEF Catalog
<1>5. ASSUME ~ Transient PROVE MarksWereEarned'
  <2>1. R = Visible
    BY <1>5, ScansAreVisible DEF SetInv
  <2>2. Marked(R, target[j]) \subseteq earned
    BY <2>1, <1>1, <1>2, <1>5 DEF SetInv, TargetsEarned, Earned, Marked
  <2>3. Load(S).verified \subseteq earned
    BY <1>5, LoadIsSound
  <2> QED
    BY <2>2, <2>3, <1>1, <1>2 DEF MarksWereEarned
<1> QED
  BY <1>2, <1>4, <1>5, EndedStep

\* The decision of a retention run justifies what it is going to delete.
LEMMA SelectStep ==
  ASSUME SetInv, NEW j \in Job, NEW vf \in BOOLEAN, Select(j, vf)
  PROVE  SetInv'
<1> DEFINE passed(S) == {c \in Tried(S) : Passes(S, c)}
           U(S) == IF vf THEN Usable(S) \ (Tried(S) \ passed(S)) ELSE Usable(S)
           read(S) == IF vf THEN UNION {Members(S, c) : c \in passed(S)} ELSE {}
           marks(S) == Load(S).verified \cup read(S)
           kept(S) == Kept(S, U(S), marks(S))
           doomed(S) == Doomed(S, U(S), kept(S))
           able(S) == IF vf THEN passed(S) ELSE {c \in kept(S) : Passes(S, c)}
           decision(S) == [kept |-> kept(S), doomed |-> doomed(S), passed |-> able(S),
                           left |-> {i \in S : sb[i].chain \in doomed(S)},
                           cat |-> [members |-> S, verified |-> marks(S)]]
<1>1. PICK S \in Scans : /\ Authorised(doomed(S), able(S), kept(S))
                         /\ ret' = [ret EXCEPT ![j] = decision(S)]
                         /\ earned' = earned \cup read(S)
  BY DEF Select
<1>2. SetType /\ Lineage /\ S \in SUBSET Published /\ S \in SUBSET Image /\ S \subseteq files
  BY ScansAreVisible DEF SetInv, Visible
<1>3. U(S) \in SUBSET Complete(S) /\ passed(S) \in SUBSET Complete(S)
  BY DEF Usable, Tried
<1>4. Complete(S) \in SUBSET Image
  BY <1>2, ChainDate
<1>5. read(S) \in SUBSET S /\ Load(S) \in Catalog
      /\ (~ Transient => Load(S).verified \subseteq earned)
  BY LoadIsSound DEF Members
<1>6. marks(S) \in SUBSET Image /\ (~ Transient => marks(S) \subseteq earned')
  BY <1>1, <1>2, <1>5 DEF Catalog
<1> HIDE DEF U, read, marks
<1>7. /\ kept(S) \subseteq Complete(S) \ doomed(S)
      /\ doomed(S) \subseteq Image
      /\ \A c \in doomed(S) \cap Complete(S) :
           /\ Cardinality({d \in Complete(S) \ doomed(S) : sb[d].created >= sb[c].created})
                >= KeepCount
           /\ Verified(Members(S, c), marks(S)) =>
                \E d \in Complete(S) \ doomed(S) : Verified(Members(S, d), marks(S))
  BY <1>2, <1>3, SelectionJustified
<1> HIDE DEF kept, doomed
<1>8. able(S) \in SUBSET Image
  BY <1>3, <1>4, <1>7
<1>9. doomed(S) # {} => \E c \in able(S) : c \notin doomed(S)
  BY <1>1, <1>7 DEF Authorised
<1> HIDE DEF able, passed
<1>10. decision(S) \in Retentions
  BY <1>2, <1>4, <1>6, <1>7, <1>8 DEF Retentions, Catalog
<1>11. /\ UNCHANGED <<sb, files, damage, catalog, clock, lock, plan, target>>
       /\ pc[j] = "select" /\ Goto(j, "delete")
  BY DEF Select
<1>12. Fading /\ Fresh' /\ Published' = Published
  BY <1>1, <1>11, SameSet
<1>13. pc'[j] = "delete" /\ ret'[j] = decision(S) /\ lock' = j
  BY <1>1, <1>11 DEF SetInv, SetType, LockHeld, Locked, Goto
<1>14. SetType'
  BY <1>1, <1>2, <1>5, <1>10, <1>11, <1>12 DEF SetType, Goto, Locked
<1>15. \A k \in Job \ {j} : /\ pc'[k] = pc[k] /\ plan'[k] = plan[k]
                            /\ ret'[k] = ret[k] /\ target'[k] = target[k]
  BY <1>1, <1>2, <1>11 DEF SetType, Goto
<1>16. Justified(ret[j])'
  <2>1. /\ \A T : Complete(T)' = Complete(T)
        /\ \A T, c : Members(T, c)' = Members(T, c)
    BY <1>11 DEF Complete, Chains, Members, NoGaps, Seqs
  <2>2. /\ ret'[j] \in Retentions /\ ret'[j].doomed = doomed(S) /\ ret'[j].passed = able(S)
        /\ ret'[j].left = {i \in S : sb[i].chain \in doomed(S)}
        /\ ret'[j].cat.members = S /\ ret'[j].cat.verified = marks(S)
    BY <1>10, <1>13
  <2> HIDE DEF decision
  <2>3. /\ S \subseteq Published'
        /\ {i \in S : sb'[i].chain \notin doomed(S)} \subseteq files'
    BY <1>2, <1>11, <1>12
  <2>4. \A c \in doomed(S) \cap Complete(S)' :
          /\ Cardinality({d \in Complete(S)' \ doomed(S) : sb'[d].created >= sb'[c].created})
               >= KeepCount
          /\ Verified(Members(S, c)', marks(S)) =>
               \E d \in Complete(S)' \ doomed(S) : Verified(Members(S, d)', marks(S))
    BY <2>1, <1>7, <1>11
  <2> QED
    BY <2>2, <2>3, <2>4, <1>6, <1>9, <1>11 DEF Justified, Verified, KeepCount
<1>17. ~ Transient => MarksWereEarned'
  BY <1>1, <1>11 DEF SetInv, MarksWereEarned
<1> QED
  BY <1>11, <1>12, <1>13, <1>14, <1>15, <1>16, <1>17, JobStep

LEMMA DeleteStep ==
  ASSUME SetInv, NEW j \in Job, Delete(j)
  PROVE  SetInv'
<1>1. PICK m \in ret[j].left : files' = files \ {m} /\ ret' = [ret EXCEPT ![j].left = @ \ {m}]
  BY DEF Delete
<1>2. /\ UNCHANGED <<sb, damage, catalog, clock, lock, pc, plan, target, earned>>
      /\ pc[j] = "delete"
  BY DEF Delete
<1>3. SetType /\ Justified(ret[j]) /\ lock = j
  BY <1>2 DEF SetInv, RetentionsJustified, LockHeld, Locked
<1>4. ret[j] \in Retentions
  BY <1>3 DEF Justified
<1>5. ret'[j] = [ret[j] EXCEPT !.left = @ \ {m}]
  BY <1>1, <1>3 DEF SetType
<1>6. /\ ret'[j] \in Retentions /\ ret'[j].cat = ret[j].cat /\ ret'[j].doomed = ret[j].doomed
      /\ ret'[j].passed = ret[j].passed /\ ret'[j].left = ret[j].left \ {m}
  BY <1>4, <1>5 DEF Retentions
<1>7. Fading /\ Fresh' /\ Published' = Published
  BY <1>1, <1>2 DEF SetInv, SetType, Fading, Fresh, Visible, Published
<1>8. SetType'
  BY <1>1, <1>2, <1>3, <1>6, <1>7 DEF SetType
<1>9. \A k \in Job \ {j} : /\ pc'[k] = pc[k] /\ plan'[k] = plan[k]
                           /\ ret'[k] = ret[k] /\ target'[k] = target[k]
  BY <1>1, <1>2, <1>3 DEF SetType
<1>10. Justified(ret[j])'
  <2>1. /\ \A T : Complete(T)' = Complete(T)
        /\ \A T, c : Members(T, c)' = Members(T, c)
    BY <1>2 DEF Complete, Chains, Members, NoGaps, Seqs
  <2>2. sb[m].chain \in ret[j].doomed
    BY <1>3 DEF Justified
  <2> QED
    BY <2>1, <2>2, <1>1, <1>2, <1>3, <1>6, <1>7 DEF Justified, Verified, KeepCount
<1>11. ~ Transient => MarksWereEarned'
  BY <1>2 DEF SetInv, MarksWereEarned
<1> QED
  BY <1>2, <1>3, <1>7, <1>8, <1>9, <1>10, <1>11, JobStep

LEMMA FinishStep ==
  ASSUME SetInv, NEW j \in Job, Finish(j)
  PROVE  SetInv'
<1> DEFINE rest == {i \in ret[j].cat.members : sb[i].chain \notin ret[j].doomed}
<1>1. /\ catalog' = [members |-> rest, verified |-> ret[j].cat.verified \cap rest]
      /\ Ended(j) /\ UNCHANGED <<sb, files, damage, clock, earned>> /\ pc[j] = "delete"
  BY DEF Finish
<1>2. Justified(ret[j])
  BY <1>1 DEF SetInv, RetentionsJustified
<1>3. catalog' \in Catalog
  BY <1>1, <1>2 DEF Justified, Retentions, Catalog
<1>4. ~ Transient => MarksWereEarned'
  BY <1>1, <1>2 DEF Justified, MarksWereEarned
<1> QED
  BY <1>1, <1>3, <1>4, EndedStep

\* A publication adds one image: the first of a new chain, or the successor of
\* the last member of an old one.
LEMMA OneImageMore ==
  ASSUME SetInv, NEW j \in Job, Publish(j), NEW n, n = Len(sb) + 1
  PROVE  /\ n \in Image /\ n \notin Published /\ Published' = Published \cup {n}
         /\ sb' \in Seq([chain : Image, seq : Nat, parent : Image \cup {None}, created : Nat])
         /\ Len(sb') = n
         /\ \A i \in Published : sb'[i] = sb[i] /\ sb[i].chain # n
         /\ sb'[n].seq = plan[j].seq /\ sb'[n].created = plan[j].created
         /\ plan[j].seq = 0 => sb'[n].chain = n
         /\ plan[j].seq > 0 => sb'[n].chain = plan[j].chain
         /\ Visible' = Visible \cup {n} /\ Visible \subseteq Published
         /\ Fits(plan[j]) /\ plan[j].seq \in Nat
<1>1. SetType /\ Fits(plan[j]) /\ plan[j] \in Plans
  BY DEF SetInv, PlansFit, Publish, Fits
<1>2. plan[j].seq \in Nat /\ Len(sb) \in Nat /\ n <= MaxImages
  BY <1>1, PublishedImages, SetAssumption DEF Plans, Publish
<1>3. n \in Image /\ n \notin Published
  BY <1>2, SetAssumption DEF Image, Published
<1> DEFINE new == IF plan[j].seq = 0 THEN [plan[j] EXCEPT !.chain = n] ELSE plan[j]
           Rec == [chain : Image, seq : Nat, parent : Image \cup {None}, created : Nat]
<1>4. /\ new.seq = plan[j].seq /\ new.created = plan[j].created
      /\ plan[j].seq = 0 => new.chain = n
      /\ plan[j].seq > 0 => new.chain = plan[j].chain
  BY <1>1, <1>2 DEF Plans
<1>5. new \in Rec
  <2>1. CASE plan[j].seq = 0
    BY <2>1, <1>1, <1>3 DEF Plans
  <2>2. CASE plan[j].seq > 0
    <3>1. plan[j].chain \in Image
      BY <2>2, <1>1, PublishedImages DEF Fits
    <3> QED
      BY <2>2, <3>1, <1>1 DEF Plans
  <2> QED
    BY <2>1, <2>2, <1>2
<1>6. sb \in Seq(Rec) /\ sb' = Append(sb, new)
  BY <1>1 DEF SetType, Publish
<1> HIDE DEF new, Rec
<1>7. /\ sb' \in Seq(Rec) /\ Len(sb') = n /\ sb'[n] = new
      /\ \A i \in Published : sb'[i] = sb[i]
  BY <1>5, <1>6 DEF Published
<1>8. Published' = Published \cup {n}
  BY <1>2, <1>7 DEF Published
<1>9. Visible' = Visible \cup {n} /\ Visible \subseteq Published
  BY <1>1, <1>3 DEF SetInv, SetType, Fresh, Visible, Publish
<1>10. \A i \in Published : sb[i].chain # n
  BY <1>2, <1>3 DEF SetInv, Lineage, Published
<1> QED
  BY <1>1, <1>2, <1>3, <1>4, <1>7, <1>8, <1>9, <1>10 DEF Rec

\* It goes behind everything that can be read of its chain, so that no recovery
\* point gains a second member at one of its sequence numbers.
LEMMA OldAncestry ==
  ASSUME SetInv, NEW j \in Job, Publish(j), ~ Transient, NEW i \in Visible
  PROVE  Ancestry(Visible, i)' = Ancestry(Visible, i)
<1> DEFINE n == Len(sb) + 1
<1>1. /\ Published' = Published \cup {n} /\ n \notin Published
      /\ \A k \in Published : sb'[k] = sb[k] /\ sb[k].chain # n
      /\ sb'[n].seq = plan[j].seq
      /\ plan[j].seq = 0 => sb'[n].chain = n
      /\ plan[j].seq > 0 => sb'[n].chain = plan[j].chain
      /\ Visible' = Visible \cup {n} /\ Visible \subseteq Published
      /\ Fits(plan[j]) /\ plan[j].seq \in Nat
  BY OneImageMore
<1> HIDE DEF n
<1>2. ~ (sb'[n].chain = sb[i].chain /\ sb'[n].seq <= sb[i].seq)
  <2> SUFFICES ASSUME sb'[n].chain = sb[i].chain, sb'[n].seq <= sb[i].seq
               PROVE  FALSE
    OBVIOUS
  <2>1. plan[j].seq > 0
    BY <1>1
  <2>2. plan[j].parent \in Published /\ plan[j].seq = sb[plan[j].parent].seq + 1
        /\ sb[i].seq <= sb[plan[j].parent].seq
    BY <2>1, <1>1 DEF Fits, Members
  <2>3. sb[i].seq \in Nat /\ sb[plan[j].parent].seq \in Nat
    BY <2>2, <1>1, PublishedImages DEF SetInv
  <2> QED
    BY <2>2, <2>3, <1>1
<1> QED
  BY <1>1, <1>2 DEF Ancestry, Members

\* The limit on a chain holds when an incremental joins it.
LEMMA StaysBounded ==
  ASSUME SetInv, NEW j \in Job, Publish(j), ~ Transient
  PROVE  ChainsAreBounded'
<1> DEFINE n == Len(sb) + 1
<1>1. /\ n \in Image /\ n \notin Published
      /\ \A k \in Published : sb'[k] = sb[k] /\ sb[k].chain # n
      /\ sb'[n].seq = plan[j].seq
      /\ plan[j].seq = 0 => sb'[n].chain = n
      /\ plan[j].seq > 0 => sb'[n].chain = plan[j].chain
      /\ Visible' = Visible \cup {n} /\ Visible \subseteq Published
      /\ Fits(plan[j]) /\ plan[j].seq \in Nat
  BY OneImageMore
<1> HIDE DEF n
<1> SUFFICES ASSUME MaxIncrementals > 0, NEW c \in Chains(Visible)'
             PROVE  Cardinality(Incrementals(Members(Visible, c))') <= MaxIncrementals
  BY DEF ChainsAreBounded, Incrementals
<1> DEFINE I == Incrementals(Members(Visible, c))
<1>2. I \in SUBSET Image /\ I \subseteq Published
  BY <1>1, PublishedImages DEF SetInv, Incrementals, Members
<1>3. IsFiniteSet(I) /\ Cardinality(I) \in Nat
  BY <1>2, ImagesAreFinite
<1>4. CASE plan[j].seq > 0 /\ c = plan[j].chain
  <2>1. Incrementals(Members(Visible, c))' = I \cup {n}
    BY <1>1, <1>4 DEF Incrementals, Members
  <2>2. Cardinality(I) < MaxIncrementals
    BY <1>1, <1>4 DEF Fits
  <2> HIDE DEF I
  <2>3. Cardinality(I \cup {n}) = Cardinality(I) + 1
    BY <1>1, <1>2, <1>3, FS_AddElement
  <2> QED
    BY <2>1, <2>2, <2>3, <1>3, SetAssumption
<1>5. CASE ~ (plan[j].seq > 0 /\ c = plan[j].chain)
  <2>1. Incrementals(Members(Visible, c))' = I
    BY <1>1, <1>5 DEF Incrementals, Members
  <2>2. CASE c \in Chains(Visible)
    BY <2>1, <2>2 DEF SetInv, ChainsAreBounded, Incrementals
  <2>3. CASE c \notin Chains(Visible)
    <3>1. I = {}
      BY <2>3 DEF Incrementals, Members, Chains
    <3> QED
      BY <3>1, <2>1, FS_EmptySet, SetAssumption
  <2> QED
    BY <2>2, <2>3
<1> QED
  BY <1>4, <1>5

LEMMA PublishStep ==
  ASSUME SetInv, NEW j \in Job, Publish(j)
  PROVE  SetInv'
<1> DEFINE n == Len(sb) + 1
<1>1. /\ n \in Image /\ n \notin Published /\ Published' = Published \cup {n}
      /\ sb' \in Seq([chain : Image, seq : Nat, parent : Image \cup {None}, created : Nat])
      /\ Len(sb') = n
      /\ \A k \in Published : sb'[k] = sb[k] /\ sb[k].chain # n
      /\ sb'[n].seq = plan[j].seq /\ sb'[n].created = plan[j].created
      /\ plan[j].seq = 0 => sb'[n].chain = n
      /\ plan[j].seq > 0 => sb'[n].chain = plan[j].chain
      /\ Visible' = Visible \cup {n} /\ Visible \subseteq Published
      /\ Fits(plan[j]) /\ plan[j].seq \in Nat
  BY OneImageMore
<1>2. /\ UNCHANGED <<damage, catalog, clock, lock, plan, ret, target, earned>>
      /\ pc[j] = "publish" /\ Goto(j, "record") /\ files' = files \cup {n}
  BY DEF Publish
<1>3. SetType /\ Lineage /\ LockHeld /\ lock = j /\ n \in Nat
  BY <1>2, PublishedImages DEF SetInv, LockHeld, Locked
<1> HIDE DEF n
<1>4. pc'[j] = "record" /\ \A k \in Job \ {j} : pc'[k] = pc[k] /\ pc'[k] \notin Locked
  BY <1>2, <1>3 DEF SetType, LockHeld, Goto
<1>5. SetType'
  <2>1. n <= MaxImages
    BY <1>1, SetAssumption DEF Image
  <2> QED
    BY <2>1, <1>1, <1>2, <1>3 DEF SetType, Goto, Locked
<1>6. Lineage'
  <2>1. ASSUME NEW i \in Published
        PROVE  /\ sb'[i].chain \in 1 .. i
               /\ sb'[i].seq = 0 => sb'[i].chain = i
               /\ sb'[sb'[i].chain].created <= sb'[i].created
               /\ sb'[i].created <= clock'
    <3>1. sb[i].chain \in Published
      BY <1>3, PublishedImages DEF Lineage, Published
    <3> QED
      BY <3>1, <1>1, <1>2, <1>3 DEF Lineage
  <2>2. /\ sb'[n].chain \in 1 .. n
        /\ sb'[n].seq = 0 => sb'[n].chain = n
        /\ sb'[sb'[n].chain].created <= sb'[n].created
        /\ sb'[n].created <= clock'
    <3>1. plan[j].created \in Nat /\ plan[j].created <= clock
      BY <1>1 DEF Fits, Plans
    <3>2. CASE plan[j].seq = 0
      BY <3>1, <3>2, <1>1, <1>2, <1>3, SetAssumption DEF Image
    <3>3. CASE plan[j].seq > 0
      <4>1. /\ plan[j].parent \in Published /\ plan[j].chain = sb[plan[j].parent].chain
            /\ sb[plan[j].chain].created <= plan[j].created
        BY <3>3, <1>1 DEF Fits
      <4>2. plan[j].chain \in Published
        BY <4>1, <1>3, PublishedImages DEF Lineage, Published
      <4>3. plan[j].chain \in 1 .. n
        BY <4>2, <1>1, <1>3 DEF Published, Image
      <4> QED
        BY <4>1, <4>2, <4>3, <3>1, <3>3, <1>1, <1>2
    <3> QED
      BY <3>2, <3>3, <1>1
  <2> QED
    BY <2>1, <2>2, <1>1 DEF Lineage
<1>7. Fresh'
  BY <1>1, <1>2 DEF SetInv, Fresh
<1>8. LockHeld' /\ PlansFit' /\ RetentionsJustified'
  BY <1>2, <1>3, <1>4 DEF LockHeld, PlansFit, RetentionsJustified, Locked
<1>9. TargetsEarned'
  <2> SUFFICES ASSUME NEW k \in Job, pc'[k] \in {"mark", "marking"} PROVE Earned(k)'
    BY DEF TargetsEarned
  <2>1. Earned(k) /\ k # j
    BY <1>4 DEF SetInv, TargetsEarned
  <2>2. target'[k] = target[k] /\ target[k] \in Published /\ target[k] # n
    BY <2>1, <1>1, <1>2 DEF Earned
  <2>3. ASSUME ~ Transient, target[k] \in Visible'
        PROVE  Ancestry(Visible, target[k])' \subseteq earned'
    <3>1. target[k] \in Visible
      BY <2>2, <2>3, <1>1
    <3>2. Ancestry(Visible, target[k])' = Ancestry(Visible, target[k])
      BY <3>1, <2>2, <2>3, OldAncestry
    <3> QED
      BY <3>1, <3>2, <2>1, <2>3, <1>2 DEF Earned
  <2> QED
    BY <2>2, <2>3, <1>1 DEF Earned
<1>10. ~ Transient => MarksWereEarned'
  BY <1>2 DEF SetInv, MarksWereEarned
<1> QED
  BY <1>5, <1>6, <1>7, <1>8, <1>9, <1>10, StaysBounded DEF SetInv

LEMMA DestinationStep ==
  ASSUME SetInv, Tick \/ (\E i \in Image : Decay(i)) \/ LoseCatalog
  PROVE  SetInv'
<1>1. CASE Tick
  <2>1. Fading /\ Fresh' /\ Published' = Published /\ files' = files
    BY <1>1 DEF SetInv, SetType, Fading, Fresh, Visible, Published, Tick
  <2>2. SetType'
    BY <2>1, <1>1 DEF SetInv, SetType, Tick
  <2> QED
    BY <2>1, <2>2, <1>1, EnvironmentStep DEF Tick
<1>2. CASE \E i \in Image : Decay(i)
  <2>1. PICK i \in Image : Decay(i)
    BY <1>2
  <2>2. i \in Published /\ damage[i] = "none"
        /\ \E d \in Damage : d # "none" /\ damage' = [damage EXCEPT ![i] = d]
    BY <2>1 DEF SetInv, SetType, Decay
  <2>3. UNCHANGED <<sb, files, catalog, clock, lock, pc, plan, ret, target, earned>>
    BY <2>1 DEF Decay
  <2>4. \A k \in Image : k # i => damage'[k] = damage[k]
    BY <2>2 DEF SetInv, SetType
  <2>5. SetType'
    BY <2>2, <2>3 DEF SetInv, SetType, Published
  <2>6. Published' = Published /\ Fresh'
    BY <2>2, <2>3, <2>4 DEF SetInv, Fresh, Published
  <2>7. Visible' \subseteq Visible
    BY <2>2, <2>3, <2>4, PublishedImages DEF SetInv, SetType, Visible
  <2>8. Fading
    BY <2>3, <2>7 DEF SetInv, SetType, Fading
  <2> QED
    BY <2>3, <2>5, <2>6, <2>8, EnvironmentStep
<1>3. CASE LoseCatalog
  <2>1. Fading /\ Fresh' /\ Published' = Published
    BY <1>3, SameSet DEF LoseCatalog
  <2>2. SetType'
    BY <2>1, <1>3 DEF SetInv, SetType, LoseCatalog, NoCatalog, Catalog
  <2> QED
    BY <2>1, <2>2, <1>3, EnvironmentStep DEF LoseCatalog
<1> QED
  BY <1>1, <1>2, <1>3

LEMMA SetNext == SetInv /\ [Next]_vars => SetInv'
<1> SUFFICES ASSUME SetInv, [Next]_vars PROVE SetInv'
  OBVIOUS
<1>1. CASE UNCHANGED vars
  <2>1. Fading /\ Fresh' /\ Published' = Published
    BY <1>1, SameSet DEF vars
  <2>2. SetType'
    BY <2>1, <1>1 DEF SetInv, SetType, vars
  <2> QED
    BY <2>1, <2>2, <1>1, EnvironmentStep DEF vars
<1>2. ASSUME NEW j \in Job, Backup(j) PROVE SetInv'
  BY <1>2, AcquireStep, PlanFullStep, PlanMemberStep, PublishStep, CatalogStep DEF Backup
<1>3. ASSUME NEW j \in Job, Retention(j) PROVE SetInv'
  BY <1>3, AcquireStep, SelectStep, DeleteStep, FinishStep DEF Retention
<1>4. ASSUME NEW j \in Job, Verification(j) PROVE SetInv'
  BY <1>4, VerifyImageStep, LockToMarkStep, RecordVerificationStep DEF Verification
<1>5. ASSUME NEW j \in Job, Rebuild(j) PROVE SetInv'
  BY <1>5, AcquireStep, CatalogStep DEF Rebuild
<1>6. ASSUME NEW j \in Job, Abort(j) PROVE SetInv'
  BY <1>6, AbortStep
<1> QED
  BY <1>1, <1>2, <1>3, <1>4, <1>5, <1>6, DestinationStep DEF Next

\* Every reachable state satisfies the invariant: the lock is held while the set
\* changes, a plan fits what can be read, a retention run's kept chains justify
\* its deletions and a verification marks what it read.
THEOREM SetInvariant == Spec => []SetInv
BY SetInit, SetNext, PTL DEF Spec

-------------------------------------------------------------------------------
(***************************************************************************)
(* What follows for the set.                                               *)
(***************************************************************************)

\* However jobs interleave and files decay, a verified_unix that
\* `carry_verification`, retention and `record_verification` leave in the
\* catalog belongs to an image that was read in full, provided no superblock
\* read fails for a moment only.
THEOREM MarksAreEarned ==
  ASSUME ~ Transient
  PROVE  Spec => []MarksWereEarned
<1>1. SetInv => MarksWereEarned
  BY DEF SetInv
<1> QED
  BY <1>1, SetInvariant, PTL

\* `chain_is_full` under the set lock bounds every chain, whichever jobs extend
\* it, again provided every superblock that is intact can be read.
THEOREM ChainsStayBounded ==
  ASSUME ~ Transient
  PROVE  Spec => []ChainsAreBounded
<1>1. SetInv => ChainsAreBounded
  BY DEF SetInv
<1> QED
  BY <1>1, SetInvariant, PTL

\* The new member of a recovery point that reads back.
LEMMA NewIsRestorable ==
  ASSUME SetInv, NEW j \in Job, Publish(j), ~ Transient,
         plan[j].seq = 0 \/ Restorable(plan[j].parent), NEW n, n = Len(sb) + 1
  PROVE  Restorable(n)'
<1>1. /\ n \in Image /\ n \notin Published
      /\ \A k \in Published : sb'[k] = sb[k] /\ sb[k].chain # n
      /\ sb'[n].seq = plan[j].seq
      /\ plan[j].seq = 0 => sb'[n].chain = n
      /\ plan[j].seq > 0 => sb'[n].chain = plan[j].chain
      /\ Visible' = Visible \cup {n} /\ Visible \subseteq Published
      /\ Fits(plan[j]) /\ plan[j].seq \in Nat
  BY OneImageMore
<1>2. n \in Visible' /\ damage'[n] = "none" /\ damage' = damage
  BY <1>1 DEF SetInv, Fresh, Publish
<1> DEFINE A == Ancestry(Visible, n)'
<1>3. \A k \in A : k \in Visible' /\ sb'[k].chain = sb'[n].chain
  BY DEF Ancestry, Members
<1>4. CASE plan[j].seq = 0
  <2>1. A = {n}
    BY <1>1, <1>4 DEF Ancestry, Members
  <2>2. Cardinality({n}) = 1
    BY FS_Singleton
  <2>3. {sb'[k].seq : k \in {n}} = 0 .. Cardinality({n}) - 1
    BY <2>2, <1>1, <1>4
  <2>4. NoGaps(Ancestry(Visible, n))'
    BY <2>1, <2>3 DEF NoGaps, Seqs
  <2> QED
    BY <2>1, <2>4, <1>2 DEF Restorable, ReadsBack
<1>5. CASE plan[j].seq > 0
  <2> DEFINE p == plan[j].parent
             B == Ancestry(Visible, p)
  <2>1. /\ p \in Visible /\ NoGaps(B) /\ \A k \in B : damage[k] = "none"
    BY <1>5 DEF Restorable, ReadsBack
  <2>2. /\ plan[j].chain = sb[p].chain /\ plan[j].seq = sb[p].seq + 1
        /\ \A k \in Members(Visible, sb[p].chain) : sb[k].seq <= sb[p].seq
    BY <1>1, <1>5 DEF Fits
  <2>3. \A k \in Visible : sb[k].seq \in Nat
    BY <1>1, PublishedImages DEF SetInv
  <2>4. A = B \cup {n} /\ p \in B /\ B \subseteq Visible
    <3>1. \A k \in Visible : sb[k].chain = sb[p].chain => sb[k].seq <= sb[p].seq
      BY <2>2 DEF Members
    <3>2. B = {k \in Visible : sb[k].chain = sb[p].chain}
      BY <3>1 DEF Ancestry, Members
    <3>3. \A k \in Visible : sb'[k] = sb[k]
      BY <1>1
    <3>4. /\ sb'[n].chain = sb[p].chain /\ sb'[n].seq = sb[p].seq + 1 /\ sb[p].seq \in Nat
          /\ Visible' = Visible \cup {n}
      BY <2>1, <2>2, <2>3, <1>1, <1>5
    <3>5. A = {k \in Visible' : sb'[k].chain = sb'[n].chain /\ sb'[k].seq <= sb'[n].seq}
      BY DEF Ancestry, Members
    <3>6. \A k \in Visible : sb'[k].chain = sb'[n].chain /\ sb'[k].seq <= sb'[n].seq
                               <=> sb[k].chain = sb[p].chain
      BY <3>1, <3>3, <3>4, <2>3
    <3>7. sb'[n].seq <= sb'[n].seq
      BY <3>4
    <3> HIDE DEF A, B, p
    <3> QED
      BY <3>2, <3>4, <3>5, <3>6, <3>7, <2>1
  <2>5. B \in SUBSET Image /\ n \notin B
    BY <2>4, <1>1, PublishedImages DEF SetInv
  <2>6. IsFiniteSet(B) /\ Cardinality(B) \in Nat
    BY <2>5, ImagesAreFinite
  <2>7. {sb[k].seq : k \in B} = 0 .. Cardinality(B) - 1 /\ B # {}
    BY <2>1 DEF NoGaps, Seqs
  <2>8. \A k \in B : sb[k].seq <= sb[p].seq
    BY DEF Ancestry
  <2> HIDE DEF A, B, p
  <2>9. sb[p].seq = Cardinality(B) - 1
    <3> DEFINE q == [k \in B |-> sb[k].seq]
    <3>1. q \in [B -> Nat] /\ {q[k] : k \in B} = 0 .. Cardinality(B) - 1
      BY <2>3, <2>4, <2>7
    <3>2. q[p] = sb[p].seq /\ \A k \in B : q[k] <= q[p]
      BY <2>4, <2>8
    <3> HIDE DEF q
    <3> QED
      BY <3>1, <3>2, <2>4, <2>5, <2>7, OneMore
  <2>10. Cardinality(A) = Cardinality(B) + 1
    BY <2>4, <2>5, <2>6, FS_AddElement
  <2>11. {sb'[k].seq : k \in A} = 0 .. Cardinality(A) - 1
    <3>1. {sb'[k].seq : k \in A} = {sb[k].seq : k \in B} \cup {sb'[n].seq}
      BY <2>4, <1>1
    <3>2. sb'[n].seq = Cardinality(B)
      BY <2>2, <2>6, <2>9, <1>1
    <3>3. (0 .. Cardinality(B) - 1) \cup {Cardinality(B)} = 0 .. Cardinality(A) - 1
      BY <2>6, <2>10
    <3> QED
      BY <3>1, <3>2, <3>3, <2>7
  <2>12. NoGaps(Ancestry(Visible, n))'
    BY <2>4, <2>11 DEF NoGaps, Seqs, A
  <2> QED
    BY <2>1, <2>4, <2>12, <1>2 DEF Restorable, ReadsBack, A
<1> QED
  BY <1>1, <1>4, <1>5

\* Publishing a backup never costs a recovery point and adds one whenever its
\* parent reads back: the set lock makes the parent that the plan resolved still
\* the last readable member of its chain.
THEOREM PublishAdds ==
  ASSUME ~ Transient
  PROVE  Spec => PublishAddsARecoveryPoint
<1>1. ASSUME SetInv, NEW j \in Job, Publish(j), NEW i \in files, Restorable(i)
      PROVE  Restorable(i)'
  <2> DEFINE A == Ancestry(Visible, i)
  <2>1. i \in Visible /\ NoGaps(A) /\ (\A k \in A : damage[k] = "none")
    BY <1>1 DEF Restorable, ReadsBack
  <2>2. A' = A
    BY <2>1, <1>1, OldAncestry
  <2>3. /\ \A k \in Published : sb'[k] = sb[k]
        /\ Visible \subseteq Visible' /\ A \subseteq Published
    BY <1>1, OneImageMore DEF Ancestry, Members
  <2>4. NoGaps(A)'
    BY <2>1, <2>2, <2>3 DEF NoGaps, Seqs
  <2> QED
    BY <2>1, <2>2, <2>3, <2>4, <1>1 DEF Restorable, ReadsBack, Publish
<1>2. ASSUME SetInv, NEW j \in Job, Publish(j), NEW new \in files' \ files,
             plan[j].seq = 0 \/ Restorable(plan[j].parent)
      PROVE  Restorable(new)'
  BY <1>2, NewIsRestorable DEF Publish
<1>3. SetInv /\ [Next]_vars =>
        [\A j \in Job : Publish(j) =>
           /\ \A i \in files : Restorable(i) => Restorable(i)'
           /\ \A new \in files' \ files :
                (plan[j].seq = 0 \/ Restorable(plan[j].parent)) => Restorable(new)']_vars
  <2> SUFFICES ASSUME SetInv, NEW j \in Job, Publish(j)
               PROVE  /\ \A i \in files : Restorable(i) => Restorable(i)'
                      /\ \A new \in files' \ files :
                           (plan[j].seq = 0 \/ Restorable(plan[j].parent)) => Restorable(new)'
    OBVIOUS
  <2> QED
    BY <1>1, <1>2
<1> QED
  BY <1>3, SetInvariant, PTL DEF Spec, PublishAddsARecoveryPoint

\* A deletion takes one member of a doomed chain, and nothing of any other.
LEMMA DeletesDoomed ==
  ASSUME SetInv, NEW j \in Job, Delete(j)
  PROVE  /\ Justified(ret[j])
         /\ \A c : c \notin ret[j].doomed => Members(ret[j].cat.members, c) \subseteq files'
         /\ ret[j].doomed # {}
         /\ \A m \in files \ files' : m \in ret[j].cat.members /\ sb[m].chain \in ret[j].doomed
<1>1. Justified(ret[j])
  BY DEF SetInv, RetentionsJustified, Delete
<1>2. PICK m \in ret[j].left : files' = files \ {m}
  BY DEF Delete
<1>3. m \in ret[j].cat.members /\ sb[m].chain \in ret[j].doomed
  BY <1>1, <1>2 DEF Justified
<1>4. {i \in ret[j].cat.members : sb[i].chain \notin ret[j].doomed} \subseteq files
  BY <1>1 DEF Justified
<1> QED
  BY <1>1, <1>2, <1>3, <1>4 DEF Members

\* While `apply` deletes, with any scan and whatever decays meanwhile, a chain
\* that this run read back keeps all its files.
THEOREM DeletionAuthorised == Spec => DeletionIsAuthorised
<1>1. ASSUME SetInv, NEW j \in Job, Delete(j)
      PROVE  \E c \in ret[j].passed : Members(ret[j].cat.members, c) \subseteq files'
  BY <1>1, DeletesDoomed DEF Justified
<1>2. SetInv /\ [Next]_vars =>
        [\A j \in Job : Delete(j) =>
           \E c \in ret[j].passed : Members(ret[j].cat.members, c) \subseteq files']_vars
  BY <1>1
<1> QED
  BY <1>2, SetInvariant, PTL DEF Spec, DeletionIsAuthorised

\* Retention takes a file of a complete chain only when KeepCount complete chains
\* that are as new keep all theirs, and of a verified chain only when another
\* verified one does: sorting, truncating and the exception for the last
\* verified chain are right for every number of chains and ties between them.
THEOREM RetentionSafe == Spec => RetentionKeeps
<1>1. ASSUME SetInv, NEW j \in Job, Delete(j), NEW m \in files \ files',
             sb[m].chain \in Complete(ret[j].cat.members)
      PROVE  Cardinality({d \in Complete(ret[j].cat.members) \ {sb[m].chain} :
                            /\ sb[d].created >= sb[sb[m].chain].created
                            /\ Members(ret[j].cat.members, d) \subseteq files'}) >= KeepCount
  <2> DEFINE S == ret[j].cat.members
             c == sb[m].chain
             doomed == ret[j].doomed
             good == {d \in Complete(S) \ doomed : sb[d].created >= sb[c].created}
             better == {d \in Complete(S) \ {c} : /\ sb[d].created >= sb[c].created
                                                  /\ Members(S, d) \subseteq files'}
  <2>1. /\ Justified(ret[j]) /\ c \in doomed \cap Complete(S)
        /\ \A d : d \notin doomed => Members(S, d) \subseteq files'
    BY <1>1, DeletesDoomed
  <2>2. good \in SUBSET better
    BY <2>1
  <2>3. S \in SUBSET Published /\ Cardinality(good) >= KeepCount
    BY <2>1 DEF Justified
  <2>4. better \in SUBSET Image
    BY <2>3, <1>1, ChainDate DEF SetInv
  <2> HIDE DEF good, better
  <2>5. IsFiniteSet(better) /\ Cardinality(better) \in Nat /\ Cardinality(good) \in Nat
    BY <2>2, <2>4, ImagesAreFinite
  <2>6. Cardinality(good) <= Cardinality(better)
    BY <2>2, <2>5, FS_Subset
  <2>7. KeepCount \in Nat
    BY SetAssumption DEF KeepCount
  <2>8. Cardinality(better) >= KeepCount
    BY <2>3, <2>5, <2>6, <2>7
  <2> QED
    BY <2>8 DEF better
<1>2. ASSUME SetInv, NEW j \in Job, Delete(j), NEW m \in files \ files',
             sb[m].chain \in Complete(ret[j].cat.members),
             Verified(Members(ret[j].cat.members, sb[m].chain), ret[j].cat.verified)
      PROVE  \E c \in {d \in Complete(ret[j].cat.members) :
                         Verified(Members(ret[j].cat.members, d), ret[j].cat.verified)} :
               c # sb[m].chain /\ Members(ret[j].cat.members, c) \subseteq files'
  BY <1>2, DeletesDoomed DEF Justified
<1>3. SetInv /\ [Next]_vars =>
        [\A j \in Job : Delete(j) =>
           \A m \in files \ files' :
             LET S == ret[j].cat.members
                 c == sb[m].chain
                 better == {d \in Complete(S) \ {c} : sb[d].created >= sb[c].created
                                                      /\ Members(S, d) \subseteq files'}
             IN  c \in Complete(S) => Cardinality(better) >= KeepCount]_vars
  BY <1>1
<1>4. SetInv /\ [Next]_vars =>
        [\A j \in Job : Delete(j) =>
           \A m \in files \ files' :
             LET S == ret[j].cat.members
                 marks == ret[j].cat.verified
                 known == {c \in Complete(S) : Verified(Members(S, c), marks)}
             IN  sb[m].chain \in known =>
                   \E c \in known : c # sb[m].chain /\ Members(S, c) \subseteq files']_vars
  BY <1>2
<1>5. Spec => KeepsTheNewest
  BY <1>3, SetInvariant, PTL DEF Spec, KeepsTheNewest
<1>6. Spec => LastVerifiedStays
  BY <1>4, SetInvariant, PTL DEF Spec, LastVerifiedStays
<1> QED
  BY <1>5, <1>6, PTL DEF RetentionKeeps
-----------------------------------------------------------------------------
(***************************************************************************)
(* Proofs about Schedule, for every set of configs, any number of calls,   *)
(* edits and elapsed timers.                                               *)
(*                                                                         *)
(* What systemd runs comes from unit files of many calls, complete or not; *)
(* so the invariant says of every service file, wherever it is (to be      *)
(* written, in the directory, loaded), that its retention line follows a   *)
(* backup of each source (UnitsAreSound), and of a call that has systemd   *)
(* to itself how far it got (EffectSoFar).  A config's jobs have different *)
(* names, so no file is written twice with different contents (IsPlan).    *)
(***************************************************************************)
Resting == {"idle", "ok", "error"}
CallerSteps == Resting \cup {"write", "enable", "delete"}

\* A run that has L left to do and D done retains only behind its backups.
Follows(L, D) ==
  \A i \in DOMAIN L : L[i].is = "retain" =>
    \A s \in L[i].sources : \/ \E k \in 1 .. i - 1 : L[k].is # "retain" /\ L[k].of = s
                            \/ \E d \in D : d.is # "retain" /\ d.of = s

IsRun(L) == L \in Seq(Range(L))
SoundRun(L) == IsRun(L) /\ Follows(L, {})
SoundFile(f, x) == f \in Files /\ (f[2] = "service" => SoundRun(x.commands))
IsPlan(P) == /\ \A p \in P : SoundFile(p[1], p[2]) /\ p = <<p[1], p[2]>>
             /\ \A p, q \in P : p[1] = q[1] => p[2] = q[2]
IsTodo(w, P) == w \in Seq(Seq(P)) /\ \A t \in DOMAIN w : w[t] # <<>>
ToWrite(w, p) == \E t \in DOMAIN w : \E k \in DOMAIN w[t] : w[t][k] = p

ScheduleShape ==
  /\ config \in Configs
  /\ DOMAIN unitFiles = Files /\ DOMAIN loaded = Files
  /\ DOMAIN units = Units /\ DOMAIN lines = Units /\ DOMAIN done = Units
  /\ caller \in [Callers -> CallerSteps] /\ DOMAIN call = Callers
UnitsAreSound ==
  \A f \in Files : /\ \A x \in unitFiles[f] : SoundFile(f, x)
                   /\ \A x \in loaded[f] : SoundFile(f, x)
RunsAreRuns ==
  \A u \in Units : IsRun(lines[u]) /\ (units[u] = "running" => lines[u] # <<>>)
CallsAreSound ==
  \A c \in Callers :
    /\ caller[c] = "write" => IsPlan(call[c].plan) /\ IsTodo(call[c].todo, call[c].plan)
    /\ caller[c] \in {"write", "enable"} => /\ DOMAIN call[c] = {"plan", "todo", "job"}
                                            /\ call[c].job = {}
    /\ caller[c] = "delete" => /\ DOMAIN call[c] = {"plan", "todo", "job"}
                               /\ call[c].plan = {} /\ call[c].todo \in Seq(Files)
AloneIsAlone ==
  /\ \A c \in alone : c \in Callers /\ caller[c] # "idle"
  /\ latest \in alone => \A d \in Callers : d # latest => caller[d] \in Resting
EffectSoFar ==
  latest \in alone =>
    LET made == call[latest]
    IN  /\ caller[latest] = "write" =>
             \A p \in made.plan : unitFiles[p[1]] = {p[2]} \/ ToWrite(made.todo, p)
        /\ caller[latest] = "enable" => \A p \in made.plan : loaded[p[1]] = {p[2]}
        /\ caller[latest] = "delete" =>
             \A f \in Files : f[1][2] \in made.job =>
               unitFiles[f] = Absent \/ \E k \in DOMAIN made.todo : made.todo[k] = f

ScheduleInvariant ==
  /\ ScheduleShape /\ UnitsAreSound /\ RunsAreRuns /\ CallsAreSound /\ AloneIsAlone
  /\ EffectSoFar /\ RetentionFollowsBackups /\ CallsTakeEffect

-----------------------------------------------------------------------------
\* A line that succeeded counts as done for the lines after it.
LEMMA RunAdvances ==
  ASSUME NEW L, NEW D, IsRun(L), L # <<>>, Follows(L, D)
  PROVE  IsRun(Tail(L)) /\ Follows(Tail(L), D \cup {Head(L)})
         /\ (Len(L) > 1 => Tail(L) # <<>>)
<1> DEFINE X == Range(L)
           T == Tail(L)
<1>1. L \in Seq(X)
  BY DEF IsRun
<1> HIDE DEF X
<1>2. /\ T \in Seq(X) /\ Len(T) = Len(L) - 1 /\ Len(L) \in Nat \ {0} /\ Head(L) = L[1]
      /\ \A k \in 1 .. Len(L) - 1 : T[k] = L[k + 1]
  BY <1>1
<1> HIDE DEF T
<1>3. IsRun(T)
  <2>1. DOMAIN T = 1 .. Len(T) /\ T = [k \in 1 .. Len(T) |-> T[k]] /\ Len(T) \in Nat
    BY <1>2
  <2>2. \A k \in 1 .. Len(T) : T[k] \in Range(T)
    BY <2>1 DEF Range
  <2> QED
    BY <2>1, <2>2 DEF IsRun
<1>4. ASSUME NEW i \in DOMAIN T, T[i].is = "retain", NEW s \in T[i].sources
      PROVE  \/ \E k \in 1 .. i - 1 : T[k].is # "retain" /\ T[k].of = s
             \/ \E d \in D \cup {Head(L)} : d.is # "retain" /\ d.of = s
  <2>1. i \in 1 .. Len(L) - 1 /\ T[i] = L[i + 1] /\ i + 1 \in DOMAIN L
    BY <1>1, <1>2, <1>4
  <2>2. \/ \E k \in 1 .. i : L[k].is # "retain" /\ L[k].of = s
        \/ \E d \in D : d.is # "retain" /\ d.of = s
    <3>1. (i + 1) - 1 = i
      BY <1>2, <2>1
    <3> QED
      BY <1>4, <2>1, <3>1 DEF Follows
  <2>3. ASSUME NEW k \in 1 .. i, L[k].is # "retain", L[k].of = s
        PROVE  \/ \E m \in 1 .. i - 1 : T[m].is # "retain" /\ T[m].of = s
               \/ \E d \in D \cup {Head(L)} : d.is # "retain" /\ d.of = s
    <3>1. CASE k = 1
      BY <1>2, <2>3, <3>1
    <3>2. CASE k # 1
      <4>1. k - 1 \in 1 .. i - 1 /\ T[k - 1] = L[k]
        BY <1>2, <2>1, <3>2
      <4> QED
        BY <2>3, <4>1
    <3> QED
      BY <3>1, <3>2
  <2> QED
    BY <2>2, <2>3
<1>5. Follows(T, D \cup {Head(L)})
  BY <1>4 DEF Follows
<1>6. Len(L) > 1 => T # <<>>
  BY <1>2
<1> QED
  BY <1>3, <1>5, <1>6 DEF T

\* The lines of a job: a backup of each source, then perhaps retention.
LEMMA CommandsAreSound ==
  ASSUME NEW job, NEW type, job.sources \in Seq(STRING), job.sources # <<>>, type # "retain"
  PROVE  SoundRun(Commands(job, type))
<1> DEFINE src == job.sources
           n == Len(src)
           a == [i \in DOMAIN src |-> [is |-> type, of |-> src[i]]]
           last == [is |-> "retain", sources |-> Range(src)]
           b == IF job.keep THEN <<last>> ELSE <<>>
           L == Commands(job, type)
           X == Range(a) \cup {last}
<1>1. n \in Nat \ {0} /\ DOMAIN src = 1 .. n
  BY EmptySeq
<1>2. a \in Seq(X) /\ Len(a) = n /\ \A i \in 1 .. n : a[i].is = type /\ a[i].of = src[i]
  <2>1. \A i \in 1 .. n : a[i] \in Range(a)
    BY <1>1 DEF Range
  <2>2. a = [i \in 1 .. n |-> a[i]]
    BY <1>1
  <2> HIDE DEF last
  <2>3. a \in Seq(X) /\ Len(a) = n
    <3> HIDE DEF a, n
    <3> QED
      BY <1>1, <2>1, <2>2
  <2> QED
    BY <1>1, <2>3
<1>3. last.is = "retain" /\ last.sources = Range(src)
  OBVIOUS
<1> HIDE DEF last
<1>4. b \in Seq(X) /\ Len(b) \in {0, 1} /\ (Len(b) = 1 => b[1] = last)
  <2>1. last \in X
    OBVIOUS
  <2> HIDE DEF X
  <2>2. b = <<last>> \/ b = <<>>
    OBVIOUS
  <2> HIDE DEF b
  <2>3. CASE b = <<last>>
    BY <2>1, <2>3
  <2>4. CASE b = <<>>
    BY <2>4
  <2> QED
    BY <2>2, <2>3, <2>4
<1>5. L = a \o b
  BY DEF Commands, last
<1> HIDE DEF a, b, L, X, src
<1>6. L \in Seq(X) /\ Len(L) = n + Len(b)
      /\ \A i \in 1 .. n + Len(b) : L[i] = IF i <= n THEN a[i] ELSE b[i - n]
  <2>1. a \in Seq(X) /\ b \in Seq(X)
    BY <1>2, <1>4
  <2>2. a \o b \in Seq(X) /\ Len(a \o b) = Len(a) + Len(b)
        /\ \A i \in 1 .. Len(a) + Len(b) :
              (a \o b)[i] = IF i <= Len(a) THEN a[i] ELSE b[i - Len(a)]
    BY <2>1, ConcatProperties
  <2>3. Len(a) = n
    BY <1>2
  <2> HIDE DEF n
  <2> QED
    BY <1>5, <2>2, <2>3
<1> HIDE DEF n
<1>7. DOMAIN L = 1 .. n + Len(b) /\ L # <<>> /\ \A i \in 1 .. n : L[i] = a[i]
  BY <1>1, <1>4, <1>6
<1>8. IsRun(L)
  <2>1. L = [k \in 1 .. Len(L) |-> L[k]] /\ Len(L) \in Nat
    BY <1>6
  <2>2. \A k \in 1 .. Len(L) : L[k] \in Range(L)
    BY <1>6, <1>7 DEF Range
  <2> QED
    BY <2>1, <2>2 DEF IsRun
<1>9. ASSUME NEW i \in DOMAIN L, L[i].is = "retain", NEW s \in L[i].sources
      PROVE  \E k \in 1 .. i - 1 : L[k].is # "retain" /\ L[k].of = s
  <2>1. i \notin 1 .. n
    BY <1>2, <1>7, <1>9
  <2>2. i = n + 1 /\ L[i] = last
    BY <1>1, <1>4, <1>6, <1>7, <2>1
  <2>3. PICK k \in DOMAIN src : src[k] = s
    BY <1>3, <1>9, <2>2 DEF Range
  <2>4. k \in 1 .. n /\ k \in 1 .. i - 1
    BY <1>1, <2>2, <2>3
  <2> QED
    BY <1>2, <1>7, <2>3, <2>4
<1>10. Follows(L, {})
  BY <1>9 DEF Follows
<1> QED
  BY <1>7, <1>8, <1>10 DEF SoundRun, L

\* The first lines of a sound service file are one.
LEMMA CutIsSound ==
  ASSUME NEW f \in Files, NEW x, SoundFile(f, x), NEW cut \in Cut(f, x)
  PROVE  SoundFile(f, cut)
<1> SUFFICES ASSUME f[2] = "service" PROVE SoundRun(cut.commands)
  BY DEF SoundFile
<1> DEFINE L == x.commands
           X == Range(L)
<1>1. IsRun(L) /\ Follows(L, {})
  BY DEF SoundFile, SoundRun
<1>2. PICK n \in 0 .. Len(L) : cut = ServiceUnit(x.after, SubSeq(L, 1, n))
  BY DEF Cut
<1> DEFINE T == SubSeq(L, 1, n)
<1>3. cut.commands = T
  BY <1>2 DEF ServiceUnit
<1>4. L \in Seq(X)
  BY <1>1 DEF IsRun
<1> HIDE DEF L, X
<1>5. /\ DOMAIN T = 1 .. n /\ Len(T) = n /\ n \in Nat /\ Len(L) \in Nat /\ n <= Len(L)
      /\ DOMAIN L = 1 .. Len(L) /\ \A k \in 1 .. n : T[k] = L[k]
      /\ T = [k \in 1 .. n |-> T[k]]
  BY <1>2, <1>4
<1> HIDE DEF T
<1>6. IsRun(T)
  <2>1. \A k \in 1 .. n : T[k] \in Range(T)
    BY <1>5 DEF Range
  <2> QED
    BY <1>5, <2>1 DEF IsRun
<1>7. Follows(T, {})
  <2>1. ASSUME NEW i \in DOMAIN T, T[i].is = "retain", NEW s \in T[i].sources
        PROVE  \E k \in 1 .. i - 1 : T[k].is # "retain" /\ T[k].of = s
    <3>1. i \in DOMAIN L /\ L[i] = T[i] /\ \A k \in 1 .. i - 1 : T[k] = L[k]
      BY <1>5
    <3>2. \E k \in 1 .. i - 1 : L[k].is # "retain" /\ L[k].of = s
      BY <1>1, <2>1, <3>1 DEF Follows
    <3> QED
      BY <3>1, <3>2
  <2> QED
    BY <2>1 DEF Follows
<1> QED
  BY <1>3, <1>6, <1>7 DEF SoundRun

\* A job's files: different ones, of the job's own units, and sound.
LEMMA JobFilesAreSound ==
  ASSUME NEW job, job.sources \in Seq(STRING), job.sources # <<>>, job.name \in Names,
         job.type \in {"full", "incremental", "differential"}
  PROVE  LET R == RenderJob(job)
         IN  /\ R \in Seq(Range(R)) /\ R # <<>> /\ IsPlan(Range(R))
             /\ \A p \in Range(R) : p[1][1][2] = job.name
<1> DEFINE R == RenderJob(job)
           u == <<"job", job.name>>
           n == <<"newchain", job.name>>
           A == ServiceUnit(job.chain # NoText, Commands(job, job.type))
           B == TimerUnit(job.calendar)
           C == ServiceUnit(FALSE, Commands(job, "full"))
           D == TimerUnit(job.chain)
           fA == <<u, "service">>
           fB == <<u, "timer">>
           fC == <<n, "service">>
           fD == <<n, "timer">>
           x == <<fA, A>>
           y == <<fB, B>>
           z == <<fC, C>>
           w == <<fD, D>>
           first == <<x, y>>
           rest == IF job.chain = NoText THEN <<>> ELSE <<z, w>>
<1>1. R = first \o rest
  BY DEF RenderJob
<1>2. SoundRun(A.commands) /\ SoundRun(C.commands)
  <2>1. SoundRun(Commands(job, job.type)) /\ SoundRun(Commands(job, "full"))
    BY CommandsAreSound
  <2> QED
    BY <2>1 DEF ServiceUnit
<1>3. /\ {fA, fB, fC, fD} \subseteq Files
      /\ fA[2] = "service" /\ fB[2] = "timer" /\ fC[2] = "service" /\ fD[2] = "timer"
      /\ \A f \in {fA, fB, fC, fD} : f[1][2] = job.name
      /\ fA # fB /\ fA # fC /\ fA # fD /\ fB # fC /\ fB # fD /\ fC # fD
  <2>1. u \in Units /\ n \in Units /\ u # n
    BY DEF Units, UnitKinds
  <2>2. u[2] = job.name /\ n[2] = job.name
    OBVIOUS
  <2> HIDE DEF u, n
  <2> QED
    BY <2>1, <2>2 DEF Files
<1> HIDE DEF A, B, C, D, fA, fB, fC, fD
<1>4. /\ x[1] = fA /\ x[2] = A /\ y[1] = fB /\ y[2] = B
      /\ z[1] = fC /\ z[2] = C /\ w[1] = fD /\ w[2] = D
      /\ \A p \in {x, y, z, w} : p = <<p[1], p[2]>>
  OBVIOUS
<1> HIDE DEF x, y, z, w
<1> DEFINE P == {x, y, z, w}
<1>5. IsPlan(P)
  <2>1. \A p \in P : SoundFile(p[1], p[2]) /\ p = <<p[1], p[2]>>
    BY <1>2, <1>3, <1>4 DEF SoundFile
  <2>2. \A p, q \in P : p[1] = q[1] => p[2] = q[2]
    BY <1>3, <1>4
  <2> QED
    BY <2>1, <2>2 DEF IsPlan
<1>6. \A p \in P : p[1][1][2] = job.name
  BY <1>3, <1>4
<1>7. first \in Seq(P) /\ first # <<>> /\ rest \in Seq(P) /\ Len(first) = 2
  <2>1. x \in P /\ y \in P /\ z \in P /\ w \in P
    OBVIOUS
  <2> HIDE DEF P
  <2> QED
    BY <2>1
<1> HIDE DEF P, R, first, rest
<1>8. R \in Seq(P) /\ Len(R) = 2 + Len(rest)
  <2>1. first \o rest \in Seq(P) /\ Len(first \o rest) = Len(first) + Len(rest)
    BY <1>7, ConcatProperties
  <2> QED
    BY <1>1, <1>7, <2>1
<1>9. Range(R) \subseteq P /\ R \in Seq(Range(R)) /\ R # <<>>
  <2>1. DOMAIN R = 1 .. Len(R) /\ Len(R) \in Nat /\ R = [k \in 1 .. Len(R) |-> R[k]]
        /\ Len(R) # 0
    BY <1>7, <1>8
  <2>2. Range(R) \subseteq P
    BY <1>8 DEF Range
  <2>3. \A k \in 1 .. Len(R) : R[k] \in Range(R)
    BY <2>1 DEF Range
  <2>4. R \in Seq(Range(R))
    BY <2>1, <2>3
  <2> QED
    BY <2>1, <2>2, <2>4
<1>10. IsPlan(Range(R))
  BY <1>5, <1>9 DEF IsPlan
<1> QED
  BY <1>6, <1>9, <1>10 DEF R

\* What a valid config asks for: every file once, and all of it to be written.
LEMMA ConfigIsAPlan ==
  ASSUME ScheduleAssumption, NEW jobList \in Configs, Validate(jobList)
  PROVE  LET w == RenderAll(jobList)
         IN  /\ IsPlan(Written(w)) /\ IsTodo(w, Written(w))
             /\ \A p \in Written(w) : ToWrite(w, p)
<1> DEFINE w == RenderAll(jobList)
           R(i) == RenderJob(jobList[i])
           P == Written(w)
           I == DOMAIN jobList
<1>1. jobList \in Seq(Range(jobList)) /\ I = 1 .. Len(jobList) /\ Len(jobList) \in Nat
  <2>1. jobList \in Seq(Range(jobList))
    BY DEF ScheduleAssumption
  <2> QED
    BY <2>1
<1>2. ASSUME NEW i \in I
      PROVE  /\ R(i) \in Seq(Range(R(i))) /\ R(i) # <<>> /\ IsPlan(Range(R(i)))
             /\ \A p \in Range(R(i)) : p[1][1][2] = jobList[i].name
  <2>1. jobList[i].name \in Names /\ jobList[i].sources \in Seq(STRING)
    BY DEF ScheduleAssumption
  <2>2. jobList[i].sources # <<>>
        /\ jobList[i].type \in {"full", "incremental", "differential"}
    BY DEF Validate
  <2> QED
    BY <2>1, <2>2, JobFilesAreSound
<1>3. w = [i \in I |-> R(i)]
  BY DEF RenderAll
<1> HIDE DEF R
<1>4. DOMAIN w = 1 .. Len(jobList) /\ \A i \in I : w[i] = R(i)
  BY <1>1, <1>3
<1> HIDE DEF w
<1>5. P = UNION {Range(w[i]) : i \in I}
  BY <1>1, <1>4 DEF Written
<1> HIDE DEF P
<1>6. ASSUME NEW p \in P PROVE \E i \in I : p \in Range(R(i))
  BY <1>4, <1>5
<1>7. ASSUME NEW i \in I PROVE Range(R(i)) \subseteq P
  BY <1>4, <1>5
<1>8. IsPlan(P)
  <2>1. ASSUME NEW p \in P PROVE SoundFile(p[1], p[2]) /\ p = <<p[1], p[2]>>
    BY <1>2, <1>6 DEF IsPlan
  <2>2. ASSUME NEW p \in P, NEW q \in P, p[1] = q[1] PROVE p[2] = q[2]
    <3>1. PICK i \in I : p \in Range(R(i))
      BY <1>6
    <3>2. PICK k \in I : q \in Range(R(k))
      BY <1>6
    <3>3. jobList[i].name = jobList[k].name
      BY <1>2, <2>2, <3>1, <3>2
    <3>4. i = k
      BY <3>3 DEF Validate
    <3> QED
      BY <1>2, <2>2, <3>1, <3>2, <3>4 DEF IsPlan
  <2> QED
    BY <2>1, <2>2 DEF IsPlan
<1>9. IsTodo(w, P)
  <2>1. ASSUME NEW i \in I PROVE w[i] \in Seq(P) /\ w[i] # <<>>
    <3>1. R(i) \in Seq(Range(R(i))) /\ R(i) # <<>> /\ Range(R(i)) \subseteq P
      BY <1>2, <1>7
    <3>2. R(i) \in Seq(P)
      <4> DEFINE r == R(i)
                 S == Range(r)
      <4>1. r \in Seq(S) /\ S \subseteq P
        BY <3>1
      <4> HIDE DEF r, S
      <4>2. Len(r) \in Nat /\ r \in [1 .. Len(r) -> P]
        BY <4>1
      <4>3. r \in Seq(P)
        BY <4>2
      <4> QED
        BY <4>3 DEF r
    <3> QED
      BY <1>4, <3>1, <3>2
  <2>2. w = [i \in 1 .. Len(jobList) |-> w[i]]
    BY <1>1, <1>3, <1>4
  <2> DEFINE Q == Seq(P)
  <2>3. \A i \in 1 .. Len(jobList) : w[i] \in Q
    BY <1>1, <2>1
  <2> HIDE DEF Q
  <2>4. w \in Seq(Q)
    BY <1>1, <2>2, <2>3
  <2> QED
    BY <1>1, <1>4, <2>1, <2>4 DEF IsTodo, Q
<1>10. ASSUME NEW p \in P PROVE ToWrite(w, p)
  <2>1. PICK i \in I : p \in Range(R(i))
    BY <1>6
  <2>2. PICK k \in DOMAIN R(i) : R(i)[k] = p
    BY <2>1 DEF Range
  <2> QED
    BY <1>1, <1>4, <2>1, <2>2 DEF ToWrite
<1> QED
  BY <1>8, <1>9, <1>10 DEF w, P

\* Writing the first file of a list leaves the others to be written.
NextTodo(w) == IF Len(Head(w)) = 1 THEN Tail(w) ELSE <<Tail(Head(w))>> \o Tail(w)

LEMMA TodoAdvances ==
  ASSUME NEW P, NEW w, IsTodo(w, P), w # <<>>
  PROVE  /\ Head(Head(w)) \in P /\ IsTodo(NextTodo(w), P)
         /\ \A p : ToWrite(w, p) => p = Head(Head(w)) \/ ToWrite(NextTodo(w), p)
<1> DEFINE Q == Seq(P)
           first == Head(w)
           left == Tail(first)
           rest == NextTodo(w)
<1>1. w \in Seq(Q) /\ \A t \in DOMAIN w : w[t] # <<>>
  BY DEF IsTodo
<1>2. first \in Q /\ first # <<>> /\ first = w[1]
  <2> HIDE DEF Q
  <2>1. 1 \in DOMAIN w /\ first = w[1] /\ first \in Q
    BY <1>1
  <2> QED
    BY <1>1, <2>1
<1>3. Head(first) \in P /\ Head(first) = first[1] /\ left \in Q /\ Len(left) = Len(first) - 1
      /\ Len(first) \in Nat \ {0} /\ \A k \in 1 .. Len(first) - 1 : left[k] = first[k + 1]
  <2> HIDE DEF first
  <2> QED
    BY <1>2
<1>4. /\ Tail(w) \in Seq(Q) /\ Len(Tail(w)) = Len(w) - 1 /\ Len(w) \in Nat \ {0}
      /\ \A t \in 1 .. Len(w) - 1 : Tail(w)[t] = w[t + 1]
  <2> HIDE DEF Q
  <2> QED
    BY <1>1
<1>5. rest = IF Len(first) = 1 THEN Tail(w) ELSE <<left>> \o Tail(w)
  BY DEF NextTodo
<1> SUFFICES /\ IsTodo(rest, P)
             /\ \A p : \A t \in DOMAIN w : \A k \in DOMAIN w[t] :
                   w[t][k] = p => p = Head(first) \/ ToWrite(rest, p)
  BY <1>3 DEF ToWrite
<1> HIDE DEF first, left, rest
<1>6. CASE Len(first) = 1
  <2>1. rest = Tail(w)
    BY <1>5, <1>6
  <2> HIDE DEF Q
  <2>2. IsTodo(rest, P)
    <3>1. ASSUME NEW u \in DOMAIN rest PROVE rest[u] # <<>>
      BY <1>1, <1>4, <2>1
    <3> QED
      BY <1>4, <2>1, <3>1 DEF IsTodo, Q
  <2>3. ASSUME NEW t \in DOMAIN w, NEW k \in DOMAIN w[t]
        PROVE  w[t][k] = Head(first) \/ ToWrite(rest, w[t][k])
    <3>1. CASE t = 1
      <4>1. k = 1
        BY <1>2, <1>6, <3>1 DEF Q
      <4> QED
        BY <1>2, <1>3, <3>1, <4>1
    <3>2. CASE t # 1
      <4>1. t - 1 \in DOMAIN rest /\ rest[t - 1] = w[t]
        BY <1>1, <1>4, <2>1, <3>2
      <4> QED
        BY <4>1 DEF ToWrite
    <3> QED
      BY <3>1, <3>2
  <2> QED
    BY <2>2, <2>3
<1>7. CASE Len(first) # 1
  <2>1. rest = <<left>> \o Tail(w)
    BY <1>5, <1>7
  <2>2. left # <<>>
    BY <1>3, <1>7
  <2> HIDE DEF Q
  <2>3. <<left>> \in Seq(Q) /\ Len(<<left>>) = 1 /\ <<left>>[1] = left
    BY <1>3
  <2>4. rest \in Seq(Q) /\ Len(rest) = 1 + Len(Tail(w))
        /\ \A u \in 1 .. 1 + Len(Tail(w)) :
              rest[u] = IF u <= 1 THEN <<left>>[u] ELSE Tail(w)[u - 1]
    BY <1>4, <2>1, <2>3, ConcatProperties
  <2>5. DOMAIN rest = 1 .. Len(w) /\ rest[1] = left
        /\ \A u \in 2 .. Len(w) : rest[u] = w[u]
    BY <1>4, <2>3, <2>4
  <2>6. IsTodo(rest, P)
    <3>1. ASSUME NEW u \in DOMAIN rest PROVE rest[u] # <<>>
      BY <1>1, <1>4, <2>2, <2>5
    <3> QED
      BY <2>4, <3>1 DEF IsTodo, Q
  <2>7. ASSUME NEW t \in DOMAIN w, NEW k \in DOMAIN w[t]
        PROVE  w[t][k] = Head(first) \/ ToWrite(rest, w[t][k])
    <3>1. CASE t = 1
      <4>1. k \in 1 .. Len(first) /\ w[t] = first
        BY <1>2, <3>1 DEF Q
      <4>2. CASE k = 1
        BY <1>3, <4>1, <4>2
      <4>3. CASE k # 1
        <5>1. k - 1 \in DOMAIN left /\ left[k - 1] = first[k]
          BY <1>3, <4>1, <4>3 DEF Q
        <5>2. 1 \in DOMAIN rest
          BY <1>4, <2>5
        <5> QED
          BY <2>5, <4>1, <5>1, <5>2 DEF ToWrite
      <4> QED
        BY <4>2, <4>3
    <3>2. CASE t # 1
      <4>1. t \in DOMAIN rest /\ rest[t] = w[t]
        BY <1>1, <1>4, <2>5, <3>2
      <4> QED
        BY <4>1 DEF ToWrite
    <3> QED
      BY <3>1, <3>2
  <2> QED
    BY <2>6, <2>7
<1> QED
  BY <1>6, <1>7

-----------------------------------------------------------------------------
\* The steps of a call leave the runs alone, and those of systemd the calls.
LEMMA RunsStay ==
  ASSUME ScheduleInvariant, UNCHANGED runs
  PROVE  RunsAreRuns' /\ RetentionFollowsBackups'
BY DEF ScheduleInvariant, runs, RunsAreRuns, RetentionFollowsBackups

LEMMA CallsStay ==
  ASSUME ScheduleInvariant, UNCHANGED <<unitFiles, loaded, timers, caller, call, latest, alone>>
  PROVE  UnitsAreSound' /\ CallsAreSound' /\ AloneIsAlone' /\ EffectSoFar' /\ CallsTakeEffect'
<1>1. UnitsAreSound'
  BY DEF ScheduleInvariant, UnitsAreSound
<1>2. CallsAreSound' /\ AloneIsAlone'
  BY DEF ScheduleInvariant, CallsAreSound, AloneIsAlone
<1>3. EffectSoFar' /\ CallsTakeEffect'
  BY DEF ScheduleInvariant, EffectSoFar, CallsTakeEffect
<1> QED
  BY <1>1, <1>2, <1>3

LEMMA StartsSound ==
  ASSUME ScheduleInvariant, NEW u \in Units, StartService(u)
  PROVE  ScheduleInvariant'
<1>1. PICK service \in loaded[<<u, "service">>] :
        /\ service.commands # <<>>
        /\ units' = [units EXCEPT ![u] = "running"]
        /\ lines' = [lines EXCEPT ![u] = service.commands]
        /\ done' = [done EXCEPT ![u] = {}]
  BY DEF StartService
<1>2. UNCHANGED <<config, unitFiles, loaded, timers, edits, elapses, starts, caller, call>>
  BY DEF StartService
<1>3. <<u, "service">> \in Files /\ <<u, "service">>[2] = "service"
  BY DEF Files
<1>4. SoundRun(service.commands)
  BY <1>1, <1>3 DEF ScheduleInvariant, UnitsAreSound, SoundFile
<1>5. UnitsAreSound' /\ CallsAreSound' /\ AloneIsAlone' /\ EffectSoFar' /\ CallsTakeEffect'
  BY <1>2, CallsStay DEF starts
<1>6. ScheduleShape'
  BY <1>1, <1>2 DEF ScheduleInvariant, ScheduleShape
<1> DEFINE L == service.commands
<1>7. /\ lines'[u] = L /\ done'[u] = {} /\ units'[u] = "running"
      /\ \A v \in Units : v # u => /\ lines'[v] = lines[v] /\ done'[v] = done[v]
                                   /\ units'[v] = units[v]
  BY <1>1 DEF ScheduleInvariant, ScheduleShape
<1> HIDE DEF L
<1>8. RunsAreRuns'
  BY <1>1, <1>4, <1>7 DEF ScheduleInvariant, RunsAreRuns, SoundRun, L
<1>9. RetentionFollowsBackups'
  <2>1. ASSUME NEW v \in Units PROVE Follows(lines'[v], done'[v])
    <3>1. Follows(lines[v], done[v])
      BY DEF ScheduleInvariant, RetentionFollowsBackups, Follows
    <3> QED
      BY <1>4, <1>7, <3>1 DEF SoundRun, L
  <2> QED
    BY <2>1 DEF RetentionFollowsBackups, Follows
<1> QED
  BY <1>5, <1>6, <1>8, <1>9 DEF ScheduleInvariant

LEMMA ExecSound ==
  ASSUME ScheduleInvariant, NEW u \in Units, ExecStart(u)
  PROVE  ScheduleInvariant'
<1>1. PICK ok \in BOOLEAN :
        /\ done' = [done EXCEPT ![u] = IF ok THEN @ \cup {Head(lines[u])} ELSE @]
        /\ lines' = [lines EXCEPT ![u] = IF ok THEN Tail(@) ELSE <<>>]
        /\ units' = [units EXCEPT ![u] = IF ok /\ Len(lines[u]) > 1 THEN @ ELSE "idle"]
  BY DEF ExecStart
<1>2. units[u] = "running"
      /\ UNCHANGED <<config, unitFiles, loaded, timers, edits, elapses, starts, caller, call>>
  BY DEF ExecStart
<1>3. UnitsAreSound' /\ CallsAreSound' /\ AloneIsAlone' /\ EffectSoFar' /\ CallsTakeEffect'
  BY <1>2, CallsStay DEF starts
<1>4. ScheduleShape'
  BY <1>1, <1>2 DEF ScheduleInvariant, ScheduleShape
<1> DEFINE L == lines[u]
           D == done[u]
<1>5. /\ lines'[u] = (IF ok THEN Tail(L) ELSE <<>>)
      /\ done'[u] = (IF ok THEN D \cup {Head(L)} ELSE D)
      /\ units'[u] = (IF ok /\ Len(L) > 1 THEN units[u] ELSE "idle")
      /\ \A v \in Units : v # u => /\ lines'[v] = lines[v] /\ done'[v] = done[v]
                                   /\ units'[v] = units[v]
  BY <1>1 DEF ScheduleInvariant, ScheduleShape
<1>6. IsRun(L) /\ L # <<>> /\ Follows(L, D)
  BY <1>2 DEF ScheduleInvariant, RunsAreRuns, RetentionFollowsBackups, Follows
<1> HIDE DEF L, D
<1>7. IsRun(Tail(L)) /\ Follows(Tail(L), D \cup {Head(L)}) /\ (Len(L) > 1 => Tail(L) # <<>>)
  BY <1>6, RunAdvances
<1>8. IsRun(<<>>) /\ \A E : Follows(<<>>, E)
  BY DEF IsRun, Follows
<1>9. RunsAreRuns'
  <2>1. ASSUME NEW v \in Units
        PROVE  IsRun(lines'[v]) /\ (units'[v] = "running" => lines'[v] # <<>>)
    <3>1. CASE v = u
      BY <1>5, <1>7, <1>8, <3>1
    <3>2. CASE v # u
      BY <1>5, <3>2 DEF ScheduleInvariant, RunsAreRuns
    <3> QED
      BY <3>1, <3>2
  <2> QED
    BY <2>1 DEF RunsAreRuns
<1>10. RetentionFollowsBackups'
  <2>1. ASSUME NEW v \in Units PROVE Follows(lines'[v], done'[v])
    <3>1. CASE v = u
      BY <1>5, <1>7, <1>8, <3>1
    <3>2. CASE v # u
      BY <1>5, <3>2 DEF ScheduleInvariant, RetentionFollowsBackups, Follows
    <3> QED
      BY <3>1, <3>2
  <2> QED
    BY <2>1 DEF RetentionFollowsBackups, Follows
<1> QED
  BY <1>3, <1>4, <1>9, <1>10 DEF ScheduleInvariant

LEMMA SystemdSound ==
  ASSUME ScheduleInvariant,
         EditConfig \/ (\E m \in {"daily", "weekly"} : Elapse(m)) \/ \E u \in Units : DropStart(u)
  PROVE  ScheduleInvariant'
<1>1. UNCHANGED <<unitFiles, loaded, timers, lines, done, starts, caller, call>>
  BY DEF EditConfig, Elapse, DropStart, systemd, runs
<1>2. UnitsAreSound' /\ CallsAreSound' /\ AloneIsAlone' /\ EffectSoFar' /\ CallsTakeEffect'
  BY <1>1, CallsStay DEF starts
<1>3. config' \in Configs /\ DOMAIN units' = Units
      /\ \A u \in Units : units'[u] = "running" => units[u] = "running"
  BY DEF EditConfig, Elapse, DropStart, systemd, runs, ScheduleInvariant, ScheduleShape
<1>4. ScheduleShape'
  BY <1>1, <1>3 DEF ScheduleInvariant, ScheduleShape
<1>5. RunsAreRuns'
  BY <1>1, <1>3 DEF ScheduleInvariant, RunsAreRuns
<1>6. RetentionFollowsBackups'
  BY <1>1 DEF ScheduleInvariant, RetentionFollowsBackups
<1> QED
  BY <1>2, <1>4, <1>5, <1>6 DEF ScheduleInvariant

-----------------------------------------------------------------------------
\* The steps of schedule set and schedule remove.
LEMMA GoMoves ==
  ASSUME ScheduleInvariant, NEW c \in Callers, NEW here, NEW there \in CallerSteps,
         Go(c, here, there)
  PROVE  /\ caller[c] = here /\ caller'[c] = there /\ caller' \in [Callers -> CallerSteps]
         /\ \A d \in Callers : d # c => caller'[d] = caller[d]
BY DEF ScheduleInvariant, ScheduleShape, Go

LEMMA BusyIsLatest ==
  ASSUME ScheduleInvariant, NEW c \in Callers, caller[c] \notin Resting, latest \in alone
  PROVE  c = latest
BY DEF ScheduleInvariant, AloneIsAlone

LEMMA AloneStays ==
  ASSUME ScheduleInvariant, NEW c \in Callers, caller[c] \notin Resting, caller'[c] # "idle",
         \A d \in Callers : d # c => caller'[d] = caller[d], UNCHANGED starts
  PROVE  AloneIsAlone'
<1>1. latest' = latest /\ alone' = alone
  BY DEF starts
<1>2. latest \in alone => c = latest
  BY BusyIsLatest
<1> QED
  BY <1>1, <1>2 DEF ScheduleInvariant, AloneIsAlone

LEMMA BeginsAlone ==
  ASSUME ScheduleInvariant, NEW c \in Callers, caller[c] = "idle", caller'[c] # "idle",
         \A d \in Callers : d # c => caller'[d] = caller[d], Begin(c)
  PROVE  AloneIsAlone' /\ latest' = c
<1> DEFINE busy == {d \in Callers : caller[d] \notin Resting}
<1>1. latest' = c /\ alone' = (alone \ busy) \cup (IF busy = {} THEN {c} ELSE {})
  BY DEF Begin, Resting
<1>2. c \notin alone
  BY DEF ScheduleInvariant, AloneIsAlone
<1>3. \A d \in alone' : d \in Callers /\ caller'[d] # "idle"
  BY <1>1 DEF ScheduleInvariant, AloneIsAlone
<1>4. c \in alone' => \A d \in Callers : caller[d] \in Resting
  BY <1>1, <1>2
<1> QED
  BY <1>1, <1>3, <1>4 DEF AloneIsAlone

LEMMA SetBegins ==
  ASSUME ScheduleAssumption, ScheduleInvariant, NEW c \in Callers, MaterializeReads(c)
  PROVE  ScheduleInvariant'
<1>1. UNCHANGED <<config, unitFiles, systemd, edits, elapses>> /\ Begin(c)
  BY DEF MaterializeReads
<1>2. RunsAreRuns' /\ RetentionFollowsBackups'
  BY <1>1, RunsStay DEF systemd
<1>3. UnitsAreSound'
  BY <1>1 DEF systemd, ScheduleInvariant, UnitsAreSound
<1>4. CASE Go(c, "idle", "error") /\ call' = call
  <2>1. /\ caller[c] = "idle" /\ caller'[c] = "error" /\ caller' \in [Callers -> CallerSteps]
        /\ \A d \in Callers : d # c => caller'[d] = caller[d]
    BY <1>4, GoMoves DEF CallerSteps, Resting
  <2>2. AloneIsAlone' /\ latest' = c
    BY <1>1, <2>1, BeginsAlone
  <2>3. ScheduleShape'
    BY <1>1, <1>4, <2>1 DEF systemd, runs, ScheduleInvariant, ScheduleShape
  <2>4. CallsAreSound'
    BY <1>4, <2>1 DEF ScheduleInvariant, CallsAreSound
  <2>5. EffectSoFar' /\ CallsTakeEffect'
    BY <2>1, <2>2 DEF EffectSoFar, CallsTakeEffect
  <2> QED
    BY <1>2, <1>3, <2>2, <2>3, <2>4, <2>5 DEF ScheduleInvariant
<1>5. CASE /\ Validate(config) /\ Go(c, "idle", "write")
           /\ call' = [call EXCEPT ![c] = [plan |-> Written(RenderAll(config)),
                                           todo |-> RenderAll(config), job |-> {}]]
  <2>1. /\ caller[c] = "idle" /\ caller'[c] = "write" /\ caller' \in [Callers -> CallerSteps]
        /\ \A d \in Callers : d # c => caller'[d] = caller[d]
    BY <1>5, GoMoves DEF CallerSteps, Resting
  <2>2. AloneIsAlone' /\ latest' = c
    BY <1>1, <2>1, BeginsAlone
  <2> DEFINE w == RenderAll(config)
             P == Written(w)
             made == [plan |-> P, todo |-> w, job |-> {}]
  <2>3. IsPlan(P) /\ IsTodo(w, P) /\ \A p \in P : ToWrite(w, p)
    BY <1>5, ConfigIsAPlan DEF ScheduleInvariant, ScheduleShape
  <2>4. /\ DOMAIN call' = Callers /\ call'[c] = made
        /\ \A d \in Callers : d # c => call'[d] = call[d]
    BY <1>5 DEF ScheduleInvariant, ScheduleShape
  <2> HIDE DEF w, P
  <2>5. DOMAIN made = {"plan", "todo", "job"}
        /\ made.plan = P /\ made.todo = w /\ made.job = {}
    OBVIOUS
  <2> HIDE DEF made
  <2>6. ScheduleShape'
    BY <1>1, <2>1, <2>4 DEF systemd, runs, ScheduleInvariant, ScheduleShape
  <2>7. CallsAreSound'
    BY <2>1, <2>3, <2>4, <2>5 DEF ScheduleInvariant, CallsAreSound
  <2>8. EffectSoFar' /\ CallsTakeEffect'
    BY <2>1, <2>2, <2>3, <2>4, <2>5 DEF EffectSoFar, CallsTakeEffect
  <2> QED
    BY <1>2, <1>3, <2>2, <2>6, <2>7, <2>8 DEF ScheduleInvariant
<1> QED
  BY <1>4, <1>5 DEF MaterializeReads

\* A call that fails promises nothing.
LEMMA CallFails ==
  ASSUME ScheduleInvariant, NEW c \in Callers, caller[c] \notin Resting, NEW here,
         Go(c, here, "error"),
         UNCHANGED <<config, loaded, runs, starts, call>>, DOMAIN unitFiles' = Files,
         \A f \in Files : \A x \in unitFiles'[f] : SoundFile(f, x)
  PROVE  ScheduleInvariant'
<1>1. /\ caller[c] = here /\ caller'[c] = "error" /\ caller' \in [Callers -> CallerSteps]
      /\ \A d \in Callers : d # c => caller'[d] = caller[d]
  BY GoMoves DEF CallerSteps, Resting
<1>2. RunsAreRuns' /\ RetentionFollowsBackups'
  BY RunsStay
<1>3. UnitsAreSound'
  BY DEF ScheduleInvariant, UnitsAreSound
<1>4. AloneIsAlone'
  BY <1>1, AloneStays
<1>5. ScheduleShape'
  BY <1>1 DEF runs, ScheduleInvariant, ScheduleShape
<1>6. CallsAreSound'
  BY <1>1 DEF ScheduleInvariant, CallsAreSound
<1>7. EffectSoFar' /\ CallsTakeEffect'
  <2>1. latest' \in alone' => caller'[latest'] = "error"
    BY <1>1, BusyIsLatest DEF starts
  <2> QED
    BY <2>1 DEF EffectSoFar, CallsTakeEffect
<1> QED
  BY <1>2, <1>3, <1>4, <1>5, <1>6, <1>7 DEF ScheduleInvariant

LEMMA WritesSound ==
  ASSUME ScheduleInvariant, NEW c \in Callers, WriteUnit(c)
  PROVE  ScheduleInvariant'
<1>1. UNCHANGED <<config, systemd, edits, elapses, starts>> /\ call[c].todo # <<>>
      /\ caller[c] = "write" /\ caller[c] \notin Resting
  BY DEF WriteUnit, Go, Resting
<1>2. CASE /\ Go(c, "write", "error") /\ call' = call
           /\ \/ unitFiles' = unitFiles
              \/ \E cut \in Cut(Head(Head(call[c].todo))[1], Head(Head(call[c].todo))[2]) :
                    unitFiles' = [unitFiles EXCEPT ![Head(Head(call[c].todo))[1]] = {cut}]
  <2>1. DOMAIN unitFiles = Files /\ \A f \in Files : \A x \in unitFiles[f] : SoundFile(f, x)
    BY DEF ScheduleInvariant, ScheduleShape, UnitsAreSound
  <2>2. DOMAIN unitFiles' = Files /\ \A f \in Files : \A x \in unitFiles'[f] : SoundFile(f, x)
    <3>1. CASE unitFiles' = unitFiles
      BY <2>1, <3>1
    <3>2. CASE unitFiles' # unitFiles
      <4> DEFINE h == Head(Head(call[c].todo))
      <4>1. PICK cut \in Cut(h[1], h[2]) : unitFiles' = [unitFiles EXCEPT ![h[1]] = {cut}]
        BY <1>2, <3>2
      <4>2. IsPlan(call[c].plan) /\ IsTodo(call[c].todo, call[c].plan)
        BY <1>1 DEF ScheduleInvariant, CallsAreSound
      <4>3. h \in call[c].plan
        BY <1>1, <4>2, TodoAdvances
      <4>4. SoundFile(h[1], h[2]) /\ h[1] \in Files
        BY <4>2, <4>3 DEF IsPlan, SoundFile
      <4> HIDE DEF h
      <4>5. SoundFile(h[1], cut)
        BY <4>1, <4>4, CutIsSound
      <4> QED
        BY <2>1, <4>1, <4>4, <4>5
    <3> QED
      BY <3>1, <3>2
  <2>3. UNCHANGED <<config, loaded, runs, starts, call>>
    BY <1>1, <1>2 DEF systemd
  <2> QED
    BY <1>1, <1>2, <2>2, <2>3, CallFails
<1>3. CASE /\ Go(c, "write", "write")
           /\ unitFiles' = [unitFiles EXCEPT ![Head(Head(call[c].todo))[1]] =
                                                 {Head(Head(call[c].todo))[2]}]
           /\ call' = [call EXCEPT ![c].todo =
                         IF Len(Head(call[c].todo)) = 1 THEN Tail(@)
                         ELSE <<Tail(Head(call[c].todo))>> \o Tail(@)]
  <2> DEFINE w == call[c].todo
             P == call[c].plan
             h == Head(Head(w))
  <2>1. /\ caller'[c] = "write" /\ caller' \in [Callers -> CallerSteps]
        /\ \A d \in Callers : d # c => caller'[d] = caller[d]
    BY <1>3, GoMoves DEF CallerSteps
  <2>2. RunsAreRuns' /\ RetentionFollowsBackups'
    BY <1>1, RunsStay DEF systemd
  <2>3. AloneIsAlone'
    BY <1>1, <2>1, AloneStays
  <2>4. IsPlan(P) /\ IsTodo(w, P) /\ DOMAIN call[c] = {"plan", "todo", "job"}
        /\ call[c].job = {}
    BY <1>1 DEF ScheduleInvariant, CallsAreSound
  <2>5. h \in P /\ IsTodo(NextTodo(w), P)
        /\ \A p : ToWrite(w, p) => p = h \/ ToWrite(NextTodo(w), p)
    BY <1>1, <2>4, TodoAdvances
  <2>6. /\ DOMAIN call' = Callers /\ DOMAIN call'[c] = {"plan", "todo", "job"}
        /\ call'[c].plan = P /\ call'[c].todo = NextTodo(w) /\ call'[c].job = {}
        /\ \A d \in Callers : d # c => call'[d] = call[d]
    <3>1. DOMAIN call = Callers
      BY DEF ScheduleInvariant, ScheduleShape
    <3>2. call' = [call EXCEPT ![c] = [@ EXCEPT !.todo = NextTodo(w)]]
      BY <1>3 DEF NextTodo
    <3> HIDE DEF w
    <3> QED
      BY <2>4, <3>1, <3>2
  <2> HIDE DEF w, P, h
  <2>7. h = <<h[1], h[2]>> /\ SoundFile(h[1], h[2]) /\ h[1] \in Files
        /\ \A p \in P : p[1] = h[1] => p[2] = h[2]
    BY <2>4, <2>5 DEF IsPlan, SoundFile
  <2>8. DOMAIN unitFiles' = Files /\ unitFiles'[h[1]] = {h[2]} /\ loaded' = loaded
        /\ \A f \in Files : f # h[1] => unitFiles'[f] = unitFiles[f]
    <3>1. unitFiles' = [unitFiles EXCEPT ![h[1]] = {h[2]}]
      BY <1>3 DEF h, w
    <3>2. DOMAIN unitFiles = Files
      BY DEF ScheduleInvariant, ScheduleShape
    <3> QED
      BY <1>1, <2>7, <3>1, <3>2 DEF systemd
  <2>9. UnitsAreSound'
    <3>1. ASSUME NEW f \in Files
          PROVE  /\ \A x \in unitFiles'[f] : SoundFile(f, x)
                 /\ \A x \in loaded'[f] : SoundFile(f, x)
      <4>1. (\A x \in unitFiles[f] : SoundFile(f, x)) /\ (\A x \in loaded[f] : SoundFile(f, x))
        BY DEF ScheduleInvariant, UnitsAreSound
      <4> QED
        BY <2>7, <2>8, <4>1
    <3> QED
      BY <3>1 DEF UnitsAreSound
  <2>10. ScheduleShape'
    BY <1>1, <2>1, <2>6, <2>8 DEF systemd, runs, ScheduleInvariant, ScheduleShape
  <2>11. CallsAreSound'
    BY <2>1, <2>4, <2>5, <2>6 DEF ScheduleInvariant, CallsAreSound
  <2>12. EffectSoFar' /\ CallsTakeEffect'
    <3>1. latest' = latest /\ alone' = alone
      BY <1>1 DEF starts
    <3>2. ASSUME latest \in alone, NEW p \in P
          PROVE  unitFiles'[p[1]] = {p[2]} \/ ToWrite(NextTodo(w), p)
      <4>1. c = latest
        BY <1>1, <3>2, BusyIsLatest
      <4>2. unitFiles[p[1]] = {p[2]} \/ ToWrite(w, p)
        BY <1>1, <3>2, <4>1 DEF ScheduleInvariant, EffectSoFar, w, P
      <4>3. p[1] \in Files
        BY <2>4 DEF IsPlan, SoundFile
      <4> QED
        BY <2>5, <2>7, <2>8, <4>2, <4>3
    <3>3. latest \in alone => c = latest
      BY <1>1, BusyIsLatest
    <3> QED
      BY <2>1, <2>6, <3>1, <3>2, <3>3 DEF EffectSoFar, CallsTakeEffect
  <2> QED
    BY <2>2, <2>3, <2>9, <2>10, <2>11, <2>12 DEF ScheduleInvariant
<1> QED
  BY <1>2, <1>3 DEF WriteUnit

LEMMA SetReloads ==
  ASSUME ScheduleInvariant, NEW c \in Callers, ReloadAfterSet(c)
  PROVE  ScheduleInvariant'
<1>1. /\ call[c].todo = <<>> /\ caller[c] = "write" /\ caller[c] \notin Resting
      /\ UNCHANGED <<config, unitFiles, timers, runs, edits, elapses, starts, call>>
  BY DEF ReloadAfterSet, DaemonReload, Go, Resting
<1>2. CASE Go(c, "write", "error") /\ loaded' = loaded
  BY <1>1, <1>2, CallFails DEF ScheduleInvariant, ScheduleShape, UnitsAreSound
<1>3. CASE Go(c, "write", "enable") /\ loaded' = unitFiles
  <2>1. /\ caller'[c] = "enable" /\ caller' \in [Callers -> CallerSteps]
        /\ \A d \in Callers : d # c => caller'[d] = caller[d]
    BY <1>3, GoMoves DEF CallerSteps
  <2>2. RunsAreRuns' /\ RetentionFollowsBackups'
    BY <1>1, RunsStay
  <2>3. AloneIsAlone'
    BY <1>1, <2>1, AloneStays
  <2>4. UnitsAreSound'
    BY <1>1, <1>3 DEF ScheduleInvariant, UnitsAreSound
  <2>5. ScheduleShape'
    BY <1>1, <1>3, <2>1 DEF runs, ScheduleInvariant, ScheduleShape
  <2>6. CallsAreSound'
    BY <1>1, <2>1 DEF ScheduleInvariant, CallsAreSound
  <2>7. EffectSoFar' /\ CallsTakeEffect'
    <3>1. latest' = latest /\ alone' = alone
      BY <1>1 DEF starts
    <3>2. latest \in alone => c = latest
      BY <1>1, BusyIsLatest
    <3>3. ASSUME latest \in alone, NEW p \in call[c].plan PROVE loaded'[p[1]] = {p[2]}
      <4>1. unitFiles[p[1]] = {p[2]} \/ ToWrite(call[c].todo, p)
        BY <1>1, <3>2, <3>3 DEF ScheduleInvariant, EffectSoFar
      <4>2. ~ ToWrite(call[c].todo, p)
        BY <1>1 DEF ToWrite
      <4> QED
        BY <1>3, <4>1, <4>2
    <3> QED
      BY <1>1, <2>1, <3>1, <3>2, <3>3 DEF EffectSoFar, CallsTakeEffect
  <2> QED
    BY <2>2, <2>3, <2>4, <2>5, <2>6, <2>7 DEF ScheduleInvariant
<1> QED
  BY <1>2, <1>3 DEF ReloadAfterSet, DaemonReload

LEMMA SetEnables ==
  ASSUME ScheduleInvariant, NEW c \in Callers, EnableTimers(c)
  PROVE  ScheduleInvariant'
<1>1. /\ caller[c] = "enable" /\ caller[c] \notin Resting
      /\ UNCHANGED <<config, unitFiles, loaded, runs, edits, elapses, starts, call>>
  BY DEF EnableTimers, Go, Resting
<1>2. CASE Go(c, "enable", "error")
  BY <1>1, <1>2, CallFails DEF ScheduleInvariant, ScheduleShape, UnitsAreSound
<1>3. CASE Go(c, "enable", "ok") /\ timers' = timers \cup TimersOf(call[c].plan)
  <2>1. /\ caller'[c] = "ok" /\ caller' \in [Callers -> CallerSteps]
        /\ \A d \in Callers : d # c => caller'[d] = caller[d]
    BY <1>3, GoMoves DEF CallerSteps, Resting
  <2>2. RunsAreRuns' /\ RetentionFollowsBackups'
    BY <1>1, RunsStay
  <2>3. AloneIsAlone'
    BY <1>1, <2>1, AloneStays
  <2>4. UnitsAreSound'
    BY <1>1 DEF ScheduleInvariant, UnitsAreSound
  <2>5. ScheduleShape'
    BY <1>1, <2>1 DEF runs, ScheduleInvariant, ScheduleShape
  <2>6. CallsAreSound'
    BY <1>1, <2>1 DEF ScheduleInvariant, CallsAreSound
  <2>7. EffectSoFar' /\ CallsTakeEffect'
    <3>1. latest' = latest /\ alone' = alone
      BY <1>1 DEF starts
    <3>2. latest \in alone => c = latest
      BY <1>1, BusyIsLatest
    <3>3. call[c].job = {}
      BY <1>1 DEF ScheduleInvariant, CallsAreSound
    <3>4. latest \in alone => \A p \in call[c].plan : loaded[p[1]] = {p[2]}
      BY <1>1, <3>2 DEF ScheduleInvariant, EffectSoFar
    <3> QED
      BY <1>1, <1>3, <2>1, <3>1, <3>2, <3>3, <3>4 DEF EffectSoFar, CallsTakeEffect
  <2> QED
    BY <2>2, <2>3, <2>4, <2>5, <2>6, <2>7 DEF ScheduleInvariant
<1> QED
  BY <1>2, <1>3 DEF EnableTimers

LEMMA RemoveBegins ==
  ASSUME ScheduleInvariant, NEW c \in Callers, RemoveStarts(c)
  PROVE  ScheduleInvariant'
<1>1. PICK name \in Names :
        call' = [call EXCEPT ![c] =
              [plan |-> {}, job |-> {name},
               todo |-> <<<<<<"job", name>>, "service">>, <<<<"job", name>>, "timer">>,
                          <<<<"newchain", name>>, "service">>,
                          <<<<"newchain", name>>, "timer">>>>]]
  BY DEF RemoveStarts
<1>2. /\ Go(c, "idle", "delete") /\ Begin(c)
      /\ UNCHANGED <<config, unitFiles, loaded, runs, edits, elapses>>
  BY DEF RemoveStarts
<1>3. /\ caller[c] = "idle" /\ caller'[c] = "delete" /\ caller' \in [Callers -> CallerSteps]
      /\ \A d \in Callers : d # c => caller'[d] = caller[d]
  BY <1>2, GoMoves DEF CallerSteps
<1>4. RunsAreRuns' /\ RetentionFollowsBackups'
  BY <1>2, RunsStay
<1>5. AloneIsAlone' /\ latest' = c
  BY <1>2, <1>3, BeginsAlone
<1>6. UnitsAreSound'
  BY <1>2 DEF ScheduleInvariant, UnitsAreSound
<1> DEFINE fA == <<<<"job", name>>, "service">>
           fB == <<<<"job", name>>, "timer">>
           fC == <<<<"newchain", name>>, "service">>
           fD == <<<<"newchain", name>>, "timer">>
           todo == <<fA, fB, fC, fD>>
           made == [plan |-> {}, job |-> {name}, todo |-> todo]
<1>7. fA \in Files /\ fB \in Files /\ fC \in Files /\ fD \in Files
  <2>1. <<"job", name>> \in Units /\ <<"newchain", name>> \in Units
    BY <1>1 DEF Units, UnitKinds
  <2> QED
    BY <2>1 DEF Files
<1>8. \A f \in Files : f[1][2] = name => f \in {fA, fB, fC, fD}
  BY DEF Files, Units, UnitKinds
<1>9. /\ DOMAIN call' = Callers /\ call'[c] = made
      /\ \A d \in Callers : d # c => call'[d] = call[d]
  BY <1>1 DEF ScheduleInvariant, ScheduleShape
<1> HIDE DEF fA, fB, fC, fD
<1>10. todo \in Seq(Files) /\ DOMAIN todo = 1 .. 4
       /\ todo[1] = fA /\ todo[2] = fB /\ todo[3] = fC /\ todo[4] = fD
  BY <1>7
<1> HIDE DEF todo
<1>11. DOMAIN made = {"plan", "todo", "job"}
       /\ made.plan = {} /\ made.todo = todo /\ made.job = {name}
  OBVIOUS
<1> HIDE DEF made
<1>12. ScheduleShape'
  BY <1>2, <1>3, <1>9 DEF runs, ScheduleInvariant, ScheduleShape
<1>13. CallsAreSound'
  BY <1>3, <1>9, <1>10, <1>11 DEF ScheduleInvariant, CallsAreSound
<1>14. EffectSoFar'
  <2>1. ASSUME NEW f \in Files, f[1][2] \in made.job
        PROVE  \E k \in DOMAIN made.todo : made.todo[k] = f
    <3>1. f \in {fA, fB, fC, fD}
      BY <1>8, <1>11, <2>1
    <3> QED
      BY <1>10, <1>11, <3>1
  <2> QED
    BY <1>3, <1>5, <1>9, <2>1 DEF EffectSoFar
<1>15. CallsTakeEffect'
  BY <1>3, <1>5 DEF CallsTakeEffect
<1> QED
  BY <1>4, <1>5, <1>6, <1>12, <1>13, <1>14, <1>15 DEF ScheduleInvariant

LEMMA DeletesSound ==
  ASSUME ScheduleInvariant, NEW c \in Callers, DeleteUnit(c)
  PROVE  ScheduleInvariant'
<1>1. UNCHANGED <<config, systemd, edits, elapses, starts>> /\ call[c].todo # <<>>
      /\ caller[c] = "delete" /\ caller[c] \notin Resting
  BY DEF DeleteUnit, Go, Resting
<1>2. CASE Go(c, "delete", "error") /\ UNCHANGED <<unitFiles, call>>
  BY <1>1, <1>2, CallFails DEF systemd, ScheduleInvariant, ScheduleShape, UnitsAreSound
<1>3. CASE /\ Go(c, "delete", "delete")
           /\ unitFiles' = [unitFiles EXCEPT ![Head(call[c].todo)] = Absent]
           /\ call' = [call EXCEPT ![c].todo = Tail(@)]
  <2> DEFINE w == call[c].todo
             h == Head(w)
  <2>1. /\ caller'[c] = "delete" /\ caller' \in [Callers -> CallerSteps]
        /\ \A d \in Callers : d # c => caller'[d] = caller[d]
    BY <1>3, GoMoves DEF CallerSteps
  <2>2. RunsAreRuns' /\ RetentionFollowsBackups'
    BY <1>1, RunsStay DEF systemd
  <2>3. AloneIsAlone'
    BY <1>1, <2>1, AloneStays
  <2>4. w \in Seq(Files) /\ DOMAIN call[c] = {"plan", "todo", "job"} /\ call[c].plan = {}
    BY <1>1 DEF ScheduleInvariant, CallsAreSound
  <2>5. /\ DOMAIN call' = Callers /\ DOMAIN call'[c] = {"plan", "todo", "job"}
        /\ call'[c].plan = {} /\ call'[c].todo = Tail(w) /\ call'[c].job = call[c].job
        /\ \A d \in Callers : d # c => call'[d] = call[d]
    <3>1. DOMAIN call = Callers
      BY DEF ScheduleInvariant, ScheduleShape
    <3>2. call' = [call EXCEPT ![c] = [@ EXCEPT !.todo = Tail(w)]]
      BY <1>3
    <3> HIDE DEF w
    <3> QED
      BY <2>4, <3>1, <3>2
  <2> HIDE DEF w
  <2>6. Tail(w) \in Seq(Files) /\ h = w[1] /\ h \in Files
        /\ \A k \in DOMAIN w : k # 1 => k - 1 \in DOMAIN Tail(w) /\ Tail(w)[k - 1] = w[k]
    <3>1. w # <<>>
      BY <1>1 DEF w
    <3> QED
      BY <2>4, <3>1
  <2> HIDE DEF h
  <2>7. DOMAIN unitFiles' = Files /\ unitFiles'[h] = Absent /\ loaded' = loaded
        /\ timers' = timers /\ \A f \in Files : f # h => unitFiles'[f] = unitFiles[f]
    <3>1. unitFiles' = [unitFiles EXCEPT ![h] = Absent]
      BY <1>3 DEF h, w
    <3>2. DOMAIN unitFiles = Files
      BY DEF ScheduleInvariant, ScheduleShape
    <3> QED
      BY <1>1, <2>6, <3>1, <3>2 DEF systemd
  <2>8. UnitsAreSound'
    BY <2>7 DEF ScheduleInvariant, UnitsAreSound, Absent
  <2>9. ScheduleShape'
    BY <1>1, <2>1, <2>5, <2>7 DEF systemd, runs, ScheduleInvariant, ScheduleShape
  <2>10. CallsAreSound'
    BY <2>1, <2>5, <2>6 DEF ScheduleInvariant, CallsAreSound
  <2>11. EffectSoFar' /\ CallsTakeEffect'
    <3>1. latest' = latest /\ alone' = alone
      BY <1>1 DEF starts
    <3>2. latest \in alone => c = latest
      BY <1>1, BusyIsLatest
    <3>3. ASSUME latest \in alone, NEW f \in Files, f[1][2] \in call[c].job
          PROVE  unitFiles'[f] = Absent \/ \E k \in DOMAIN Tail(w) : Tail(w)[k] = f
      <4>1. unitFiles[f] = Absent \/ \E k \in DOMAIN w : w[k] = f
        BY <1>1, <3>2, <3>3 DEF ScheduleInvariant, EffectSoFar, w
      <4> QED
        BY <2>6, <2>7, <4>1
    <3>4. latest' \in alone' => /\ latest' = c /\ caller'[latest'] = "delete"
                               /\ call'[latest'].todo = Tail(w)
                               /\ call'[latest'].job = call[c].job
      BY <2>1, <2>5, <3>1, <3>2
    <3>5. EffectSoFar'
      BY <3>1, <3>3, <3>4 DEF EffectSoFar
    <3>6. CallsTakeEffect'
      BY <3>4 DEF CallsTakeEffect
    <3> QED
      BY <3>5, <3>6
  <2> QED
    BY <2>2, <2>3, <2>8, <2>9, <2>10, <2>11 DEF ScheduleInvariant
<1> QED
  BY <1>2, <1>3 DEF DeleteUnit

LEMMA RemoveReloads ==
  ASSUME ScheduleInvariant, NEW c \in Callers, ReloadAfterRemove(c)
  PROVE  ScheduleInvariant'
<1>1. /\ call[c].todo = <<>> /\ caller[c] = "delete" /\ caller[c] \notin Resting
      /\ UNCHANGED <<config, unitFiles, timers, runs, edits, elapses, starts, call>>
  BY DEF ReloadAfterRemove, DaemonReload, Go, Resting
<1>2. CASE Go(c, "delete", "error") /\ loaded' = loaded
  BY <1>1, <1>2, CallFails DEF ScheduleInvariant, ScheduleShape, UnitsAreSound
<1>3. CASE Go(c, "delete", "ok") /\ loaded' = unitFiles
  <2>1. /\ caller'[c] = "ok" /\ caller' \in [Callers -> CallerSteps]
        /\ \A d \in Callers : d # c => caller'[d] = caller[d]
    BY <1>3, GoMoves DEF CallerSteps, Resting
  <2>2. RunsAreRuns' /\ RetentionFollowsBackups'
    BY <1>1, RunsStay
  <2>3. AloneIsAlone'
    BY <1>1, <2>1, AloneStays
  <2>4. UnitsAreSound'
    BY <1>1, <1>3 DEF ScheduleInvariant, UnitsAreSound
  <2>5. ScheduleShape'
    BY <1>1, <1>3, <2>1 DEF runs, ScheduleInvariant, ScheduleShape
  <2>6. CallsAreSound'
    BY <1>1, <2>1 DEF ScheduleInvariant, CallsAreSound
  <2>7. EffectSoFar' /\ CallsTakeEffect'
    <3>1. latest' = latest /\ alone' = alone
      BY <1>1 DEF starts
    <3>2. latest \in alone => c = latest
      BY <1>1, BusyIsLatest
    <3>3. call[c].plan = {} /\ TimersOf(call[c].plan) = {}
      <4>1. call[c].plan = {}
        BY <1>1 DEF ScheduleInvariant, CallsAreSound
      <4> QED
        BY <4>1 DEF TimersOf
    <3>4. ASSUME latest \in alone, NEW f \in Files, f[1][2] \in call[c].job
          PROVE  loaded'[f] = Absent
      <4>1. unitFiles[f] = Absent \/ \E k \in DOMAIN call[c].todo : call[c].todo[k] = f
        BY <1>1, <3>2, <3>4 DEF ScheduleInvariant, EffectSoFar
      <4>2. DOMAIN call[c].todo = {}
        BY <1>1
      <4> QED
        BY <1>1, <1>3, <4>1, <4>2
    <3> QED
      BY <1>1, <2>1, <3>1, <3>2, <3>3, <3>4 DEF EffectSoFar, CallsTakeEffect
  <2> QED
    BY <2>2, <2>3, <2>4, <2>5, <2>6, <2>7 DEF ScheduleInvariant
<1> QED
  BY <1>2, <1>3 DEF ReloadAfterRemove, DaemonReload

LEMMA ScheduleInitial ==
  ASSUME ScheduleAssumption, ScheduleInit
  PROVE  ScheduleInvariant
<1>1. PICK earlier \in {<<>>} \cup {jobList \in Configs : Validate(jobList)} :
        unitFiles = [f \in Files |->
                       {p[2] : p \in {q \in Written(RenderAll(earlier)) : q[1] = f}}]
  BY DEF ScheduleInit
<1> DEFINE P == Written(RenderAll(earlier))
<1>2. IsPlan(P)
  <2>1. CASE earlier = <<>>
    <3>1. DOMAIN RenderAll(<<>>) = {}
      BY DEF RenderAll
    <3>2. P = {}
      BY <2>1, <3>1 DEF Written
    <3> QED
      BY <3>2 DEF IsPlan
  <2>2. CASE earlier # <<>>
    BY <1>1, <2>2, ConfigIsAPlan
  <2> QED
    BY <2>1, <2>2
<1> HIDE DEF P
<1>3. UnitsAreSound
  <2>1. ASSUME NEW f \in Files, NEW x \in unitFiles[f] PROVE SoundFile(f, x)
    <3>1. PICK p \in P : p[1] = f /\ p[2] = x
      BY <1>1, <2>1 DEF P
    <3> QED
      BY <1>2, <3>1 DEF IsPlan
  <2>2. loaded = unitFiles
    BY DEF ScheduleInit
  <2> QED
    BY <2>1, <2>2 DEF UnitsAreSound
<1>4. ScheduleShape
  BY <1>1 DEF ScheduleInit, ScheduleShape, CallerSteps, Resting
<1>5. \A u \in Units : lines[u] = <<>> /\ units[u] = "idle"
  BY DEF ScheduleInit
<1>6. RunsAreRuns
  <2>1. IsRun(<<>>)
    BY DEF IsRun
  <2> QED
    BY <1>5, <2>1 DEF RunsAreRuns
<1>7. RetentionFollowsBackups
  <2>1. \A u \in Units : DOMAIN lines[u] = {}
    BY <1>5
  <2> QED
    BY <2>1 DEF RetentionFollowsBackups
<1>8. CallsAreSound /\ AloneIsAlone /\ EffectSoFar /\ CallsTakeEffect
  BY DEF ScheduleInit, CallsAreSound, AloneIsAlone, EffectSoFar, CallsTakeEffect
<1> QED
  BY <1>3, <1>4, <1>6, <1>7, <1>8 DEF ScheduleInvariant

\* Whatever calls overlap, fail halfway or meet an edited config, every service file systemd may
\* run retains only behind the backups of its sources, and a call that has systemd to itself is
\* as far as its step says (schedule.rs, materialize and remove).
THEOREM ScheduleInvariance == ScheduleAssumption => (ScheduleSpec => []ScheduleInvariant)
<1> SUFFICES ASSUME ScheduleAssumption PROVE ScheduleSpec => []ScheduleInvariant
  OBVIOUS
<1>1. ScheduleInit => ScheduleInvariant
  BY ScheduleInitial
<1>2. ScheduleInvariant /\ [ScheduleNext]_scheduleVars => ScheduleInvariant'
  <2> SUFFICES ASSUME ScheduleInvariant, [ScheduleNext]_scheduleVars PROVE ScheduleInvariant'
    OBVIOUS
  <2>1. CASE \E c \in Callers :
               \/ MaterializeReads(c) \/ WriteUnit(c) \/ ReloadAfterSet(c) \/ EnableTimers(c)
               \/ RemoveStarts(c) \/ DeleteUnit(c) \/ ReloadAfterRemove(c)
    BY <2>1, SetBegins, WritesSound, SetReloads, SetEnables, RemoveBegins, DeletesSound,
       RemoveReloads
  <2>2. CASE EditConfig \/ (\E m \in {"daily", "weekly"} : Elapse(m))
             \/ \E u \in Units : DropStart(u)
    BY <2>2, SystemdSound
  <2>3. CASE \E u \in Units : StartService(u) \/ ExecStart(u)
    BY <2>3, StartsSound, ExecSound
  <2>4. CASE UNCHANGED scheduleVars
    <3>1. UnitsAreSound' /\ CallsAreSound' /\ AloneIsAlone' /\ EffectSoFar' /\ CallsTakeEffect'
      BY <2>4, CallsStay DEF scheduleVars
    <3>2. RunsAreRuns' /\ RetentionFollowsBackups'
      BY <2>4, RunsStay DEF scheduleVars, runs
    <3>3. ScheduleShape'
      BY <2>4 DEF scheduleVars, ScheduleInvariant, ScheduleShape
    <3> QED
      BY <3>1, <3>2, <3>3 DEF ScheduleInvariant
  <2> QED
    BY <2>1, <2>2, <2>3, <2>4 DEF ScheduleNext
<1> QED
  BY <1>1, <1>2, PTL DEF ScheduleSpec

\* Retention runs only behind backups of all of a job's sources, and a call that had systemd to
\* itself left what it promises, for every config, any number of calls and of edits
\* (schedule.rs, commands, materialize and remove).
THEOREM SchedulesAreKept == ScheduleAssumption => (ScheduleSpec => []SchedulesHold)
<1> SUFFICES ASSUME ScheduleAssumption PROVE ScheduleSpec => []SchedulesHold
  OBVIOUS
<1>1. ScheduleInvariant => SchedulesHold
  BY DEF ScheduleInvariant, SchedulesHold
<1> QED
  BY <1>1, ScheduleInvariance, PTL

==============================================================================
