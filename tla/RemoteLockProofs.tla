--------------------------- MODULE RemoteLockProofs ----------------------------
(***************************************************************************)
(* The lock of an SFTP destination, for any number of processes, any       *)
(* lease and any number of lost connections and deaths.                    *)
(*                                                                         *)
(* Fencing holds however locks are broken.  It is inductive with what      *)
(* makes it last: the lease is lost for good, or the refresher is not in   *)
(* the middle of a refresh and the record at the path is another's, so     *)
(* that nothing this holder still does can write its token back.           *)
(*                                                                         *)
(* Mutual exclusion, as the refinement of SetMutex, holds where locks are  *)
(* broken as the operator guide says.  The argument is that a process      *)
(* which may remove a lock runs alone (BreakersAlone), and that the file a *)
(* process made is gone from its hands unless it writes its record or the  *)
(* connection is lost (FilesInHand).                                       *)
(***************************************************************************)
EXTENDS RemoteLock, TLAPS

\* Tokens and inodes are not `None`, and a lease has a length.
Sound == None \notin Proc /\ None \notin Inode /\ TTL \in Nat

Steps == {"idle", "create", "write", "read", "remove"} \cup Keeping

RemoteType ==
  /\ path \in Inode \cup {None}
  /\ content \in [Inode -> [tok : Proc \cup {None}, age : Nat]]
  /\ pc \in [Proc -> Steps] /\ brk \in [Proc -> BOOLEAN]
  /\ fd \in [Proc -> Inode \cup {None}] /\ tfd \in [Proc -> Inode \cup {None}]
  /\ stamp \in [Proc -> Nat]
  /\ up \in [Proc -> BOOLEAN] /\ lost \in [Proc -> BOOLEAN] /\ fenced \in [Proc -> BOOLEAN]
  /\ thr \in [Proc -> {"none", "sleep", "checked", "opened", "done"}]

-----------------------------------------------------------------------------
LEMMA TypeInit == Sound => (Init => RemoteType)
BY DEF Sound, Init, RemoteType, Unreadable, Steps, Keeping

LEMMA TypeRecord == Sound => /\ Unreadable \in [tok : Proc \cup {None}, age : Nat]
                             /\ \A p \in Proc, n \in Nat : [tok |-> p, age |-> n] \in [tok : Proc \cup {None}, age : Nat]
BY DEF Sound, Unreadable

LEMMA TypeForget ==
  ASSUME Sound, RemoteType, NEW p \in Proc, Forget(p), content' = content,
         path' \in Inode \cup {None}
  PROVE  RemoteType'
BY DEF RemoteType, Forget, Goto, Steps, Keeping

LEMMA TypeAcquire ==
  ASSUME Sound, RemoteType, NEW p \in Proc, Acquire(p)
  PROVE  RemoteType'
<1>1. CASE GiveUp(p) \/ WriteRecordFails(p) \/ JudgeRefused(p) \/ RemoveFails(p)
  BY <1>1, TypeForget DEF GiveUp, WriteRecordFails, JudgeRefused, RemoveFails, Refused, file,
     RemoteType
<1>2. CASE Create(p)
  BY <1>2, TypeRecord DEF Create, Goto, RemoteType, Steps, Keeping, lease
<1>3. CASE CreateFails(p) \/ Judge(p)
  BY <1>3 DEF CreateFails, Judge, Goto, RemoteType, Steps, Keeping, lease, file
<1>4. CASE WriteRecord(p)
  BY <1>4, TypeRecord DEF WriteRecord, Goto, RemoteType, Steps, Keeping
<1>5. CASE RemoveStale(p)
  BY <1>5 DEF RemoveStale, Goto, RemoteType, Steps, Keeping, lease
<1> QED
  BY <1>1, <1>2, <1>3, <1>4, <1>5 DEF Acquire

LEMMA TypeHold ==
  ASSUME Sound, RemoteType, NEW p \in Proc, Hold(p)
  PROVE  RemoteType'
<1>1. CASE DropNotOurs(p) \/ DropRemove(p)
  BY <1>1, TypeForget DEF DropNotOurs, DropRemove, Refused, file, RemoteType
<1>2. CASE Verify(p)
  BY <1>2 DEF Verify, Goto, RemoteType, Steps, Keeping, file
<1>3. CASE Mutate(p) \/ Release(p) \/ DropOurs(p)
  BY <1>3 DEF Mutate, Release, DropOurs, Goto, RemoteType, Steps, Keeping, file, lease
<1>4. CASE Join(p)
  BY <1>4 DEF Join, Goto, RemoteType, Steps, Keeping, file
<1> QED
  BY <1>1, <1>2, <1>3, <1>4 DEF Hold

LEMMA TypeRefresh ==
  ASSUME Sound, RemoteType, NEW p \in Proc, Refresh(p)
  PROVE  RemoteType'
<1>1. CASE RefreshCheck(p)
  BY <1>1 DEF RefreshCheck, RemoteType, file, job
<1>2. CASE RefreshLost(p) \/ RefreshFails(p)
  <2>1. Lose(p) /\ UNCHANGED <<path, content, pc, brk, fd, up, fenced>>
    BY <1>2 DEF RefreshLost, RefreshFails, file
  <2>2. lost' \in [Proc -> BOOLEAN] /\ stamp' \in [Proc -> Nat]
    BY <2>1 DEF Lose, RemoteType
  <2>3. /\ thr' \in [Proc -> {"none", "sleep", "checked", "opened", "done"}]
        /\ tfd' \in [Proc -> Inode \cup {None}]
    BY <2>1 DEF Lose, RemoteType
  <2> QED
    BY <2>1, <2>2, <2>3 DEF RemoteType
<1>3. CASE RefreshOpen(p)
  BY <1>3, TypeRecord DEF RefreshOpen, RemoteType, job
<1>4. CASE RefreshWrite(p)
  BY <1>4, TypeRecord DEF RefreshWrite, RemoteType, job
<1> QED
  BY <1>1, <1>2, <1>3, <1>4 DEF Refresh

Unanswered(p) ==
  \/ CreateUnanswered(p) \/ WriteUnanswered(p) \/ RemoveUnanswered(p) \/ RefreshUnanswered(p)

LEMMA TypeFault ==
  ASSUME Sound, RemoteType, NEW p \in Proc, Disconnect(p) \/ Crash(p) \/ Unanswered(p)
  PROVE  RemoteType'
<1>1. CASE Disconnect(p)
  BY <1>1 DEF Disconnect, RemoteType, file, lease
<1>2. CASE Crash(p)
  <2>1. Forget(p) /\ content' = content /\ path' = path /\ path \in Inode \cup {None}
    BY <1>2 DEF Crash, RemoteType, file
  <2> QED
    BY <2>1, TypeForget
<1>3. CASE CreateUnanswered(p)
  BY <1>3, TypeRecord DEF CreateUnanswered, AnswerLost, Goto, RemoteType, Steps, lease
<1>4. CASE WriteUnanswered(p) \/ RefreshUnanswered(p)
  <2>1. PICK i \in Inode \cup {None} : content' = [content EXCEPT ![i] = [tok |-> p, age |-> stamp[p]]]
    BY <1>4 DEF WriteUnanswered, RefreshUnanswered, RemoteType
  <2>2. content' \in [Inode -> [tok : Proc \cup {None}, age : Nat]]
    BY <2>1, TypeRecord DEF RemoteType
  <2> QED
    BY <1>4, <2>2 DEF WriteUnanswered, RefreshUnanswered, AnswerLost, RemoteType, lease
<1>5. CASE RemoveUnanswered(p)
  BY <1>5 DEF RemoveUnanswered, AnswerLost, RemoteType, lease
<1> QED
  BY <1>1, <1>2, <1>3, <1>4, <1>5 DEF Unanswered

LEMMA TokensAge ==
  ASSUME Sound, RemoteType, Tick
  PROVE  /\ RemoteType'
         /\ \A i \in Inode : content'[i].tok \in {content[i].tok, None}
<1>1. ASSUME NEW i \in Inode
      PROVE  /\ content'[i] \in [tok : Proc \cup {None}, age : Nat]
             /\ content'[i].tok \in {content[i].tok, None}
  <2>1. content[i] \in [tok : Proc \cup {None}, age : Nat]
    BY DEF RemoteType
  <2>2. Older(content[i].age) \in Nat
    BY <2>1 DEF Sound, Older
  <2>3. CASE content[i].tok = None \/ Unused(i)
    BY <2>3, TypeRecord DEF Tick, Unreadable
  <2>4. CASE ~ (content[i].tok = None \/ Unused(i))
    <3>1. content'[i] = [content[i] EXCEPT !.age = Older(content[i].age)]
      BY <2>4 DEF Tick
    <3> QED
      BY <2>1, <2>2, <3>1
  <2> QED
    BY <2>3, <2>4
<1>2. content' = [i \in Inode |-> content'[i]]
  BY DEF Tick
<1>3. content' \in [Inode -> [tok : Proc \cup {None}, age : Nat]]
  BY <1>1, <1>2
<1>4. stamp' \in [Proc -> Nat]
  BY DEF Tick, RemoteType, Older, Sound
<1> QED
  BY <1>1, <1>3, <1>4 DEF Tick, RemoteType

LEMMA TypeNext ==
  ASSUME Sound, RemoteType, [Next]_vars
  PROVE  RemoteType'
<1>1. ASSUME NEW p \in Proc, NEW b \in BOOLEAN, Start(p, b) PROVE RemoteType'
  BY <1>1 DEF Start, Goto, RemoteType, Steps, file, lease
<1>2. CASE UNCHANGED vars
  BY <1>2 DEF vars, RemoteType
<1> QED
  BY <1>1, <1>2, TypeAcquire, TypeHold, TypeRefresh, TypeFault, TokensAge DEF Next, Unanswered

-----------------------------------------------------------------------------
(***************************************************************************)
(* Fencing.                                                                *)
(***************************************************************************)
FenceInv ==
  \A p \in Proc : fenced[p] =>
    /\ pc[p] \in Keeping \ {"verified"}
    /\ lost[p] \/ (IoFree(p) /\ ~ StillOurs(p))

\* One more process q goes on while p is fenced: p's own variables stay, and the
\* path does not come to hold p's token.
LEMMA FencedBystander ==
  ASSUME FenceInv, NEW p \in Proc, fenced[p] = fenced'[p], pc'[p] = pc[p], lost'[p] = lost[p],
         thr'[p] = thr[p], StillOurs(p)' => StillOurs(p), fenced'[p]
  PROVE  /\ pc'[p] \in Keeping \ {"verified"}
         /\ lost'[p] \/ (IoFree(p)' /\ ~ StillOurs(p)')
BY DEF FenceInv, IoFree

\* The token at the path: what a session reads.
LEMMA ReadToken ==
  ASSUME Sound, RemoteType, NEW p \in Proc
  PROVE  StillOurs(p) <=> up[p] /\ path # None /\ content[path].tok = p
BY DEF Sound, RemoteType, StillOurs, Read, Unreadable

\* What a step of q may do to the file while p does nothing.
FileStep(p) ==
  \/ path' = path /\ content' = content
  \/ path' = None
  \/ path' \in Inode /\ content'[path'].tok # p
  \/ path' = path /\ \E i \in Inode, r \in [tok : Proc \cup {None}, age : Nat] :
        content' = [content EXCEPT ![i] = r] /\ r.tok # p

LEMMA NotOursStays ==
  ASSUME Sound, RemoteType, RemoteType', NEW p \in Proc, FileStep(p), up'[p] => up[p],
         StillOurs(p)'
  PROVE  StillOurs(p)
<1>1. (StillOurs(p) <=> up[p] /\ path # None /\ content[path].tok = p)
  BY ReadToken
<1>2. up'[p] /\ path' # None /\ content'[path'].tok = p
  BY DEF Sound, RemoteType, StillOurs, Read, Unreadable
<1>3. CASE path' = path /\ content' = content
  BY <1>1, <1>2, <1>3
<1>4. CASE path' = path /\ \E i \in Inode, r \in [tok : Proc \cup {None}, age : Nat] :
        content' = [content EXCEPT ![i] = r] /\ r.tok # p
  BY <1>1, <1>2, <1>4 DEF RemoteType
<1> QED
  BY <1>2, <1>3, <1>4 DEF FileStep

Step(q) ==
  \/ \E b \in BOOLEAN : Start(q, b)
  \/ Acquire(q) \/ Hold(q) \/ Refresh(q) \/ Disconnect(q) \/ Crash(q) \/ Unanswered(q)

\* A record that is written holds the writer's token, whatever inode it is in.
LEMMA WriteIsAFileStep ==
  ASSUME Sound, RemoteType, NEW p \in Proc, path' = path, NEW i \in Inode \cup {None},
         NEW r \in [tok : Proc \cup {None}, age : Nat], r.tok # p,
         content' = [content EXCEPT ![i] = r]
  PROVE  FileStep(p)
<1>1. CASE i \in Inode
  BY <1>1 DEF FileStep
<1>2. CASE i \notin Inode
  BY <1>2 DEF FileStep, RemoteType
<1> QED
  BY <1>1, <1>2

LEMMA Bystander ==
  ASSUME Sound, RemoteType, NEW q \in Proc, NEW p \in Proc \ {q}, Step(q)
  PROVE  /\ pc'[p] = pc[p] /\ lost'[p] = lost[p] /\ thr'[p] = thr[p]
         /\ fenced'[p] = fenced[p] /\ up'[p] = up[p]
         /\ FileStep(p)
<1> USE DEF RemoteType, Goto
<1>1. ASSUME Forget(q), content' = content, path' \in {path, None}
      PROVE  /\ pc'[p] = pc[p] /\ lost'[p] = lost[p] /\ thr'[p] = thr[p]
             /\ fenced'[p] = fenced[p] /\ up'[p] = up[p] /\ FileStep(p)
  BY <1>1 DEF Forget, FileStep
<1>2. CASE GiveUp(q) \/ WriteRecordFails(q) \/ JudgeRefused(q) \/ RemoveFails(q)
           \/ DropNotOurs(q) \/ DropRemove(q) \/ Crash(q)
  BY <1>1, <1>2 DEF GiveUp, WriteRecordFails, JudgeRefused, RemoveFails, DropNotOurs, DropRemove,
     Crash, Refused, file
<1>3. CASE (\E b \in BOOLEAN : Start(q, b)) \/ CreateFails(q) \/ Judge(q) \/ RemoveStale(q)
  BY <1>3 DEF Start, CreateFails, Judge, RemoveStale, FileStep, file, lease
<1>4. CASE Verify(q) \/ Mutate(q) \/ Release(q) \/ DropOurs(q) \/ Join(q)
  BY <1>4 DEF Verify, Mutate, Release, DropOurs, Join, FileStep, file, lease
<1>5. CASE RefreshCheck(q) \/ RefreshLost(q) \/ RefreshFails(q) \/ Disconnect(q)
           \/ RemoveUnanswered(q)
  BY <1>5 DEF RefreshCheck, RefreshLost, RefreshFails, Lose, Disconnect, RemoveUnanswered,
     AnswerLost, FileStep, file, job, lease
<1>6. CASE Create(q) \/ CreateUnanswered(q)
  <2>1. PICK i \in Inode : path' = i /\ content' = [content EXCEPT ![i] = Unreadable]
    BY <1>6 DEF Create, CreateUnanswered
  <2>2. content'[path'].tok # p
    BY <2>1 DEF Sound, Unreadable
  <2>3. FileStep(p)
    BY <2>1, <2>2 DEF FileStep
  <2> QED
    BY <1>6, <2>3 DEF Create, CreateUnanswered, AnswerLost, lease
<1>7. CASE WriteRecord(q) \/ WriteUnanswered(q) \/ RefreshWrite(q) \/ RefreshUnanswered(q)
  <2>1. PICK i \in Inode \cup {None} : content' = [content EXCEPT ![i] = [tok |-> q, age |-> stamp[q]]]
    BY <1>7 DEF WriteRecord, WriteUnanswered, RefreshWrite, RefreshUnanswered
  <2>2. path' = path
    BY <1>7 DEF WriteRecord, WriteUnanswered, RefreshWrite, RefreshUnanswered
  <2>3. /\ [tok |-> q, age |-> stamp[q]] \in [tok : Proc \cup {None}, age : Nat]
        /\ [tok |-> q, age |-> stamp[q]].tok # p
    BY TypeRecord
  <2>4. FileStep(p)
    BY <2>1, <2>2, <2>3, WriteIsAFileStep
  <2> QED
    BY <1>7, <2>4 DEF WriteRecord, WriteUnanswered, RefreshWrite, RefreshUnanswered, AnswerLost,
       job, lease
<1>8. CASE RefreshOpen(q)
  <2>1. Unreadable \in [tok : Proc \cup {None}, age : Nat] /\ Unreadable.tok # p
    BY TypeRecord DEF Unreadable, Sound
  <2>2. FileStep(p)
    BY <1>8, <2>1, WriteIsAFileStep DEF RefreshOpen
  <2> QED
    BY <1>8, <2>2 DEF RefreshOpen, job
<1> QED
  BY <1>2, <1>3, <1>4, <1>5, <1>6, <1>7, <1>8 DEF Step, Acquire, Hold, Refresh, Unanswered

\* The fenced process itself goes on.
LEMMA FencedGoesOn ==
  ASSUME Sound, RemoteType, RemoteType', FenceInv, NEW p \in Proc, Step(p), fenced'[p]
  PROVE  /\ pc'[p] \in Keeping \ {"verified"}
         /\ lost'[p] \/ (IoFree(p)' /\ ~ StillOurs(p)')
<1>1. /\ fenced[p] => pc[p] \in Keeping \ {"verified"}
      /\ fenced[p] => lost[p] \/ (IoFree(p) /\ ~ StillOurs(p))
  BY DEF FenceInv
<1>2. ~ Forget(p)
  BY DEF Forget, RemoteType
<1>3. CASE (\E b \in BOOLEAN : Start(p, b)) \/ Acquire(p) \/ CreateUnanswered(p)
           \/ WriteUnanswered(p) \/ RemoveUnanswered(p)
  <2>1. fenced' = fenced
    BY <1>2, <1>3 DEF Start, Acquire, GiveUp, Create, CreateFails, WriteRecord, WriteRecordFails,
       Judge, JudgeRefused, RemoveStale, RemoveFails, Refused, CreateUnanswered, WriteUnanswered,
       RemoveUnanswered, lease
  <2>2. pc[p] \notin Keeping
    BY <1>3 DEF Start, Acquire, GiveUp, Create, CreateFails, WriteRecord, WriteRecordFails,
       Judge, JudgeRefused, RemoveStale, RemoveFails, CreateUnanswered, WriteUnanswered,
       RemoveUnanswered, Keeping
  <2> QED
    BY <1>1, <2>1, <2>2
<1>4. CASE Verify(p)
  <2>1. /\ (StillOurs(p)' <=> StillOurs(p)) /\ thr' = thr /\ lost' = lost /\ pc[p] = "held"
        /\ lost[p] \/ IoFree(p)
        /\ fenced'[p] <=> fenced[p] \/ lost[p] \/ ~ StillOurs(p)
        /\ pc'[p] = IF Passes(p) THEN "verified" ELSE "held"
    BY <1>4 DEF Verify, StillOurs, Read, file, Goto, RemoteType
  <2>2. lost[p] \/ ~ StillOurs(p)
    BY <1>1, <2>1
  <2>3. ~ Passes(p)
    BY <2>2 DEF Passes
  <2> QED
    BY <2>1, <2>2, <2>3 DEF Keeping, IoFree
<1>5. CASE Mutate(p) \/ Release(p) \/ DropOurs(p) \/ Join(p)
  <2>1. /\ (StillOurs(p)' <=> StillOurs(p)) /\ lost' = lost /\ fenced' = fenced
        /\ thr'[p] \in {thr[p], "done"}
        /\ pc[p] # "verified" => pc'[p] \in Keeping \ {"verified"}
    BY <1>5 DEF Mutate, Release, DropOurs, Join, StillOurs, Read, file, lease, Goto, RemoteType,
       Keeping
  <2> QED
    BY <1>1, <2>1 DEF Keeping, IoFree
<1>6. CASE RefreshCheck(p) \/ RefreshLost(p) \/ RefreshOpen(p) \/ RefreshWrite(p)
           \/ RefreshFails(p) \/ RefreshUnanswered(p)
  <2>1. pc' = pc /\ fenced' = fenced
    BY <1>6 DEF RefreshCheck, RefreshLost, RefreshOpen, RefreshWrite, RefreshFails,
       RefreshUnanswered, job, lease
  <2>2. lost'[p] = TRUE \/ (lost'[p] = lost[p] /\ (StillOurs(p) \/ ~ IoFree(p)))
    BY <1>6 DEF RefreshCheck, RefreshLost, RefreshOpen, RefreshWrite, RefreshFails,
       RefreshUnanswered, Lose, lease, IoFree, RemoteType
  <2> QED
    BY <1>1, <2>1, <2>2
<1>7. CASE Disconnect(p)
  <2>1. pc' = pc /\ fenced' = fenced /\ lost' = lost /\ thr' = thr /\ ~ up'[p]
    BY <1>7 DEF Disconnect, lease, RemoteType
  <2>2. ~ StillOurs(p)'
    BY <2>1 DEF StillOurs, Read, Unreadable, Sound
  <2> QED
    BY <1>1, <2>1, <2>2 DEF IoFree
<1>8. ~ DropNotOurs(p) /\ ~ DropRemove(p) /\ ~ Crash(p)
  BY <1>2 DEF DropNotOurs, DropRemove, Crash, Refused
<1> QED
  BY <1>3, <1>4, <1>5, <1>6, <1>7, <1>8 DEF Step, Hold, Refresh, Unanswered

LEMMA FenceNext ==
  ASSUME Sound, RemoteType, FenceInv, [Next]_vars
  PROVE  FenceInv'
<1>1. RemoteType'
  BY TypeNext
<1>2. ASSUME NEW q \in Proc, Step(q) PROVE FenceInv'
  <2> SUFFICES ASSUME NEW p \in Proc, fenced'[p]
               PROVE  /\ pc'[p] \in Keeping \ {"verified"}
                      /\ lost'[p] \/ (IoFree(p)' /\ ~ StillOurs(p)')
    BY DEF FenceInv
  <2>1. CASE p = q
    BY <1>1, <1>2, <2>1, FencedGoesOn
  <2>2. CASE p # q
    <3>1. /\ pc'[p] = pc[p] /\ lost'[p] = lost[p] /\ thr'[p] = thr[p]
          /\ fenced'[p] = fenced[p] /\ up'[p] = up[p] /\ FileStep(p)
      BY <1>2, <2>2, Bystander
    <3>2. StillOurs(p)' => StillOurs(p)
      BY <1>1, <3>1, NotOursStays
    <3> QED
      BY <3>1, <3>2, FencedBystander
  <2> QED
    BY <2>1, <2>2
<1>3. CASE Tick
  <2>1. /\ pc' = pc /\ lost' = lost /\ thr' = thr /\ fenced' = fenced /\ up' = up /\ path' = path
        /\ \A i \in Inode : content'[i].tok \in {content[i].tok, None}
    BY <1>3, TokensAge DEF Tick, job
  <2>2. ASSUME NEW p \in Proc PROVE StillOurs(p)' => StillOurs(p)
    <3>1. StillOurs(p) <=> up[p] /\ path # None /\ content[path].tok = p
      BY ReadToken
    <3>2. StillOurs(p)' => up'[p] /\ path' # None /\ content'[path'].tok = p
      BY DEF StillOurs, Read, Unreadable, Sound
    <3> QED
      BY <2>1, <3>1, <3>2 DEF RemoteType, Sound
  <2> QED
    BY <2>1, <2>2 DEF FenceInv, IoFree
<1>4. CASE UNCHANGED vars
  BY <1>4 DEF FenceInv, vars, IoFree, StillOurs, Read
<1> QED
  BY <1>2, <1>3, <1>4 DEF Next, Step, Unanswered

LEMMA FenceInvariant == Sound => (Spec => [](RemoteType /\ FenceInv))
<1>1. Init => FenceInv
  BY DEF Init, FenceInv
<1>2. ASSUME Sound PROVE RemoteType /\ FenceInv /\ [Next]_vars => (RemoteType /\ FenceInv)'
  BY <1>2, TypeNext, FenceNext
<1>3. CASE Sound
  BY <1>1, <1>2, <1>3, TypeInit, PTL DEF Spec
<1> QED
  BY <1>3

\* A holder whose verification found the lease lost or the lock not its own
\* passes none afterwards, however and whenever the lock is broken, replaced or
\* rewritten by others and whatever its own refresher was about to do (`RemoteLease::verify`, `refresh_loop`).
THEOREM RemoteFencingIsFinal == Sound => (Spec => []FencedStaysFenced)
<1>1. FenceInv => FencedStaysFenced
  BY DEF FenceInv, FencedStaysFenced
<1> QED
  BY <1>1, FenceInvariant, PTL

-----------------------------------------------------------------------------
(***************************************************************************)
(* The lock file is a mutex while locks are broken as the guide says.      *)
(***************************************************************************)
\* Only a process that writes its record, or lost the connection while it made
\* the file, has a file in hand; only one told to break removes.
InHand(p) ==
  /\ pc[p] = "write" => fd[p] # None
  /\ fd[p] # None => pc[p] = "write" \/ (pc[p] = "read" /\ ~ up[p])
  /\ pc[p] = "remove" => brk[p]

FilesInHand == \A p \in Proc : InHand(p)

BreakersAlone ==
  \A p, q \in Proc : p # q /\ Running(p) /\ brk[p] => ~ Running(q)

OneOwner ==
  \A p \in Proc : Owns(p) => path # None /\ \A q \in Proc : Owns(q) => q = p

MutexInv == FilesInHand /\ BreakersAlone /\ OneOwner

Owners == {p \in Proc : Owns(p)}

Mutex == INSTANCE SetMutex WITH taken <- path # None, owner <- Owners

\* How a process's step changes what it owns.
Stays(q) == path' = path /\ (Owns(q)' <=> Owns(q))
Makes(q) == path = None /\ path' # None /\ Owns(q)'
LetsGo(q) == Owns(q) /\ ~ Owns(q)' /\ path' \in {path, None}
Breaks(q) == /\ pc[q] = "remove" /\ path # None /\ path' = None
             /\ ~ Owns(q) /\ ~ Owns(q)'

LEMMA Forgets ==
  ASSUME RemoteType, NEW q \in Proc, Forget(q)
  PROVE  /\ ~ Owns(q)' /\ InHand(q)' /\ ~ Running(q)' /\ ~ brk'[q]
BY DEF RemoteType, Forget, Goto, Owns, Holding, Keeping, InHand, Running

LEMMA OwnStep ==
  ASSUME Sound, RemoteType, NEW q \in Proc, InHand(q), Step(q)
  PROVE  /\ Stays(q) \/ Makes(q) \/ LetsGo(q) \/ Breaks(q)
         /\ InHand(q)'
         /\ Running(q)' => \/ Running(q) /\ (brk'[q] => brk[q])
                           \/ \E b \in BOOLEAN : Start(q, b)
<1> USE DEF RemoteType, Goto
<1>1. ASSUME Forget(q), path' = path \/ (path' = None /\ Owns(q))
      PROVE  /\ Stays(q) \/ LetsGo(q)
             /\ InHand(q)' /\ ~ Running(q)'
  BY <1>1, Forgets DEF Stays, LetsGo
<1>2. CASE GiveUp(q) \/ WriteRecordFails(q) \/ JudgeRefused(q) \/ RemoveFails(q)
           \/ DropNotOurs(q) \/ Crash(q)
  BY <1>1, <1>2 DEF GiveUp, WriteRecordFails, JudgeRefused, RemoveFails, DropNotOurs, Crash,
     Refused, file
<1>3. CASE DropRemove(q)
  BY <1>1, <1>3 DEF DropRemove, Owns, Holding, Keeping
<1>4. CASE \E b \in BOOLEAN : Start(q, b)
  BY <1>4 DEF Start, InHand, Stays, Owns, Holding, Keeping, file
<1>5. CASE Create(q) \/ CreateUnanswered(q)
  <2>1. PICK i \in Inode : path' = i /\ fd' = [fd EXCEPT ![q] = i]
    BY <1>5 DEF Create, CreateUnanswered
  <2>2. i # None /\ fd'[q] = i /\ path = None /\ brk' = brk
    BY <1>5, <2>1 DEF Sound, Create, CreateUnanswered
  <2>3. Makes(q)
    BY <2>1, <2>2 DEF Makes, Owns
  <2>4. InHand(q)'
    BY <1>5, <2>2 DEF Create, CreateUnanswered, AnswerLost, InHand
  <2> QED
    BY <1>5, <2>2, <2>3, <2>4 DEF Create, CreateUnanswered, Running
<1>6. CASE CreateFails(q) \/ Judge(q)
  <2>1. fd[q] = None
    BY <1>6 DEF CreateFails, Judge, InHand, IsStale, Read, Unreadable
  <2> QED
    BY <1>6, <2>1 DEF CreateFails, Judge, InHand, Stays, Owns, Holding, Keeping, Running, file
<1>7. CASE RemoveStale(q) \/ RemoveUnanswered(q)
  <2>1. fd[q] = None /\ pc[q] = "remove"
    BY <1>7 DEF RemoveStale, RemoveUnanswered, InHand
  <2> QED
    BY <1>7, <2>1 DEF RemoveStale, RemoveUnanswered, AnswerLost, InHand, Breaks, Owns, Holding,
       Keeping, Running
<1>8. CASE WriteRecord(q) \/ WriteUnanswered(q)
  BY <1>8 DEF WriteRecord, WriteUnanswered, AnswerLost, InHand, Stays, Owns, Holding, Keeping,
     Running
<1>9. CASE Verify(q) \/ Mutate(q) \/ Release(q) \/ DropOurs(q) \/ Join(q)
  BY <1>9 DEF Verify, Mutate, Release, DropOurs, Join, InHand, Stays, Owns, Holding, Keeping,
     Running, file
<1>10. CASE Refresh(q) \/ RefreshUnanswered(q) \/ Disconnect(q)
  <2>1. UNCHANGED <<path, pc, brk, fd>> /\ (up'[q] => up[q])
    BY <1>10 DEF Refresh, RefreshCheck, RefreshLost, RefreshOpen, RefreshWrite, RefreshFails,
       RefreshUnanswered, Disconnect, AnswerLost, file, job, lease
  <2> QED
    BY <2>1 DEF InHand, Stays, Owns, Holding, Running
<1> QED
  BY <1>2, <1>3, <1>4, <1>5, <1>6, <1>7, <1>8, <1>9, <1>10 DEF Step, Acquire, Hold, Unanswered

\* Nobody else's part changes.
LEMMA OthersKeep ==
  ASSUME RemoteType, NEW q \in Proc, NEW p \in Proc \ {q}, Step(q)
  PROVE  /\ pc'[p] = pc[p] /\ fd'[p] = fd[p] /\ up'[p] = up[p] /\ brk'[p] = brk[p]
         /\ (Owns(p)' <=> Owns(p)) /\ (Running(p)' <=> Running(p)) /\ (InHand(p)' <=> InHand(p))
<1>1. pc'[p] = pc[p] /\ fd'[p] = fd[p] /\ up'[p] = up[p] /\ brk'[p] = brk[p]
  <2> USE DEF RemoteType, Goto
  <2>1. CASE Forget(q)
    BY <2>1 DEF Forget
  <2>2. CASE \E b \in BOOLEAN : Start(q, b)
    BY <2>2 DEF Start
  <2>3. CASE Acquire(q)
    BY <2>1, <2>3 DEF Acquire, GiveUp, Create, CreateFails, WriteRecord, WriteRecordFails,
       Judge, JudgeRefused, RemoveStale, RemoveFails, Refused
  <2>4. CASE Hold(q)
    BY <2>1, <2>4 DEF Hold, Verify, Mutate, Release, Join, DropOurs, DropNotOurs, DropRemove,
       Refused
  <2>5. CASE Refresh(q)
    BY <2>5 DEF Refresh, RefreshCheck, RefreshLost, RefreshOpen, RefreshWrite, RefreshFails, job
  <2>6. CASE Disconnect(q) \/ Crash(q) \/ Unanswered(q)
    BY <2>1, <2>6 DEF Disconnect, Crash, Unanswered, CreateUnanswered, WriteUnanswered,
       RemoveUnanswered, RefreshUnanswered, AnswerLost
  <2> QED
    BY <2>2, <2>3, <2>4, <2>5, <2>6 DEF Step
<1> QED
  BY <1>1 DEF Owns, Holding, Running, InHand

\* An owner runs.
LEMMA OwnersRun ==
  ASSUME FilesInHand, NEW p \in Proc, Owns(p)
  PROVE  Running(p)
BY DEF FilesInHand, InHand, Owns, Holding, Keeping, Running

LEMMA MutexStep ==
  ASSUME Sound, Attended, RemoteType, MutexInv, [Next]_vars
  PROVE  MutexInv' /\ [Mutex!Next]_<<path # None, Owners>>
<1>1. ASSUME NEW q \in Proc, Step(q)
      PROVE  MutexInv' /\ [Mutex!Next]_<<path # None, Owners>>
  <2>1. /\ Stays(q) \/ Makes(q) \/ LetsGo(q) \/ Breaks(q)
        /\ InHand(q)'
        /\ Running(q)' => \/ Running(q) /\ (brk'[q] => brk[q])
                          \/ \E b \in BOOLEAN : Start(q, b)
    BY <1>1, OwnStep DEF MutexInv, FilesInHand
  <2>2. \A p \in Proc \ {q} : /\ brk'[p] = brk[p] /\ (Owns(p)' <=> Owns(p))
                              /\ (Running(p)' <=> Running(p)) /\ (InHand(p)' <=> InHand(p))
    BY <1>1, OthersKeep
  <2>3. FilesInHand'
    BY <2>1, <2>2 DEF MutexInv, FilesInHand
  <2>4. BreakersAlone'
    <3>1. CASE \E b \in BOOLEAN : Start(q, b)
      <4>1. PICK b \in BOOLEAN : Start(q, b)
        BY <3>1
      <4>2. brk'[q] = b /\ \A p \in Proc \ {q} : ~ (Running(p) /\ (b \/ brk[p]))
        BY <4>1 DEF Start, RemoteType
      <4>3. \A p \in Proc \ {q} : ~ (Running(p)' /\ (brk'[q] \/ brk'[p]))
        BY <2>2, <4>2
      <4> QED
        BY <2>2, <4>3 DEF MutexInv, BreakersAlone
    <3>2. CASE Running(q)' => Running(q) /\ (brk'[q] => brk[q])
      BY <2>2, <3>2 DEF MutexInv, BreakersAlone
    <3> QED
      BY <2>1, <3>1, <3>2
  <2>5. CASE Stays(q)
    <3>1. \A p \in Proc : Owns(p)' <=> Owns(p)
      BY <2>2, <2>5 DEF Stays
    <3>2. OneOwner' /\ Owners' = Owners /\ path' = path
      BY <2>5, <3>1 DEF MutexInv, OneOwner, Owners, Stays
    <3> QED
      BY <2>3, <2>4, <3>2 DEF MutexInv
  <2>6. CASE Makes(q)
    <3>1. \A p \in Proc : ~ Owns(p)
      BY <2>6 DEF Makes, MutexInv, OneOwner
    <3>2. OneOwner' /\ Owners' = {q}
      BY <2>2, <2>6, <3>1 DEF Makes, OneOwner, Owners
    <3>3. Mutex!Take(q)
      BY <2>6, <3>2 DEF Makes, Mutex!Take
    <3> QED
      BY <2>3, <2>4, <3>2, <3>3 DEF MutexInv, Mutex!Next
  <2>7. CASE LetsGo(q)
    <3>1. Owners = {q} /\ path # None
      BY <2>7 DEF LetsGo, MutexInv, OneOwner, Owners
    <3>2. OneOwner' /\ Owners' = {}
      BY <2>2, <2>7, <3>1 DEF LetsGo, OneOwner, Owners
    <3>3. Mutex!Leave(q) \/ Mutex!Die(q)
      BY <2>7, <3>1, <3>2 DEF LetsGo, Mutex!Leave, Mutex!Die
    <3> QED
      BY <2>3, <2>4, <3>2, <3>3 DEF MutexInv, Mutex!Next
  <2>8. CASE Breaks(q)
    <3>1. Running(q) /\ brk[q]
      BY <2>8 DEF Breaks, MutexInv, FilesInHand, InHand, Running
    <3>2. \A p \in Proc : ~ Owns(p)
      BY <2>8, <3>1, OwnersRun DEF Breaks, MutexInv, BreakersAlone
    <3>3. (\A p \in Proc : ~ Owns(p)') /\ Owners = {} /\ Owners' = {}
      BY <2>2, <2>8, <3>2 DEF Breaks, Owners
    <3>4. OneOwner' /\ Mutex!Break
      BY <2>8, <3>3 DEF OneOwner, Mutex!Break, Breaks
    <3> QED
      BY <2>3, <2>4, <3>4 DEF MutexInv, Mutex!Next
  <2> QED
    BY <2>1, <2>5, <2>6, <2>7, <2>8
<1>2. CASE Tick \/ UNCHANGED vars
  <2>1. UNCHANGED <<path, pc, fd, up, brk>>
    BY <1>2 DEF Tick, job, vars
  <2>2. MutexInv' /\ Owners' = Owners
    BY <2>1 DEF MutexInv, FilesInHand, InHand, BreakersAlone, OneOwner, Owners, Owns, Holding,
       Running
  <2> QED
    BY <2>1, <2>2
<1> QED
  BY <1>1, <1>2 DEF Next, Step, Unanswered

\* While no other process runs as a lock is broken, the file on the server is
\* the mutex the jobs of a set rely on: one owner, given back by it alone, and
\* broken only after its owner died, although answers are lost after the server
\* acted and a file may stay behind empty (`acquire_lock`, `RemoteLeaseGuard`).
THEOREM RemoteLockIsAMutex == Sound /\ Attended => (Spec => Mutex!Spec)
<1>1. Init => MutexInv /\ Mutex!Init
  BY DEF Init, MutexInv, FilesInHand, InHand, BreakersAlone, OneOwner, Owners, Owns, Holding,
     Keeping, Running, Mutex!Init
<1>2. ASSUME Sound, Attended
      PROVE  RemoteType /\ MutexInv /\ [Next]_vars
             => MutexInv' /\ [Mutex!Next]_<<path # None, Owners>>
  BY <1>2, MutexStep
<1>3. ASSUME Sound, Attended PROVE RemoteType /\ [Next]_vars => RemoteType'
  BY <1>3, TypeNext
<1>4. CASE Sound /\ Attended
  BY <1>1, <1>2, <1>3, <1>4, TypeInit, PTL DEF Spec, Mutex!Spec
<1> QED
  BY <1>4
==============================================================================
