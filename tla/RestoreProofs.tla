---------------------------- MODULE RestoreProofs ----------------------------
(***************************************************************************)
(* A restore writes only what was agreed, whole or not at all: for any     *)
(* programs, users, targets, chains and tokens, and for any number of      *)
(* changes of images and targets by others.                                *)
(*                                                                         *)
(* Every check of `apply_restore` is made at one step and relied on at a   *)
(* later one.  The invariant says what each of them still means by then:   *)
(* the token in hand was issued (InHand), it was admitted (Approved), the  *)
(* target is the prepared one and, on a device, claimed (TargetHeld,       *)
(* RootHeld), the members read are those bound (MembersHeld), and what was *)
(* verified is unchanged unless somebody changed it since (Undisturbed).   *)
(***************************************************************************)
EXTENDS Restore, TLAPS

Common == {"boot", "keyless", "idle", "image", "admit", "redeem", "before", "payload",
           "after", "current", "write"} \cup Ended
StepsOf(kind) ==
  Common \cup
    CASE kind = "block"  -> {"claim", "facts", "retarget", "members"}
      [] kind = "disk"   -> {"claim", "facts", "retarget", "chunks"}
      [] kind = "stream" -> {"claim", "facts", "reopen", "members", "retarget", "mkfs"}
      [] OTHER           -> {"directory", "start", "members", "dircheck", "root", "pinned"}

Steps == Common \cup {"claim", "facts", "retarget", "members", "chunks", "reopen", "mkfs",
                      "directory", "start", "dircheck", "root", "pinned"}

\* A record with the fields of a token, or of a job.
TokenShaped(t) ==
  t = [nonce |-> t.nonce, key |-> t.key, uid |-> t.uid, expires |-> t.expires,
       members |-> t.members, target |-> t.target, merge |-> t.merge]
JobShaped(j) ==
  j = [token |-> j.token, user |-> j.user, accept |-> j.accept, seen |-> j.seen,
       opened |-> j.opened, chunks |-> j.chunks, facts |-> j.facts, fd |-> j.fd, at |-> j.at]

RestoreType ==
  /\ image \in [kind : ImageKinds, inconsistent : BOOLEAN, bad : BOOLEAN]
  /\ events \in Nat /\ now \in Nat
  /\ store \in [1..ChainLength -> Nat] /\ \A m \in 1..ChainLength : store[m] <= events + 1
  /\ path \in Targets
  /\ content = [d \in Targets |-> [c \in Chunks |-> content[d][c]]]
  /\ claim \in [Targets -> Procs \cup {None}]
  /\ step \in [Procs -> Steps]
  /\ secret \in [Procs -> Procs \cup {None}] /\ keyfile \in Procs \cup {None}
  /\ job = [p \in Procs |-> job[p]]
  /\ \A p \in Procs : JobShaped(job[p]) /\ job[p].at \in Nat \ {0} /\ step[p] \in StepsOf(image.kind)

-----------------------------------------------------------------------------
(***************************************************************************)
(* Keys, tokens, admissions and contents.                                  *)
(***************************************************************************)
KeysKnown ==
  /\ KeysAgree
  /\ \A p \in Procs : step[p] \notin {"boot", "keyless"} => secret[p] # None

\* Identities only grow, so that no member ever gets back the identity a token bound.
TokensBind ==
  \A t \in tokens : /\ TokenShaped(t) /\ t.expires \in Nat
                    /\ t.members \in [Members -> Nat]
                    /\ \A m \in Members : t.members[m] <= store[m]

\* The record of an admission stays as long as the token is valid.
AdmissionsRecorded ==
  \A a \in admitted :
    /\ a.token \in tokens /\ a.at \in Nat /\ a.at <= now
    /\ now <= a.token.expires => UseRecord(a.token) \in consumed

-----------------------------------------------------------------------------
(***************************************************************************)
(* What a program relies on, by where it is.                               *)
(***************************************************************************)
InHand(p) ==
  Working(p) => Token(p) \in tokens /\ (step[p] # "write" => job[p].at = 1)

Admitted == {"reopen", "start", "before", "payload", "after", "retarget", "members", "current",
             "chunks", "mkfs", "dircheck", "root", "pinned", "write"}

Approved(p) ==
  step[p] \in Admitted =>
    /\ Token(p).uid = job[p].user
    /\ \E a \in admitted : a.proc = p /\ a.token = Token(p)

\* Devices: claimed from the first look on, and the prepared one from the second.
OwnDevice == image.kind \in {"block", "disk"}
Claimed == {"facts", "admit", "redeem", "before", "payload", "after", "retarget", "members",
            "current", "chunks", "write"}

TargetHeld(p) ==
  OwnDevice /\ step[p] \in Claimed =>
    /\ job[p].fd \in Targets /\ claim[job[p].fd] = p /\ job[p].fd \notin mounted
    /\ step[p] # "facts" => job[p].fd = Token(p).target[1]

\* Directories: pinned between two looks at the path.
RootHeld(p) ==
  image.kind = "file" =>
    /\ step[p] \in {"before", "payload", "after", "members", "current", "dircheck"}
         => job[p].facts = Token(p).target
    /\ step[p] = "root" => path = Token(p).target[1] \/ events >= 1
    /\ step[p] \in {"pinned", "write"} => job[p].fd \in Targets
    /\ step[p] = "pinned" => \/ job[p].fd = Token(p).target[1]
                             \/ job[p].fd = path /\ events >= 1
                             \/ events >= 2
    /\ step[p] = "write" => job[p].fd = Token(p).target[1] \/ events >= 2

\* A file system that mkfs made is mounted until its restore is over.
MountHeld(p) ==
  image.kind = "stream" /\ step[p] = "write" => job[p].fd \in Targets \cap mounted

\* Where the members have been compared with the token's for the last time.
Compared(kind) ==
  CASE kind = "block"  -> {"write"}
    [] kind = "disk"   -> {"chunks", "write"}
    [] kind = "stream" -> {"retarget", "mkfs", "write"}
    [] OTHER           -> {"dircheck", "root", "pinned", "write"}

MembersHeld(p) ==
  /\ image.kind = "disk" /\ Working(p) /\ step[p] # "image" => job[p].opened = Token(p).members
  /\ image.kind # "disk" /\ step[p] = "current" =>
       /\ job[p].opened \in [Members -> Nat] /\ job[p].chunks = job[p].opened
       /\ \A m \in Members : /\ Token(p).members[m] <= job[p].opened[m]
                             /\ job[p].opened[m] <= store[m]
  /\ step[p] \in Compared(image.kind) => job[p].opened = Token(p).members
  /\ image.kind # "disk" /\ step[p] \in Compared(image.kind) => job[p].chunks = job[p].opened

\* Unless a member was changed since it was verified, it is what it was then.
Undisturbed(p) ==
  p \notin late =>
    /\ step[p] \in Verified => PayloadsGood
    /\ step[p] \in Compared(image.kind) => Identities = Token(p).members
    /\ image.kind = "disk" /\ step[p] = "write" => job[p].chunks = Identities

\* The chunks written so far are on the device.
ChunksWritten(p) ==
  OnDevice /\ step[p] = "write" =>
    \A c \in Chunks : c < job[p].at /\ Layout[c] >= 1 =>
      content[job[p].fd][c] = <<"image", Holder(c), Token(p).members[Holder(c)]>>

\* Nothing is written before the last check, and nobody begins twice.
WritesLast(p) ==
  /\ \A d \in Targets : <<p, d>> \in touched =>
       /\ step[p] \in {"write"} \cup Ended
       /\ image.kind # "stream" =>
            \E a \in admitted :
              /\ a.proc = p /\ a.token.uid = job[p].user
              /\ a.token.target[1] = d \/ (image.kind = "file" /\ events >= 2)
  /\ step[p] = "failed" => p \in late

Relies(p) ==
  /\ InHand(p) /\ Approved(p) /\ TargetHeld(p) /\ RootHeld(p) /\ MountHeld(p)
  /\ MembersHeld(p) /\ Undisturbed(p) /\ ChunksWritten(p) /\ WritesLast(p)

\* Two stream restores never write to one device.
MountsApart ==
  \A p, q \in Procs :
    image.kind = "stream" /\ step[p] = "write" /\ step[q] = "write" /\ job[p].fd = job[q].fd
      => p = q

RestoreInv ==
  /\ RestoreType /\ KeysKnown /\ TokensBind /\ AdmissionsRecorded
  /\ AdmittedOnceWhileValid /\ OnlyTheBoundImage /\ MountsApart
  /\ \A p \in Procs : Relies(p)

-----------------------------------------------------------------------------
(***************************************************************************)
(* Initial states.                                                         *)
(***************************************************************************)
\* The invariant holds before any program has loaded its key.
LEMMA RestoreStarts == RestoreInit => RestoreInv
<1> SUFFICES ASSUME RestoreInit PROVE RestoreInv
  OBVIOUS
<1>1. \A p \in Procs : step[p] = "boot" /\ job[p] = NoJob
  BY DEF RestoreInit
<1>2. RestoreType
  <2>1. \A p \in Procs : JobShaped(job[p]) /\ job[p].at \in Nat \ {0} /\ step[p] \in StepsOf(image.kind)
    BY <1>1 DEF JobShaped, NoJob, JobOf, StepsOf, Common
  <2>2. content = [d \in Targets |-> [c \in Chunks |-> content[d][c]]]
    BY DEF RestoreInit
  <2>3. store \in [1..ChainLength -> Nat] /\ \A m \in 1..ChainLength : store[m] <= events + 1
    BY RestoreAssumption DEF RestoreInit
  <2> QED
    BY <2>1, <2>2, <2>3 DEF RestoreInit, RestoreType, Steps, Common
<1>3. KeysKnown /\ TokensBind /\ AdmissionsRecorded /\ AdmittedOnceWhileValid
  BY <1>1 DEF RestoreInit, KeysKnown, KeysAgree, TokensBind, AdmissionsRecorded,
             AdmittedOnceWhileValid
<1>4. OnlyTheBoundImage
  BY DEF RestoreInit, OnlyTheBoundImage
<1>5. MountsApart /\ \A p \in Procs : Relies(p)
  BY <1>1 DEF RestoreInit, MountsApart, Relies, InHand, Working, Approved, Admitted, TargetHeld,
              Claimed, RootHeld, MountHeld, MembersHeld, Compared, Undisturbed, Verified,
              ChunksWritten, WritesLast
<1> QED
  BY <1>2, <1>3, <1>4, <1>5 DEF RestoreInv

-----------------------------------------------------------------------------
(***************************************************************************)
(* What a step of one program leaves to the others.                        *)
(***************************************************************************)
\* p alone goes on: nobody else's step, job, claim, mount or device changes.
Alone(p) ==
  /\ UNCHANGED <<image, store, damaged, path, events, late>>
  /\ step' = [step EXCEPT ![p] = step'[p]]
  /\ job' = [job EXCEPT ![p] = job'[p]]
  /\ tokens \subseteq tokens' /\ admitted \subseteq admitted'
  /\ \A d \in Targets : claim[d] \notin {None, p} => claim'[d] = claim[d]
  /\ \A d \in mounted' \ mounted : claim[d] \in {None, p}
  /\ \A q \in Procs \ {p}, d \in Targets : <<q, d>> \in touched' => <<q, d>> \in touched
  /\ \A q \in Procs \ {p} : OnDevice /\ step[q] = "write" =>
       /\ \A c \in Chunks : content'[job[q].fd][c] = content[job[q].fd][c]
       /\ image.kind = "stream" => job[q].fd \in mounted'

\* Whatever one program does alone, the others rely on what they relied on.
LEMMA OthersRely ==
  ASSUME RestoreInv, NEW p \in Procs, Alone(p), NEW q \in Procs \ {p}
  PROVE  Relies(q)'
<1>1. step'[q] = step[q] /\ job'[q] = job[q] /\ Token(q)' = Token(q) /\ Relies(q)
  BY DEF RestoreInv, RestoreType, Alone, Token
<1>2. InHand(q)' /\ Approved(q)'
  BY <1>1 DEF Relies, InHand, Working, Approved, Alone
<1>3. TargetHeld(q)'
  <2> SUFFICES ASSUME OwnDevice', step'[q] \in Claimed
               PROVE  /\ job[q].fd \in Targets /\ claim'[job[q].fd] = q /\ job[q].fd \notin mounted'
                      /\ step[q] # "facts" => job[q].fd = Token(q).target[1]
    BY <1>1 DEF TargetHeld
  <2>1. TargetHeld(q) /\ OwnDevice
    BY <1>1 DEF Relies, Alone, OwnDevice
  <2> QED
    BY <1>1, <2>1, RestoreAssumption DEF TargetHeld, Alone
<1>4. RootHeld(q)' /\ MembersHeld(q)'
  BY <1>1 DEF Relies, RootHeld, MembersHeld, Alone, Working, Members
<1>5. MountHeld(q)'
  BY <1>1 DEF Relies, MountHeld, Alone, OnDevice
<1>6. Undisturbed(q)'
  BY <1>1 DEF Relies, Undisturbed, Alone, PayloadsGood, Members, Identities
<1>7. ChunksWritten(q)'
  <2> SUFFICES ASSUME OnDevice', step'[q] = "write", NEW c \in Chunks, c < job'[q].at,
                      Layout[c] >= 1
               PROVE  content'[job'[q].fd][c]
                        = <<"image", Holder(c)', Token(q)'.members[Holder(c)']>>
    BY DEF ChunksWritten
  <2>1. OnDevice /\ Holder(c)' = Holder(c)
    BY DEF Alone, OnDevice, Holder
  <2>2. content[job[q].fd][c] = <<"image", Holder(c), Token(q).members[Holder(c)]>>
    BY <1>1, <2>1 DEF Relies, ChunksWritten
  <2>3. content'[job[q].fd][c] = content[job[q].fd][c]
    BY <1>1, <2>1 DEF Alone
  <2> QED
    BY <1>1, <2>1, <2>2, <2>3
<1>8. WritesLast(q)'
  BY <1>1 DEF Relies, WritesLast, Alone
<1> QED
  BY <1>2, <1>3, <1>4, <1>5, <1>6, <1>7, <1>8 DEF Relies

\* Moving on or returning an error: only p's own step, job and claims change.
Moves(p) ==
  /\ UNCHANGED <<envVars, diskVars, keyVars, late>>
  /\ step' = [step EXCEPT ![p] = step'[p]]
  /\ job' = [job EXCEPT ![p] = job'[p]]
  /\ claim' \in [Targets -> Procs \cup {None}]
  /\ \A d \in Targets : claim[d] \notin {None, p} => claim'[d] = claim[d]

\* It is enough to look at what p relies on afterwards.
LEMMA MovesKeep ==
  ASSUME RestoreInv, NEW p \in Procs, Moves(p),
         step'[p] \in StepsOf(image.kind), JobShaped(job'[p]), job'[p].at \in Nat \ {0},
         step[p] \in {"boot", "keyless"} => step'[p] \in {"boot", "keyless"},
         image.kind = "stream" => step'[p] # "write",
         Relies(p)'
  PROVE  RestoreInv'
<1>1. Alone(p)
  BY DEF Moves, Alone, envVars, diskVars, keyVars, RestoreInv, Relies, MountHeld
<1>2. \A q \in Procs : Relies(q)'
  BY <1>1, OthersRely
<1>3. RestoreType'
  <2>1. UNCHANGED <<image, events, now, store, path, content, secret, keyfile>>
    BY DEF Moves, envVars, diskVars, keyVars
  <2>2. step' \in [Procs -> Steps]
    <3>1. StepsOf(image.kind) \subseteq Steps
      BY DEF StepsOf, Steps
    <3> QED
      BY <3>1 DEF Moves, RestoreInv, RestoreType
  <2>4. job' = [q \in Procs |-> job'[q]]
    BY DEF Moves, RestoreInv, RestoreType
  <2>3. ASSUME NEW q \in Procs
        PROVE  JobShaped(job'[q]) /\ job'[q].at \in Nat \ {0} /\ step'[q] \in StepsOf(image.kind)
    BY DEF Moves, RestoreInv, RestoreType
  <2> QED
    BY <2>1, <2>2, <2>3, <2>4 DEF Moves, RestoreInv, RestoreType, JobShaped
<1>4. KeysKnown'
  BY DEF Moves, keyVars, RestoreInv, RestoreType, KeysKnown, KeysAgree
<1>5. TokensBind' /\ AdmissionsRecorded' /\ AdmittedOnceWhileValid' /\ OnlyTheBoundImage'
  <2>1. UNCHANGED <<image, store, now, tokens, consumed, admitted, content>>
    BY DEF Moves, envVars, keyVars, diskVars
  <2>2. TokensBind' /\ AdmissionsRecorded'
    BY <2>1 DEF RestoreInv, TokensBind, TokenShaped, Members, AdmissionsRecorded, UseRecord
  <2>3. AdmittedOnceWhileValid' /\ OnlyTheBoundImage'
    BY <2>1 DEF RestoreInv, AdmittedOnceWhileValid, OnlyTheBoundImage
  <2> QED
    BY <2>2, <2>3
<1>6. MountsApart'
  <2> SUFFICES ASSUME NEW q \in Procs, NEW r \in Procs, image'.kind = "stream",
                      step'[q] = "write", step'[r] = "write", job'[q].fd = job'[r].fd
               PROVE  q = r
    BY DEF MountsApart
  <2>1. image.kind = "stream" /\ q # p /\ r # p
    BY DEF Moves, envVars
  <2>2. step[q] = "write" /\ step[r] = "write" /\ job[q].fd = job[r].fd
    BY <2>1 DEF Moves, RestoreInv, RestoreType
  <2> QED
    BY <2>1, <2>2 DEF RestoreInv, MountsApart
<1> QED
  BY <1>2, <1>3, <1>4, <1>5, <1>6 DEF RestoreInv

\* An error before the first write leaves nothing behind, and relies on nothing.
LEMMA ErrorsKeep ==
  ASSUME RestoreInv, NEW p \in Procs, ReturnError(p),
         step[p] \notin {"boot", "keyless", "write"} \cup Ended
  PROVE  RestoreInv'
<1>1. \A d \in Targets : <<p, d>> \notin touched
  BY DEF RestoreInv, Relies, WritesLast
<1>2. step' = [step EXCEPT ![p] = "refused"] /\ job' = job /\ Moves(p)
  <2>1. step' = [step EXCEPT ![p] = "refused"]
    BY <1>1 DEF ReturnError, Go
  <2>2. claim' \in [Targets -> Procs \cup {None}]
    BY DEF ReturnError, Unclaimed, RestoreInv, RestoreType
  <2> QED
    BY <2>1, <2>2 DEF ReturnError, Unclaimed, Moves, RestoreInv, RestoreType
<1>3. step'[p] = "refused" /\ job'[p] = job[p] /\ touched' = touched
  BY <1>2 DEF RestoreInv, RestoreType, Moves, diskVars
<1>4. Relies(p)'
  BY <1>1, <1>3 DEF Relies, InHand, Working, Approved, Admitted, TargetHeld, Claimed, RootHeld,
        MountHeld, MembersHeld, Compared, Undisturbed, Verified, ChunksWritten, WritesLast
<1> QED
  BY <1>2, <1>3, <1>4, MovesKeep DEF StepsOf, Common, Ended, RestoreInv, RestoreType

\* A check that succeeded: p goes on with the same token, and nothing else happens.
GoesFurther(p) ==
  /\ Working(p) /\ step[p] # "write"
  /\ UNCHANGED <<envVars, diskVars, keyVars, claim, late>>
  /\ step' = [step EXCEPT ![p] = step'[p]]
  /\ job' = [job EXCEPT ![p] = job'[p]]
  /\ step'[p] \in StepsOf(image.kind) \ ({"boot", "keyless", "idle"} \cup Ended)
  /\ image.kind = "stream" => step'[p] # "write"
  /\ JobShaped(job'[p]) /\ job'[p].at = job[p].at
  /\ job'[p].token = job[p].token /\ job'[p].user = job[p].user

\* What is left to show is what the check was for.
LEMMA GoesOn ==
  ASSUME RestoreInv, NEW p \in Procs, GoesFurther(p),
         step'[p] \in Admitted => step[p] \in Admitted,
         TargetHeld(p)', RootHeld(p)', MembersHeld(p)', Undisturbed(p)', ChunksWritten(p)'
  PROVE  RestoreInv'
<1>1. Moves(p) /\ Relies(p)
  BY DEF GoesFurther, Moves, RestoreInv, RestoreType
<1>2. InHand(p)' /\ Approved(p)'
  BY <1>1 DEF GoesFurther, keyVars, Relies, InHand, Working, Approved, Token
<1>3. MountHeld(p)' /\ WritesLast(p)'
  <2>1. \A d \in Targets : <<p, d>> \notin touched'
    BY <1>1 DEF GoesFurther, diskVars, Relies, WritesLast, Working, Ended
  <2> QED
    BY <2>1 DEF GoesFurther, envVars, MountHeld, WritesLast, Ended
<1> QED
  BY <1>1, <1>2, <1>3, MovesKeep DEF Relies, GoesFurther, RestoreInv, RestoreType, Working

-----------------------------------------------------------------------------
(***************************************************************************)
(* The checks of `apply_restore`, in its order.                            *)
(***************************************************************************)

\* Some steps belong to one kind of image only.
LEMMA KindOfStep ==
  ASSUME RestoreInv, NEW p \in Procs
  PROVE  /\ image.kind \in {"block", "disk", "stream", "file"}
         /\ step[p] \in {"claim", "facts", "retarget"} => image.kind # "file"
         /\ step[p] \in {"directory", "start", "dircheck", "root", "pinned"} => image.kind = "file"
         /\ step[p] \in {"reopen", "mkfs"} => image.kind = "stream"
         /\ step[p] = "chunks" => image.kind = "disk"
         /\ step[p] = "members" => image.kind # "disk"
<1>1. image.kind \in {"block", "disk", "stream", "file"} /\ step[p] \in StepsOf(image.kind)
  BY RestoreAssumption DEF RestoreInv, RestoreType
<1> QED
  BY <1>1 DEF StepsOf, Common, Ended

\* open_image: the newest member is the one the token binds.
LEMMA OpenImageKeeps ==
  ASSUME RestoreInv, NEW p \in Procs, OpenImage(p)
  PROVE  RestoreInv'
<1> DEFINE ok == store[Newest] = Token(p).members[Newest]
           next == IF OnDevice THEN "claim" ELSE "directory"
           kept == [job[p] EXCEPT !.opened = Identities]
<1>1. CASE ok
  <2>1. /\ step[p] = "image" /\ step' = [step EXCEPT ![p] = next]
        /\ job' = [job EXCEPT ![p] = kept]
        /\ UNCHANGED <<envVars, diskVars, keyVars, claim, late>>
    BY <1>1 DEF OpenImage, Decide, Go, Keep
  <2>2. step'[p] = next /\ job'[p] = kept /\ JobShaped(job[p]) /\ Relies(p)
    BY <2>1 DEF RestoreInv, RestoreType
  <2>3. /\ JobShaped(kept) /\ kept.at = job[p].at /\ kept.token = job[p].token
        /\ kept.user = job[p].user
    BY <2>2 DEF JobShaped
  <2>4. GoesFurther(p)
    <3>1. /\ next \in StepsOf(image.kind) \ ({"boot", "keyless", "idle"} \cup Ended)
          /\ image.kind = "stream" => next # "write"
      BY <2>1, KindOfStep DEF StepsOf, Common, Ended, OnDevice
    <3> QED
      BY <2>1, <2>2, <2>3, <3>1 DEF GoesFurther, Working
  <2>5. UNCHANGED <<image, store, damaged, path, events, mounted, claim, late>> /\ Token(p)' = Token(p)
    BY <2>1, <2>2, <2>3 DEF envVars, Token
  <2>6. TargetHeld(p)' /\ RootHeld(p)' /\ Undisturbed(p)' /\ ChunksWritten(p)'
    BY <2>2 DEF TargetHeld, Claimed, RootHeld, Undisturbed, Verified, Compared, ChunksWritten
  <2>7. MembersHeld(p)'
    <3>1. ASSUME image.kind = "disk"
          PROVE  Identities = Token(p).members
      <4>1. Members = {1} /\ Newest = 1 /\ Token(p).members \in [Members -> Nat]
        BY <2>1, <3>1 DEF Members, Newest, RestoreInv, Relies, InHand, Working, TokensBind
      <4> QED
        BY <1>1, <4>1 DEF Identities
    <3> QED
      BY <2>2, <2>5, <3>1 DEF MembersHeld, Compared, JobShaped
  <2> QED
    BY <2>2, <2>4, <2>6, <2>7, GoesOn DEF Admitted
<1>2. CASE ~ ok
  BY <1>2, ErrorsKeep DEF OpenImage, Decide, Ended
<1> QED
  BY <1>1, <1>2

\* The facts of the device are the token's, and the claim is on that device.
LEMMA CheckFactsKeeps ==
  ASSUME RestoreInv, NEW p \in Procs, CheckFacts(p)
  PROVE  RestoreInv'
<1> DEFINE ok == SameTarget(p)
           next == "admit"
           kept == job[p]
<1>1. CASE ok
  <2>1. /\ step[p] = "facts" /\ step' = [step EXCEPT ![p] = next]
        /\ job' = [job EXCEPT ![p] = kept]
        /\ UNCHANGED <<envVars, diskVars, keyVars, claim, late>>
    BY <1>1 DEF CheckFacts, Decide, Go, Keep
  <2>2. step'[p] = next /\ job'[p] = kept /\ JobShaped(job[p]) /\ Relies(p)
    BY <2>1 DEF RestoreInv, RestoreType
  <2>3. /\ JobShaped(kept) /\ kept.at = job[p].at /\ kept.token = job[p].token
        /\ kept.user = job[p].user
    BY <2>2 DEF JobShaped
  <2>4. GoesFurther(p)
    <3>1. /\ next \in StepsOf(image.kind) \ ({"boot", "keyless", "idle"} \cup Ended)
          /\ image.kind = "stream" => next # "write"
      BY <2>1, KindOfStep DEF StepsOf, Common, Ended, OnDevice
    <3> QED
      BY <2>1, <2>2, <2>3, <3>1 DEF GoesFurther, Working
  <2>5. UNCHANGED <<image, store, damaged, path, events, mounted, claim, late>> /\ Token(p)' = Token(p)
    BY <2>1, <2>2, <2>3 DEF envVars, Token
  <2>6. TargetHeld(p)'
    <3>1. OnDevice /\ job[p].fd = Token(p).target[1]
      BY <1>1, <2>1, KindOfStep DEF SameTarget, Facts, OnDevice
    <3> QED
      BY <2>1, <2>2, <2>5, <3>1 DEF Relies, TargetHeld, Claimed, OwnDevice
  <2>7. RootHeld(p)' /\ MembersHeld(p)' /\ Undisturbed(p)' /\ ChunksWritten(p)'
    BY <2>1, <2>2, <2>5 DEF RootHeld, Relies, MembersHeld, Working, Compared, Undisturbed, Verified,
       ChunksWritten
  <2> QED
    BY <2>2, <2>4, <2>6, <2>7, GoesOn DEF Admitted
<1>2. CASE ~ ok
  BY <1>2, ErrorsKeep DEF CheckFacts, Decide, Ended
<1> QED
  BY <1>1, <1>2

\* A file restore has no device to claim.
LEMMA CheckDirectoryKeeps ==
  ASSUME RestoreInv, NEW p \in Procs, CheckDirectory(p)
  PROVE  RestoreInv'
<1> DEFINE ok == Facts(path) = Token(p).target
           next == "admit"
           kept == job[p]
<1>1. CASE ok
  <2>1. /\ step[p] = "directory" /\ step' = [step EXCEPT ![p] = next]
        /\ job' = [job EXCEPT ![p] = kept]
        /\ UNCHANGED <<envVars, diskVars, keyVars, claim, late>>
    BY <1>1 DEF CheckDirectory, Decide, Go, Keep
  <2>2. step'[p] = next /\ job'[p] = kept /\ JobShaped(job[p]) /\ Relies(p)
    BY <2>1 DEF RestoreInv, RestoreType
  <2>3. /\ JobShaped(kept) /\ kept.at = job[p].at /\ kept.token = job[p].token
        /\ kept.user = job[p].user
    BY <2>2 DEF JobShaped
  <2>4. GoesFurther(p)
    <3>1. /\ next \in StepsOf(image.kind) \ ({"boot", "keyless", "idle"} \cup Ended)
          /\ image.kind = "stream" => next # "write"
      BY <2>1, KindOfStep DEF StepsOf, Common, Ended, OnDevice
    <3> QED
      BY <2>1, <2>2, <2>3, <3>1 DEF GoesFurther, Working
  <2>5. UNCHANGED <<image, store, damaged, path, events, mounted, claim, late>> /\ Token(p)' = Token(p)
    BY <2>1, <2>2, <2>3 DEF envVars, Token
  <2>6. TargetHeld(p)'
    BY <2>1, <2>5, KindOfStep DEF TargetHeld, OwnDevice
  <2>7. RootHeld(p)' /\ MembersHeld(p)' /\ Undisturbed(p)' /\ ChunksWritten(p)'
    BY <2>1, <2>2, <2>5 DEF RootHeld, Relies, MembersHeld, Working, Compared, Undisturbed, Verified,
       ChunksWritten
  <2> QED
    BY <2>2, <2>4, <2>6, <2>7, GoesOn DEF Admitted
<1>2. CASE ~ ok
  BY <1>2, ErrorsKeep DEF CheckDirectory, Decide, Ended
<1> QED
  BY <1>1, <1>2

\* The token is verified once more.
LEMMA AdmitKeeps ==
  ASSUME RestoreInv, NEW p \in Procs, Admit(p)
  PROVE  RestoreInv'
<1> DEFINE ok == Valid(p, Token(p))
           next == "redeem"
           kept == job[p]
<1>1. CASE ok
  <2>1. /\ step[p] = "admit" /\ step' = [step EXCEPT ![p] = next]
        /\ job' = [job EXCEPT ![p] = kept]
        /\ UNCHANGED <<envVars, diskVars, keyVars, claim, late>>
    BY <1>1 DEF Admit, Decide, Go, Keep
  <2>2. step'[p] = next /\ job'[p] = kept /\ JobShaped(job[p]) /\ Relies(p)
    BY <2>1 DEF RestoreInv, RestoreType
  <2>3. /\ JobShaped(kept) /\ kept.at = job[p].at /\ kept.token = job[p].token
        /\ kept.user = job[p].user
    BY <2>2 DEF JobShaped
  <2>4. GoesFurther(p)
    <3>1. /\ next \in StepsOf(image.kind) \ ({"boot", "keyless", "idle"} \cup Ended)
          /\ image.kind = "stream" => next # "write"
      BY <2>1, KindOfStep DEF StepsOf, Common, Ended, OnDevice
    <3> QED
      BY <2>1, <2>2, <2>3, <3>1 DEF GoesFurther, Working
  <2>5. UNCHANGED <<image, store, damaged, path, events, mounted, claim, late>> /\ Token(p)' = Token(p)
    BY <2>1, <2>2, <2>3 DEF envVars, Token
  <2>6. TargetHeld(p)'
    BY <2>1, <2>2, <2>5 DEF Relies, TargetHeld, Claimed, OwnDevice
  <2>7. RootHeld(p)' /\ MembersHeld(p)' /\ Undisturbed(p)' /\ ChunksWritten(p)'
    BY <2>1, <2>2, <2>5 DEF RootHeld, Relies, MembersHeld, Working, Compared, Undisturbed, Verified,
       ChunksWritten
  <2> QED
    BY <2>2, <2>4, <2>6, <2>7, GoesOn DEF Admitted
<1>2. CASE ~ ok
  BY <1>2, ErrorsKeep DEF Admit, Decide, Ended
<1> QED
  BY <1>1, <1>2

\* restore_file_inner remembers the directory it starts with.
LEMMA StartDirectoryKeeps ==
  ASSUME RestoreInv, NEW p \in Procs, StartDirectory(p)
  PROVE  RestoreInv'
<1> DEFINE ok == Facts(path) = Token(p).target
           next == "before"
           kept == [job[p] EXCEPT !.facts = Facts(path)]
<1>1. CASE ok
  <2>1. /\ step[p] = "start" /\ step' = [step EXCEPT ![p] = next]
        /\ job' = [job EXCEPT ![p] = kept]
        /\ UNCHANGED <<envVars, diskVars, keyVars, claim, late>>
    BY <1>1 DEF StartDirectory, Decide, Go, Keep
  <2>2. step'[p] = next /\ job'[p] = kept /\ JobShaped(job[p]) /\ Relies(p)
    BY <2>1 DEF RestoreInv, RestoreType
  <2>3. /\ JobShaped(kept) /\ kept.at = job[p].at /\ kept.token = job[p].token
        /\ kept.user = job[p].user
    BY <2>2 DEF JobShaped
  <2>4. GoesFurther(p)
    <3>1. /\ next \in StepsOf(image.kind) \ ({"boot", "keyless", "idle"} \cup Ended)
          /\ image.kind = "stream" => next # "write"
      BY <2>1, KindOfStep DEF StepsOf, Common, Ended, OnDevice
    <3> QED
      BY <2>1, <2>2, <2>3, <3>1 DEF GoesFurther, Working
  <2>5. UNCHANGED <<image, store, damaged, path, events, mounted, claim, late>> /\ Token(p)' = Token(p)
    BY <2>1, <2>2, <2>3 DEF envVars, Token
  <2>6. TargetHeld(p)' /\ RootHeld(p)'
    BY <1>1, <2>1, <2>2, <2>5, KindOfStep DEF TargetHeld, OwnDevice, RootHeld, JobShaped
  <2>7. MembersHeld(p)'
    BY <2>1, <2>2, <2>5, KindOfStep DEF MembersHeld, Compared
  <2>8. Undisturbed(p)' /\ ChunksWritten(p)'
    BY <2>1, <2>2, <2>5 DEF Compared, Undisturbed, Verified, ChunksWritten
  <2> QED
    BY <2>1, <2>2, <2>4, <2>6, <2>7, <2>8, GoesOn DEF Admitted
<1>2. CASE ~ ok
  BY <1>2, ErrorsKeep DEF StartDirectory, Decide, Ended
<1> QED
  BY <1>1, <1>2

\* The members are those of the token before they are verified.
LEMMA IdentitiesBeforeKeeps ==
  ASSUME RestoreInv, NEW p \in Procs, IdentitiesBefore(p)
  PROVE  RestoreInv'
<1> DEFINE ok == Identities = Token(p).members
           next == "payload"
           kept == [job[p] EXCEPT !.seen = Identities]
<1>1. CASE ok
  <2>1. /\ step[p] = "before" /\ step' = [step EXCEPT ![p] = next]
        /\ job' = [job EXCEPT ![p] = kept]
        /\ UNCHANGED <<envVars, diskVars, keyVars, claim, late>>
    BY <1>1 DEF IdentitiesBefore, Decide, Go, Keep
  <2>2. step'[p] = next /\ job'[p] = kept /\ JobShaped(job[p]) /\ Relies(p)
    BY <2>1 DEF RestoreInv, RestoreType
  <2>3. /\ JobShaped(kept) /\ kept.at = job[p].at /\ kept.token = job[p].token
        /\ kept.user = job[p].user
    BY <2>2 DEF JobShaped
  <2>4. GoesFurther(p)
    <3>1. /\ next \in StepsOf(image.kind) \ ({"boot", "keyless", "idle"} \cup Ended)
          /\ image.kind = "stream" => next # "write"
      BY <2>1, KindOfStep DEF StepsOf, Common, Ended, OnDevice
    <3> QED
      BY <2>1, <2>2, <2>3, <3>1 DEF GoesFurther, Working
  <2>5. UNCHANGED <<image, store, damaged, path, events, mounted, claim, late>> /\ Token(p)' = Token(p)
    BY <2>1, <2>2, <2>3 DEF envVars, Token
  <2>6. TargetHeld(p)' /\ RootHeld(p)'
    BY <2>1, <2>2, <2>5 DEF Relies, TargetHeld, Claimed, OwnDevice, RootHeld, JobShaped
  <2>7. MembersHeld(p)'
    BY <2>1, <2>2, <2>5 DEF Relies, MembersHeld, Compared, Working, JobShaped
  <2>8. Undisturbed(p)' /\ ChunksWritten(p)'
    BY <2>1, <2>2, <2>5 DEF Compared, Undisturbed, Verified, ChunksWritten
  <2> QED
    BY <2>1, <2>2, <2>4, <2>6, <2>7, <2>8, GoesOn DEF Admitted
<1>2. CASE ~ ok
  BY <1>2, ErrorsKeep DEF IdentitiesBefore, Decide, Ended
<1> QED
  BY <1>1, <1>2

\* From here on a change of the image is a late one.
LEMMA VerifyPayloadsKeeps ==
  ASSUME RestoreInv, NEW p \in Procs, VerifyPayloads(p)
  PROVE  RestoreInv'
<1> DEFINE ok == PayloadsGood
           next == "after"
           kept == job[p]
<1>1. CASE ok
  <2>1. /\ step[p] = "payload" /\ step' = [step EXCEPT ![p] = next]
        /\ job' = [job EXCEPT ![p] = kept]
        /\ UNCHANGED <<envVars, diskVars, keyVars, claim, late>>
    BY <1>1 DEF VerifyPayloads, Decide, Go, Keep
  <2>2. step'[p] = next /\ job'[p] = kept /\ JobShaped(job[p]) /\ Relies(p)
    BY <2>1 DEF RestoreInv, RestoreType
  <2>3. /\ JobShaped(kept) /\ kept.at = job[p].at /\ kept.token = job[p].token
        /\ kept.user = job[p].user
    BY <2>2 DEF JobShaped
  <2>4. GoesFurther(p)
    <3>1. /\ next \in StepsOf(image.kind) \ ({"boot", "keyless", "idle"} \cup Ended)
          /\ image.kind = "stream" => next # "write"
      BY <2>1, KindOfStep DEF StepsOf, Common, Ended, OnDevice
    <3> QED
      BY <2>1, <2>2, <2>3, <3>1 DEF GoesFurther, Working
  <2>5. UNCHANGED <<image, store, damaged, path, events, mounted, claim, late>> /\ Token(p)' = Token(p)
    BY <2>1, <2>2, <2>3 DEF envVars, Token
  <2>6. TargetHeld(p)' /\ RootHeld(p)'
    BY <2>1, <2>2, <2>5 DEF Relies, TargetHeld, Claimed, OwnDevice, RootHeld
  <2>7. MembersHeld(p)'
    BY <2>1, <2>2, <2>5 DEF Relies, MembersHeld, Compared, Working
  <2>8. Undisturbed(p)' /\ ChunksWritten(p)'
    BY <1>1, <2>1, <2>2, <2>5 DEF Compared, Undisturbed, Verified, ChunksWritten, PayloadsGood,
       Members
  <2> QED
    BY <2>1, <2>2, <2>4, <2>6, <2>7, <2>8, GoesOn DEF Admitted
<1>2. CASE ~ ok
  BY <1>2, ErrorsKeep DEF VerifyPayloads, Decide, Ended
<1> QED
  BY <1>1, <1>2

\* The members are the same after they were verified.
LEMMA IdentitiesAfterKeeps ==
  ASSUME RestoreInv, NEW p \in Procs, IdentitiesAfter(p)
  PROVE  RestoreInv'
<1> DEFINE ok == Identities = job[p].seen
           next == IF image.kind \in {"file", "stream"} THEN "members" ELSE "retarget"
           kept == job[p]
<1>1. CASE ok
  <2>1. /\ step[p] = "after" /\ step' = [step EXCEPT ![p] = next]
        /\ job' = [job EXCEPT ![p] = kept]
        /\ UNCHANGED <<envVars, diskVars, keyVars, claim, late>>
    BY <1>1 DEF IdentitiesAfter, Decide, Go, Keep
  <2>2. step'[p] = next /\ job'[p] = kept /\ JobShaped(job[p]) /\ Relies(p)
    BY <2>1 DEF RestoreInv, RestoreType
  <2>3. /\ JobShaped(kept) /\ kept.at = job[p].at /\ kept.token = job[p].token
        /\ kept.user = job[p].user
    BY <2>2 DEF JobShaped
  <2>4. GoesFurther(p)
    <3>1. /\ next \in StepsOf(image.kind) \ ({"boot", "keyless", "idle"} \cup Ended)
          /\ image.kind = "stream" => next # "write"
      BY <2>1, KindOfStep DEF StepsOf, Common, Ended, OnDevice
    <3> QED
      BY <2>1, <2>2, <2>3, <3>1 DEF GoesFurther, Working
  <2>5. UNCHANGED <<image, store, damaged, path, events, mounted, claim, late>> /\ Token(p)' = Token(p)
    BY <2>1, <2>2, <2>3 DEF envVars, Token
  <2>6. TargetHeld(p)' /\ RootHeld(p)'
    BY <2>1, <2>2, <2>5 DEF Relies, TargetHeld, Claimed, OwnDevice, RootHeld
  <2>7. MembersHeld(p)'
    BY <2>1, <2>2, <2>5, KindOfStep DEF Relies, MembersHeld, Compared, Working
  <2>8. Undisturbed(p)' /\ ChunksWritten(p)'
    BY <1>1, <2>1, <2>2, <2>5, KindOfStep DEF Relies, Compared, Undisturbed, Verified,
       ChunksWritten, PayloadsGood, Members
  <2> QED
    BY <2>1, <2>2, <2>4, <2>6, <2>7, <2>8, GoesOn DEF Admitted
<1>2. CASE ~ ok
  BY <1>2, ErrorsKeep DEF IdentitiesAfter, Decide, Ended
<1> QED
  BY <1>1, <1>2

\* The device is looked at again after the slow verification.
LEMMA RetargetKeeps ==
  ASSUME RestoreInv, NEW p \in Procs, Retarget(p)
  PROVE  RestoreInv'
<1> DEFINE ok == SameTarget(p)
           next == CASE image.kind = "stream" -> "mkfs"
                     [] image.kind = "disk" -> "current"
                     [] OTHER -> "members"
           kept == job[p]
<1>1. CASE ok
  <2>1. /\ step[p] = "retarget" /\ step' = [step EXCEPT ![p] = next]
        /\ job' = [job EXCEPT ![p] = kept]
        /\ UNCHANGED <<envVars, diskVars, keyVars, claim, late>>
    BY <1>1 DEF Retarget, Decide, Go, Keep
  <2>2. step'[p] = next /\ job'[p] = kept /\ JobShaped(job[p]) /\ Relies(p)
    BY <2>1 DEF RestoreInv, RestoreType
  <2>3. /\ JobShaped(kept) /\ kept.at = job[p].at /\ kept.token = job[p].token
        /\ kept.user = job[p].user
    BY <2>2 DEF JobShaped
  <2>4. GoesFurther(p)
    <3>1. /\ next \in StepsOf(image.kind) \ ({"boot", "keyless", "idle"} \cup Ended)
          /\ image.kind = "stream" => next # "write"
      BY <2>1, KindOfStep DEF StepsOf, Common, Ended, OnDevice
    <3> QED
      BY <2>1, <2>2, <2>3, <3>1 DEF GoesFurther, Working
  <2>5. UNCHANGED <<image, store, damaged, path, events, mounted, claim, late>> /\ Token(p)' = Token(p)
    BY <2>1, <2>2, <2>3 DEF envVars, Token
  <2>6. TargetHeld(p)' /\ RootHeld(p)'
    BY <2>1, <2>2, <2>5, KindOfStep DEF Relies, TargetHeld, Claimed, OwnDevice, RootHeld
  <2>7. MembersHeld(p)'
    BY <2>1, <2>2, <2>5, KindOfStep DEF Relies, MembersHeld, Compared, Working
  <2>8. Undisturbed(p)' /\ ChunksWritten(p)'
    BY <1>1, <2>1, <2>2, <2>5, KindOfStep DEF Relies, Compared, Undisturbed, Verified,
       ChunksWritten, PayloadsGood, Members, Identities
  <2> QED
    BY <2>1, <2>2, <2>4, <2>6, <2>7, <2>8, GoesOn DEF Admitted
<1>2. CASE ~ ok
  BY <1>2, ErrorsKeep DEF Retarget, Decide, Ended
<1> QED
  BY <1>1, <1>2

\* The members are opened by name; identities only grow.
LEMMA OpenMembersKeeps ==
  ASSUME RestoreInv, NEW p \in Procs, OpenMembers(p)
  PROVE  RestoreInv'
<1> DEFINE ok == (image.inconsistent => job[p].accept) /\ Plannable
           next == "current"
           kept == [job[p] EXCEPT !.opened = Identities, !.chunks = Identities]
<1>1. CASE ok
  <2>1. /\ step[p] = "members" /\ step' = [step EXCEPT ![p] = next]
        /\ job' = [job EXCEPT ![p] = kept]
        /\ UNCHANGED <<envVars, diskVars, keyVars, claim, late>>
    BY <1>1 DEF OpenMembers, Decide, Go, Keep
  <2>2. step'[p] = next /\ job'[p] = kept /\ JobShaped(job[p]) /\ Relies(p)
    BY <2>1 DEF RestoreInv, RestoreType
  <2>3. /\ JobShaped(kept) /\ kept.at = job[p].at /\ kept.token = job[p].token
        /\ kept.user = job[p].user
    BY <2>2 DEF JobShaped
  <2>4. GoesFurther(p)
    <3>1. /\ next \in StepsOf(image.kind) \ ({"boot", "keyless", "idle"} \cup Ended)
          /\ image.kind = "stream" => next # "write"
      BY <2>1, KindOfStep DEF StepsOf, Common, Ended, OnDevice
    <3> QED
      BY <2>1, <2>2, <2>3, <3>1 DEF GoesFurther, Working
  <2>5. UNCHANGED <<image, store, damaged, path, events, mounted, claim, late>> /\ Token(p)' = Token(p)
    BY <2>1, <2>2, <2>3 DEF envVars, Token
  <2>6. TargetHeld(p)' /\ RootHeld(p)'
    BY <2>1, <2>2, <2>5 DEF Relies, TargetHeld, Claimed, OwnDevice, RootHeld, JobShaped
  <2>7. MembersHeld(p)'
    <3>1. job'[p].opened = Identities /\ job'[p].chunks = Identities
      BY <2>2 DEF JobShaped
    <3>2. Token(p) \in tokens
      BY <2>1, <2>2 DEF Relies, InHand, Working
    <3>3. Members \subseteq 1..ChainLength
      BY RestoreAssumption DEF Members
    <3>4. /\ Identities \in [Members -> Nat]
          /\ \A m \in Members : Token(p).members[m] <= Identities[m] /\ Identities[m] <= store[m]
      BY <3>2, <3>3 DEF Identities, RestoreInv, RestoreType, TokensBind
    <3> QED
      BY <2>2, <2>5, <3>1, <3>4, KindOfStep, <2>1 DEF MembersHeld, Compared, Members
  <2>8. Undisturbed(p)' /\ ChunksWritten(p)'
    BY <1>1, <2>1, <2>2, <2>5, KindOfStep DEF Relies, Compared, Undisturbed, Verified,
       ChunksWritten, PayloadsGood, Members
  <2> QED
    BY <2>1, <2>2, <2>4, <2>6, <2>7, <2>8, GoesOn DEF Admitted
<1>2. CASE ~ ok
  BY <1>2, ErrorsKeep DEF OpenMembers, Decide, Ended
<1> QED
  BY <1>1, <1>2

\* The members that were opened are the token's, and so are those the names lead to.
LEMMA ValidateOpenedKeeps ==
  ASSUME RestoreInv, NEW p \in Procs, ValidateOpened(p)
  PROVE  RestoreInv'
<1> DEFINE ok == StillTheMembers(p)
           next == CASE image.kind = "stream" -> "retarget"
                     [] image.kind = "file" -> "dircheck"
                     [] image.kind = "disk" -> "chunks"
                     [] OTHER -> "write"
           kept == job[p]
<1>1. CASE ok
  <2>1. /\ step[p] = "current" /\ step' = [step EXCEPT ![p] = next]
        /\ job' = [job EXCEPT ![p] = kept]
        /\ UNCHANGED <<envVars, diskVars, keyVars, claim, late>>
    BY <1>1 DEF ValidateOpened, Decide, Go, Keep
  <2>2. step'[p] = next /\ job'[p] = kept /\ JobShaped(job[p]) /\ Relies(p)
    BY <2>1 DEF RestoreInv, RestoreType
  <2>3. /\ JobShaped(kept) /\ kept.at = job[p].at /\ kept.token = job[p].token
        /\ kept.user = job[p].user
    BY <2>2 DEF JobShaped
  <2>4. GoesFurther(p)
    <3>1. /\ next \in StepsOf(image.kind) \ ({"boot", "keyless", "idle"} \cup Ended)
          /\ image.kind = "stream" => next # "write"
      BY <2>1, KindOfStep DEF StepsOf, Common, Ended, OnDevice
    <3> QED
      BY <2>1, <2>2, <2>3, <3>1 DEF GoesFurther, Working
  <2>5. UNCHANGED <<image, store, damaged, path, events, mounted, claim, late>> /\ Token(p)' = Token(p)
    BY <2>1, <2>2, <2>3 DEF envVars, Token
  <2>6. TargetHeld(p)' /\ RootHeld(p)'
    BY <2>1, <2>2, <2>5, KindOfStep DEF Relies, TargetHeld, Claimed, OwnDevice, RootHeld
  <2>7. MembersHeld(p)'
    <3>1. job[p].opened = Token(p).members
      <4>1. CASE image.kind = "stream"
        <5>1. Token(p) \in tokens /\ Token(p).members \in [Members -> Nat]
          BY <2>1, <2>2 DEF Relies, InHand, Working, RestoreInv, TokensBind
        <5>2. job[p].opened \in [Members -> Nat]
          BY <2>1, <2>2, <4>1 DEF Relies, MembersHeld
        <5>3. ASSUME NEW m \in Members
              PROVE  job[p].opened[m] = Token(p).members[m]
          <6>1. Token(p).members[m] <= job[p].opened[m] /\ job[p].opened[m] <= store[m]
            BY <2>1, <2>2, <4>1 DEF Relies, MembersHeld
          <6>2. store[m] = Token(p).members[m]
            BY <1>1 DEF StillTheMembers, Identities
          <6> QED
            BY <5>1, <5>2, <6>1, <6>2
        <5> QED
          BY <5>1, <5>2, <5>3
      <4>2. CASE image.kind # "stream"
        BY <1>1, <2>1, <2>2, <4>2, KindOfStep DEF StillTheMembers, Relies, MembersHeld, Working
      <4> QED
        BY <4>1, <4>2
    <3> QED
      BY <2>1, <2>2, <2>5, <3>1, KindOfStep DEF Relies, MembersHeld, Compared
  <2>8. Undisturbed(p)' /\ ChunksWritten(p)'
    <3>1. Undisturbed(p)'
      BY <1>1, <2>1, <2>2, <2>5, KindOfStep DEF Relies, Compared, Undisturbed, Verified,
         PayloadsGood, Members, StillTheMembers, Identities
    <3>2. job'[p].at = 1
      BY <2>1, <2>2, <2>3 DEF Relies, InHand, Working
    <3> QED
      BY <3>1, <3>2 DEF ChunksWritten, Chunks
  <2> QED
    BY <2>1, <2>2, <2>4, <2>6, <2>7, <2>8, GoesOn DEF Admitted
<1>2. CASE ~ ok
  BY <1>2, ErrorsKeep DEF ValidateOpened, Decide, Ended
<1> QED
  BY <1>1, <1>2

\* The whole disk's chunk reader is opened by name.
LEMMA OpenChunksKeeps ==
  ASSUME RestoreInv, NEW p \in Procs, OpenChunks(p)
  PROVE  RestoreInv'
<1> DEFINE ok == Plannable /\ job[p].fd \notin Small
           next == "write"
           kept == [job[p] EXCEPT !.chunks = Identities]
<1>1. CASE ok
  <2>1. /\ step[p] = "chunks" /\ step' = [step EXCEPT ![p] = next]
        /\ job' = [job EXCEPT ![p] = kept]
        /\ UNCHANGED <<envVars, diskVars, keyVars, claim, late>>
    BY <1>1 DEF OpenChunks, Decide, Go, Keep
  <2>2. step'[p] = next /\ job'[p] = kept /\ JobShaped(job[p]) /\ Relies(p)
    BY <2>1 DEF RestoreInv, RestoreType
  <2>3. /\ JobShaped(kept) /\ kept.at = job[p].at /\ kept.token = job[p].token
        /\ kept.user = job[p].user
    BY <2>2 DEF JobShaped
  <2>4. GoesFurther(p)
    <3>1. /\ next \in StepsOf(image.kind) \ ({"boot", "keyless", "idle"} \cup Ended)
          /\ image.kind = "stream" => next # "write"
      BY <2>1, KindOfStep DEF StepsOf, Common, Ended, OnDevice
    <3> QED
      BY <2>1, <2>2, <2>3, <3>1 DEF GoesFurther, Working
  <2>5. UNCHANGED <<image, store, damaged, path, events, mounted, claim, late>> /\ Token(p)' = Token(p)
    BY <2>1, <2>2, <2>3 DEF envVars, Token
  <2>6. TargetHeld(p)' /\ RootHeld(p)'
    BY <2>1, <2>2, <2>5, KindOfStep DEF Relies, TargetHeld, Claimed, OwnDevice, RootHeld, JobShaped
  <2>7. MembersHeld(p)'
    BY <2>1, <2>2, <2>5, KindOfStep DEF Relies, MembersHeld, Compared, Working, JobShaped
  <2>8. Undisturbed(p)' /\ ChunksWritten(p)'
    <3>1. Undisturbed(p)'
      BY <1>1, <2>1, <2>2, <2>5, KindOfStep DEF Relies, Compared, Undisturbed, Verified,
         PayloadsGood, Members, Identities, JobShaped
    <3>2. job'[p].at = 1
      BY <2>1, <2>2, <2>3 DEF Relies, InHand, Working
    <3> QED
      BY <3>1, <3>2 DEF ChunksWritten, Chunks
  <2> QED
    BY <2>1, <2>2, <2>4, <2>6, <2>7, <2>8, GoesOn DEF Admitted
<1>2. CASE ~ ok
  BY <1>2, ErrorsKeep DEF OpenChunks, Decide, Ended
<1> QED
  BY <1>1, <1>2

\* The path still names the directory the restore started with.
LEMMA PrepareDirectoryKeeps ==
  ASSUME RestoreInv, NEW p \in Procs, PrepareDirectory(p)
  PROVE  RestoreInv'
<1> DEFINE ok == Facts(path) = job[p].facts /\ (Token(p).merge \/ path \notin filled)
           next == "root"
           kept == job[p]
<1>1. CASE ok
  <2>1. /\ step[p] = "dircheck" /\ step' = [step EXCEPT ![p] = next]
        /\ job' = [job EXCEPT ![p] = kept]
        /\ UNCHANGED <<envVars, diskVars, keyVars, claim, late>>
    BY <1>1 DEF PrepareDirectory, Decide, Go, Keep
  <2>2. step'[p] = next /\ job'[p] = kept /\ JobShaped(job[p]) /\ Relies(p)
    BY <2>1 DEF RestoreInv, RestoreType
  <2>3. /\ JobShaped(kept) /\ kept.at = job[p].at /\ kept.token = job[p].token
        /\ kept.user = job[p].user
    BY <2>2 DEF JobShaped
  <2>4. GoesFurther(p)
    <3>1. /\ next \in StepsOf(image.kind) \ ({"boot", "keyless", "idle"} \cup Ended)
          /\ image.kind = "stream" => next # "write"
      BY <2>1, KindOfStep DEF StepsOf, Common, Ended, OnDevice
    <3> QED
      BY <2>1, <2>2, <2>3, <3>1 DEF GoesFurther, Working
  <2>5. UNCHANGED <<image, store, damaged, path, events, mounted, claim, late>> /\ Token(p)' = Token(p)
    BY <2>1, <2>2, <2>3 DEF envVars, Token
  <2>6. TargetHeld(p)' /\ RootHeld(p)'
    <3>1. image.kind = "file" /\ job[p].facts = Token(p).target
      BY <2>1, <2>2, KindOfStep DEF Relies, RootHeld
    <3>2. path = Token(p).target[1]
      BY <1>1, <3>1 DEF Facts, OnDevice
    <3> QED
      BY <2>2, <2>5, <3>1, <3>2 DEF TargetHeld, OwnDevice, RootHeld
  <2>7. MembersHeld(p)'
    BY <2>1, <2>2, <2>5, KindOfStep DEF Relies, MembersHeld, Compared
  <2>8. Undisturbed(p)' /\ ChunksWritten(p)'
    BY <1>1, <2>1, <2>2, <2>5, KindOfStep DEF Relies, Compared, Undisturbed, Verified,
       ChunksWritten, PayloadsGood, Members, Identities
  <2> QED
    BY <2>1, <2>2, <2>4, <2>6, <2>7, <2>8, GoesOn DEF Admitted
<1>2. CASE ~ ok
  BY <1>2, ErrorsKeep DEF PrepareDirectory, Decide, Ended
<1> QED
  BY <1>1, <1>2

\* RestoreRoot::open pins whatever the path names: the prepared directory, or a change went before.
LEMMA PinRootKeeps ==
  ASSUME RestoreInv, NEW p \in Procs, PinRoot(p)
  PROVE  RestoreInv'
<1> DEFINE ok == TRUE
           next == "pinned"
           kept == [job[p] EXCEPT !.fd = path]
<1>1. CASE ok
  <2>1. /\ step[p] = "root" /\ step' = [step EXCEPT ![p] = next]
        /\ job' = [job EXCEPT ![p] = kept]
        /\ UNCHANGED <<envVars, diskVars, keyVars, claim, late>>
    BY <1>1 DEF PinRoot, Decide, Go, Keep
  <2>2. step'[p] = next /\ job'[p] = kept /\ JobShaped(job[p]) /\ Relies(p)
    BY <2>1 DEF RestoreInv, RestoreType
  <2>3. /\ JobShaped(kept) /\ kept.at = job[p].at /\ kept.token = job[p].token
        /\ kept.user = job[p].user
    BY <2>2 DEF JobShaped
  <2>4. GoesFurther(p)
    <3>1. /\ next \in StepsOf(image.kind) \ ({"boot", "keyless", "idle"} \cup Ended)
          /\ image.kind = "stream" => next # "write"
      BY <2>1, KindOfStep DEF StepsOf, Common, Ended, OnDevice
    <3> QED
      BY <2>1, <2>2, <2>3, <3>1 DEF GoesFurther, Working
  <2>5. UNCHANGED <<image, store, damaged, path, events, mounted, claim, late>> /\ Token(p)' = Token(p)
    BY <2>1, <2>2, <2>3 DEF envVars, Token
  <2>6. TargetHeld(p)' /\ RootHeld(p)'
    BY <2>1, <2>2, <2>5, KindOfStep DEF RestoreInv, RestoreType, Relies, TargetHeld, OwnDevice,
       RootHeld, JobShaped
  <2>7. MembersHeld(p)'
    BY <2>1, <2>2, <2>5, KindOfStep DEF Relies, MembersHeld, Compared, JobShaped
  <2>8. Undisturbed(p)' /\ ChunksWritten(p)'
    BY <1>1, <2>1, <2>2, <2>5, KindOfStep DEF Relies, Compared, Undisturbed, Verified,
       ChunksWritten, PayloadsGood, Members, Identities
  <2> QED
    BY <2>1, <2>2, <2>4, <2>6, <2>7, <2>8, GoesOn DEF Admitted
<1>2. CASE ~ ok
  BY <1>2, ErrorsKeep DEF PinRoot, Decide, Ended
<1> QED
  BY <1>1, <1>2

\* The path names the prepared directory again: the root is that one, or two changes went before.
LEMMA CheckRootKeeps ==
  ASSUME RestoreInv, NEW p \in Procs, CheckRoot(p)
  PROVE  RestoreInv'
<1> DEFINE ok == Facts(path) = Token(p).target
           next == "write"
           kept == job[p]
<1>1. CASE ok
  <2>1. /\ step[p] = "pinned" /\ step' = [step EXCEPT ![p] = next]
        /\ job' = [job EXCEPT ![p] = kept]
        /\ UNCHANGED <<envVars, diskVars, keyVars, claim, late>>
    BY <1>1 DEF CheckRoot, Decide, Go, Keep
  <2>2. step'[p] = next /\ job'[p] = kept /\ JobShaped(job[p]) /\ Relies(p)
    BY <2>1 DEF RestoreInv, RestoreType
  <2>3. /\ JobShaped(kept) /\ kept.at = job[p].at /\ kept.token = job[p].token
        /\ kept.user = job[p].user
    BY <2>2 DEF JobShaped
  <2>4. GoesFurther(p)
    <3>1. /\ next \in StepsOf(image.kind) \ ({"boot", "keyless", "idle"} \cup Ended)
          /\ image.kind = "stream" => next # "write"
      BY <2>1, KindOfStep DEF StepsOf, Common, Ended, OnDevice
    <3> QED
      BY <2>1, <2>2, <2>3, <3>1 DEF GoesFurther, Working
  <2>5. UNCHANGED <<image, store, damaged, path, events, mounted, claim, late>> /\ Token(p)' = Token(p)
    BY <2>1, <2>2, <2>3 DEF envVars, Token
  <2>6. TargetHeld(p)' /\ RootHeld(p)'
    <3>1. image.kind = "file" /\ path = Token(p).target[1]
      BY <1>1, <2>1, KindOfStep DEF Facts, OnDevice
    <3> QED
      BY <2>1, <2>2, <2>5, <3>1 DEF Relies, TargetHeld, OwnDevice, RootHeld
  <2>7. MembersHeld(p)'
    BY <2>1, <2>2, <2>5, KindOfStep DEF Relies, MembersHeld, Compared
  <2>8. Undisturbed(p)' /\ ChunksWritten(p)'
    BY <1>1, <2>1, <2>2, <2>5, KindOfStep DEF Relies, Compared, Undisturbed, Verified,
       ChunksWritten, PayloadsGood, Members, Identities, OnDevice
  <2> QED
    BY <2>1, <2>2, <2>4, <2>6, <2>7, <2>8, GoesOn DEF Admitted
<1>2. CASE ~ ok
  BY <1>2, ErrorsKeep DEF CheckRoot, Decide, Ended
<1> QED
  BY <1>1, <1>2

-----------------------------------------------------------------------------
(***************************************************************************)
(* Claims.                                                                 *)
(***************************************************************************)
\* The exclusive open takes a device that nobody holds and nothing mounts.
LEMMA ClaimKeeps ==
  ASSUME RestoreInv, NEW p \in Procs, Claim(p)
  PROVE  RestoreInv'
<1> DEFINE ok == (image.inconsistent => job[p].accept) /\ ExclusiveOpens(path)
           kept == [job[p] EXCEPT !.fd = path]
<1>1. CASE ok
  <2>1. /\ step[p] = "claim" /\ step' = [step EXCEPT ![p] = "facts"]
        /\ job' = [job EXCEPT ![p] = kept] /\ claim' = [claim EXCEPT ![path] = p]
        /\ UNCHANGED <<envVars, diskVars, keyVars, late>>
    BY <1>1 DEF Claim, TakeClaim, Go, Keep
  <2>2. /\ step'[p] = "facts" /\ job'[p] = kept /\ JobShaped(job[p]) /\ Relies(p)
        /\ path \in Targets /\ claim[path] = None /\ path \notin mounted /\ claim'[path] = p
        /\ image' = image /\ mounted' = mounted
    BY <1>1, <2>1 DEF RestoreInv, RestoreType, ExclusiveOpens, envVars
  <2>3. /\ JobShaped(kept) /\ kept.at = job[p].at /\ kept.token = job[p].token
        /\ kept.user = job[p].user /\ kept.opened = job[p].opened /\ kept.fd = path
    BY <2>2 DEF JobShaped
  <2>4. Moves(p)
    BY <2>1, <2>2 DEF Moves, RestoreInv, RestoreType
  <2>5. InHand(p)' /\ Approved(p)' /\ TargetHeld(p)' /\ RootHeld(p)'
    <3>1. InHand(p)' /\ Approved(p)'
      BY <2>1, <2>2, <2>3 DEF Relies, InHand, Working, Token, keyVars, Approved, Admitted
    <3>2. TargetHeld(p)'
      BY <2>2, <2>3 DEF TargetHeld
    <3>3. RootHeld(p)'
      BY <2>2 DEF RootHeld
    <3> QED
      BY <3>1, <3>2, <3>3
  <2>6. MountHeld(p)' /\ MembersHeld(p)' /\ Undisturbed(p)' /\ ChunksWritten(p)'
    BY <2>1, <2>2, <2>3 DEF Relies, MountHeld, MembersHeld, Working, Token, Compared, Undisturbed,
       Verified, ChunksWritten
  <2>7. WritesLast(p)'
    BY <2>1, <2>2 DEF Relies, WritesLast, Ended, diskVars
  <2>8. step'[p] \in StepsOf(image.kind) /\ job'[p].at \in Nat \ {0}
    BY <2>1, <2>2, <2>3, KindOfStep DEF StepsOf, RestoreInv, RestoreType
  <2> QED
    BY <2>1, <2>2, <2>3, <2>4, <2>5, <2>6, <2>7, <2>8, MovesKeep DEF Relies
<1>2. CASE ~ ok
  BY <1>2, ErrorsKeep DEF Claim, TakeClaim, Ended
<1> QED
  BY <1>1, <1>2

\* restore_stream_inner claims its device anew.
LEMMA ReopenKeeps ==
  ASSUME RestoreInv, NEW p \in Procs, Reopen(p)
  PROVE  RestoreInv'
<1> DEFINE ok == ExclusiveOpens(path) /\ Facts(path) = Token(p).target /\ Preflight(path)
           kept == [job[p] EXCEPT !.fd = path]
<1>1. CASE ok
  <2>1. /\ step[p] = "reopen" /\ step' = [step EXCEPT ![p] = "before"]
        /\ job' = [job EXCEPT ![p] = kept] /\ claim' = [claim EXCEPT ![path] = p]
        /\ UNCHANGED <<envVars, diskVars, keyVars, late>>
    BY <1>1 DEF Reopen, TakeClaim, Go, Keep
  <2>2. /\ step'[p] = "before" /\ job'[p] = kept /\ JobShaped(job[p]) /\ Relies(p)
        /\ path \in Targets /\ claim[path] = None
        /\ image' = image /\ image.kind = "stream"
    BY <1>1, <2>1, KindOfStep DEF RestoreInv, RestoreType, ExclusiveOpens, envVars
  <2>3. /\ JobShaped(kept) /\ kept.at = job[p].at /\ kept.token = job[p].token
        /\ kept.user = job[p].user
    BY <2>2 DEF JobShaped
  <2>4. Moves(p)
    BY <2>1, <2>2 DEF Moves, RestoreInv, RestoreType
  <2>5. InHand(p)' /\ Approved(p)' /\ TargetHeld(p)' /\ RootHeld(p)'
    BY <2>1, <2>2, <2>3 DEF Relies, InHand, Working, Token, keyVars, Approved, Admitted, TargetHeld,
       OwnDevice, RootHeld
  <2>6. MountHeld(p)' /\ MembersHeld(p)' /\ Undisturbed(p)' /\ ChunksWritten(p)'
    BY <2>1, <2>2, <2>3 DEF Relies, MountHeld, MembersHeld, Working, Token, Compared, Undisturbed,
       Verified, ChunksWritten
  <2>7. WritesLast(p)'
    BY <2>1, <2>2 DEF Relies, WritesLast, Ended, diskVars
  <2>8. step'[p] \in StepsOf(image.kind) /\ job'[p].at \in Nat \ {0}
    BY <2>1, <2>2, <2>3, KindOfStep DEF StepsOf, Common, RestoreInv, RestoreType
  <2> QED
    BY <2>1, <2>2, <2>3, <2>4, <2>5, <2>6, <2>7, <2>8, MovesKeep DEF Relies
<1>2. CASE ~ ok
  BY <1>2, ErrorsKeep DEF Reopen, TakeClaim, Ended
<1> QED
  BY <1>1, <1>2

-----------------------------------------------------------------------------
(***************************************************************************)
(* The end of a restore.                                                   *)
(***************************************************************************)
\* However a program ends: it keeps its job, drops its claims, a stream restore
\* unmounts what it made, and a spent or pruned record is the only other trace.
Ends(p) ==
  /\ step[p] \notin {"boot", "keyless"}
  /\ step' = [step EXCEPT ![p] = step'[p]] /\ step'[p] \in Ended
  /\ step'[p] = "failed" => p \in late
  /\ claim' = Unclaimed(p)
  /\ \/ mounted' = mounted
     \/ image.kind = "stream" /\ step[p] = "write" /\ mounted' = mounted \ {job[p].fd}
  /\ consumed' \in {consumed, Pruned}
  /\ UNCHANGED <<image, store, damaged, path, events, now, content, touched, keyfile, tokens,
                 admitted, secret, late, job>>

\* A record that is pruned is of no use to anybody: its token has expired.
LEMMA PrunedKeepsValid ==
  ASSUME RestoreInv, NEW a \in admitted, now <= a.token.expires
  PROVE  UseRecord(a.token) \in Pruned
<1>1. UseRecord(a.token) \in consumed /\ a.token.expires \in Nat /\ now \in Nat
  BY DEF RestoreInv, RestoreType, AdmissionsRecorded, TokensBind
<1>2. UseRecord(a.token)[1] = a.token.expires
  BY DEF UseRecord
<1> QED
  BY <1>1, <1>2 DEF Pruned

\* An end keeps the invariant.
LEMMA EndsKeep ==
  ASSUME RestoreInv, NEW p \in Procs, Ends(p)
  PROVE  RestoreInv'
<1>1. Alone(p)
  <2>1. \A d \in Targets : claim[d] \notin {None, p} => claim'[d] = claim[d]
    BY DEF Ends, Unclaimed, RestoreInv, RestoreType
  <2>2. ASSUME NEW q \in Procs \ {p}, OnDevice, step[q] = "write", image.kind = "stream"
        PROVE  job[q].fd \in mounted'
    <3>1. job[q].fd \in mounted
      BY <2>2 DEF RestoreInv, Relies, MountHeld
    <3>2. step[p] = "write" => job[q].fd # job[p].fd
      BY <2>2 DEF RestoreInv, MountsApart
    <3> QED
      BY <3>1, <3>2 DEF Ends
  <2>3. job' = [job EXCEPT ![p] = job'[p]]
    BY DEF Ends, RestoreInv, RestoreType
  <2> QED
    BY <2>1, <2>2, <2>3 DEF Ends, Alone
<1>2. step'[p] \in Ended /\ job'[p] = job[p] /\ touched' = touched /\ Relies(p)
  BY DEF Ends, RestoreInv
<1>3. Relies(p)'
  <2>1. WritesLast(p)'
    BY <1>2 DEF Ends, Relies, WritesLast
  <2> QED
    BY <1>2, <2>1 DEF Relies, InHand, Working, Approved, Admitted, TargetHeld, Claimed, RootHeld,
        MountHeld, MembersHeld, Compared, Undisturbed, Verified, ChunksWritten, Ended
<1>4. RestoreType'
  <2>1. claim' \in [Targets -> Procs \cup {None}]
    BY DEF Ends, Unclaimed, RestoreInv, RestoreType
  <2>2. step' \in [Procs -> Steps] /\ \A q \in Procs : step'[q] \in StepsOf(image.kind)
    BY DEF Ends, RestoreInv, RestoreType, Steps, StepsOf, Common
  <2> QED
    BY <2>1, <2>2 DEF Ends, RestoreInv, RestoreType, JobShaped
<1>5. KeysKnown' /\ TokensBind'
  BY DEF Ends, RestoreInv, RestoreType, KeysKnown, KeysAgree, TokensBind, TokenShaped, Members
<1>6. AdmissionsRecorded'
  BY PrunedKeepsValid DEF Ends, RestoreInv, AdmissionsRecorded, UseRecord
<1>7. AdmittedOnceWhileValid' /\ OnlyTheBoundImage'
  BY DEF Ends, RestoreInv, AdmittedOnceWhileValid, OnlyTheBoundImage
<1>8. MountsApart'
  <2> SUFFICES ASSUME NEW q \in Procs, NEW r \in Procs, image'.kind = "stream",
                      step'[q] = "write", step'[r] = "write", job'[q].fd = job'[r].fd
               PROVE  q = r
    BY DEF MountsApart
  <2>1. step[q] = "write" /\ step[r] = "write"
    BY DEF Ends, RestoreInv, RestoreType, Ended
  <2> QED
    BY <2>1 DEF Ends, RestoreInv, MountsApart
<1> QED
  BY <1>1, <1>3, <1>4, <1>5, <1>6, <1>7, <1>8, OthersRely DEF RestoreInv

\* A chunk the image stores is stored in one of its members.
LEMMA HolderIsMember ==
  ASSUME NEW c \in Chunks, Layout[c] >= 1
  PROVE  Holder(c) \in Members
<1>1. Layout[c] \in {-1, 0} \cup 1..ChainLength
  BY RestoreAssumption DEF Chunks, Unused, Zero
<1> QED
  BY <1>1, RestoreAssumption DEF Holder, Members

\* A write fails only over a change that came after the verification.
LEMMA FailsLate ==
  ASSUME RestoreInv, NEW p \in Procs, WriteChunkFails(p)
  PROVE  p \in late
<1> DEFINE c == job[p].at
           h == Holder(job[p].at)
<1> SUFFICES ASSUME p \notin late PROVE FALSE
  OBVIOUS
<1>1. step[p] = "write" /\ c \in Chunks /\ Layout[c] >= 1 /\ ~ChunkReads(p, c) /\ Relies(p)
  BY DEF WriteChunkFails, RestoreInv
<1>2. h \in Members
  BY <1>1, HolderIsMember
<1>3. step[p] \in Compared(image.kind) /\ step[p] \in Verified
  BY <1>1, KindOfStep DEF Compared, Verified
<1>4. PayloadsGood /\ Identities = Token(p).members /\ job[p].opened = Token(p).members
  BY <1>1, <1>3 DEF Relies, Undisturbed, MembersHeld
<1>5. job[p].chunks = Identities
  BY <1>1, <1>3, <1>4 DEF Relies, Undisturbed, MembersHeld
<1>6. Identities[h] = store[h]
  BY <1>2 DEF Identities
<1>7. ChunkFile(p, c) = store[h]
  BY <1>5, <1>6 DEF ChunkFile
<1>8. <<h, store[h]>> \notin damaged
  BY <1>2, <1>4 DEF PayloadsGood
<1>9. ChunkReads(p, c)
  BY <1>4, <1>6, <1>7, <1>8 DEF ChunkReads
<1> QED
  BY <1>1, <1>9

\* The ways a program ends.
LEMMA EndingsKeep ==
  ASSUME RestoreInv, NEW p \in Procs,
         \/ WriteChunkFails(p) \/ TargetFails(p) \/ FinishWriting(p) \/ Cancelled(p) \/ Killed(p)
         \/ RedeemRefused(p) \/ MakeFilesystemFails(p)
  PROVE  RestoreInv'
<1>0. step = [q \in Procs |-> step[q]]
  BY DEF RestoreInv, RestoreType
<1>1. CASE WriteChunkFails(p)
  <2>1. p \in late
    BY <1>1, FailsLate
  <2>2. Ends(p)
    BY <1>0, <1>1, <2>1 DEF WriteChunkFails, DropMount, Ends, Ended, Go, diskVars, keyVars
  <2> QED
    BY <2>2, EndsKeep
<1>2. CASE FinishWriting(p)
  <2>1. Ends(p)
    BY <1>0, <1>2 DEF FinishWriting, DropMount, Ends, Ended, Go, keyVars
  <2> QED
    BY <2>1, EndsKeep
<1>3. CASE Cancelled(p)
  <2>1. Ends(p)
    BY <1>0, <1>3 DEF Cancelled, Cancellable, DropMount, Ends, Ended, Go, diskVars, keyVars
  <2> QED
    BY <2>1, EndsKeep
<1>4. CASE Killed(p)
  <2>1. Ends(p)
    BY <1>0, <1>4 DEF Killed, Working, Ends, Ended, Go, envVars, diskVars, keyVars
  <2> QED
    BY <2>1, EndsKeep
<1>5. CASE RedeemRefused(p)
  <2>1. Ends(p)
    BY <1>0, <1>5 DEF RedeemRefused, Ends, Ended, Go, envVars, diskVars
  <2> QED
    BY <2>1, EndsKeep
<1>6. CASE MakeFilesystemFails(p)
  BY <1>6, ErrorsKeep DEF MakeFilesystemFails, Ended
<1>7. CASE TargetFails(p)
  <2>1. Ends(p)
    BY <1>0, <1>7 DEF TargetFails, DropMount, Ends, Ended, Go, diskVars, keyVars
  <2> QED
    BY <2>1, EndsKeep
<1> QED
  BY <1>1, <1>2, <1>3, <1>4, <1>5, <1>6, <1>7

-----------------------------------------------------------------------------
(***************************************************************************)
(* The key, the token and its admission.                                   *)
(***************************************************************************)
\* A program that finds a key takes it, and one that finds none names its own unless another did.
LEMMA KeyKeeps ==
  ASSUME RestoreInv, NEW p \in Procs, LoadKey(p) \/ PersistKey(p)
  PROVE  RestoreInv'
<1>1. /\ step[p] \in {"boot", "keyless"} /\ step'[p] \in {"boot", "keyless", "idle"}
      /\ step' = [step EXCEPT ![p] = step'[p]]
      /\ UNCHANGED <<image, store, damaged, path, mounted, filled, now, events, content, flushed,
                     touched, tokens, consumed, admitted, claim, late, job>>
  BY DEF LoadKey, KeyReads, PersistKey, Go, RestoreInv, RestoreType, envVars, diskVars
<1>2. Alone(p)
  BY <1>1 DEF Alone, RestoreInv, RestoreType, Relies, MountHeld
<1>3. KeysKnown' /\ keyfile' \in Procs \cup {None} /\ secret' \in [Procs -> Procs \cup {None}]
  <2>1. CASE LoadKey(p)
    <3>1. CASE keyfile = None
      BY <2>1, <3>1 DEF LoadKey, KeyReads, Go, RestoreInv, RestoreType, KeysKnown, KeysAgree
    <3>2. CASE keyfile # None
      <4>1. step' = [step EXCEPT ![p] = "idle"] /\ secret' = [secret EXCEPT ![p] = keyfile]
        BY <2>1, <3>2 DEF LoadKey, KeyReads, Go
      <4>2. keyfile' = keyfile
        BY <2>1 DEF LoadKey, KeyReads
      <4> QED
        BY <3>2, <4>1, <4>2 DEF RestoreInv, RestoreType, KeysKnown, KeysAgree
    <3> QED
      BY <3>1, <3>2
  <2>2. CASE PersistKey(p)
    BY <2>2, RestoreAssumption DEF PersistKey, KeyReads, Go, RestoreInv, RestoreType, KeysKnown,
       KeysAgree
  <2> QED
    BY <2>1, <2>2
<1>4. RestoreType'
  <2>1. step' \in [Procs -> Steps] /\ \A q \in Procs : step'[q] \in StepsOf(image.kind)
    BY <1>1 DEF RestoreInv, RestoreType, Steps, StepsOf, Common
  <2> QED
    BY <1>1, <1>3, <2>1 DEF RestoreInv, RestoreType, JobShaped
<1>5. TokensBind' /\ AdmissionsRecorded'
  BY <1>1 DEF RestoreInv, TokensBind, TokenShaped, Members, AdmissionsRecorded, UseRecord
<1>6. AdmittedOnceWhileValid' /\ OnlyTheBoundImage'
  BY <1>1 DEF RestoreInv, AdmittedOnceWhileValid, OnlyTheBoundImage
<1>7. MountsApart'
  <2>1. \A q \in Procs : step'[q] = "write" => step[q] = "write"
    BY <1>1 DEF RestoreInv, RestoreType
  <2> QED
    BY <1>1, <2>1 DEF RestoreInv, MountsApart
<1>8. Relies(p)'
  <2>1. \A d \in Targets : <<p, d>> \notin touched'
    BY <1>1 DEF RestoreInv, Relies, WritesLast, Ended
  <2> QED
    BY <1>1, <2>1 DEF Relies, InHand, Working, Approved, Admitted, TargetHeld, Claimed, RootHeld,
        MountHeld, MembersHeld, Compared, Undisturbed, Verified, ChunksWritten, WritesLast
<1> QED
  BY <1>2, <1>3, <1>4, <1>5, <1>6, <1>7, <1>8, OthersRely DEF RestoreInv

\* A new token binds the members as they are now.
LEMMA PrepareKeeps ==
  ASSUME RestoreInv, NEW p \in Procs, NEW u \in TokenUsers, NEW merge \in BOOLEAN, Prepare(p, u, merge)
  PROVE  RestoreInv'
<1> DEFINE t == [nonce |-> Cardinality(tokens) + 1, key |-> secret[p],
                 uid |-> u, expires |-> now + Ttl, members |-> Identities,
                 target |-> Facts(path), merge |-> merge]
<1>1. /\ tokens' = tokens \cup {t}
      /\ UNCHANGED <<image, store, damaged, path, mounted, filled, now, events, content, flushed,
                     touched, keyfile, secret, consumed, admitted, claim, late, step, job>>
  BY DEF Prepare, envVars, diskVars
<1>2. Alone(p)
  BY <1>1 DEF Alone, RestoreInv, RestoreType, Relies, MountHeld
<1>3. TokenShaped(t) /\ t.expires \in Nat /\ t.members = Identities
  BY RestoreAssumption DEF TokenShaped, RestoreInv, RestoreType
<1>4. Members \subseteq 1..ChainLength
  BY RestoreAssumption DEF Members
<1>5. Identities \in [Members -> Nat] /\ \A m \in Members : Identities[m] <= store[m]
  BY <1>4 DEF Identities, RestoreInv, RestoreType
<1> HIDE DEF t
<1>6. TokensBind'
  BY <1>1, <1>3, <1>5 DEF RestoreInv, TokensBind, TokenShaped, Members
<1>7. RestoreType' /\ KeysKnown'
  BY <1>1 DEF RestoreInv, RestoreType, JobShaped, KeysKnown, KeysAgree
<1>8. AdmissionsRecorded' /\ AdmittedOnceWhileValid'
  BY <1>1 DEF RestoreInv, AdmissionsRecorded, UseRecord, AdmittedOnceWhileValid
<1>9. OnlyTheBoundImage' /\ MountsApart'
  BY <1>1 DEF RestoreInv, OnlyTheBoundImage, MountsApart
<1>10. Relies(p)'
  <2>1. Relies(p) /\ Token(p)' = Token(p)
    BY <1>1 DEF RestoreInv, Token
  <2>2. InHand(p)' /\ Approved(p)' /\ TargetHeld(p)' /\ RootHeld(p)' /\ MountHeld(p)'
    BY <1>1, <2>1 DEF Relies, InHand, Working, Approved, TargetHeld, OwnDevice, RootHeld, MountHeld
  <2>3. MembersHeld(p)' /\ Undisturbed(p)'
    BY <1>1, <2>1 DEF Relies, MembersHeld, Working, Members, Undisturbed, PayloadsGood, Identities
  <2>4. ChunksWritten(p)' /\ WritesLast(p)'
    BY <1>1, <2>1 DEF Relies, ChunksWritten, OnDevice, Holder, WritesLast
  <2> QED
    BY <2>2, <2>3, <2>4 DEF Relies
<1> QED
  BY <1>2, <1>6, <1>7, <1>8, <1>9, <1>10, OthersRely DEF RestoreInv

\* A token that verifies was issued: an edited one is not signed with the key.
LEMMA ValidWasIssued ==
  ASSUME RestoreInv, NEW p \in Procs, step[p] = "idle", NEW t \in Presented, Valid(p, t)
  PROVE  t \in tokens
<1>0. t \in tokens \/ \E s \in tokens, u \in TokenUsers : t = Edited(s, u)
  BY DEF Presented
<1> SUFFICES ASSUME NEW s \in tokens, NEW u \in TokenUsers, t = Edited(s, u)
             PROVE  FALSE
  BY <1>0
<1>1. TokenShaped(s)
  BY DEF RestoreInv, TokensBind
<1>2. t.key = None
  BY <1>1 DEF TokenShaped, Edited
<1>3. secret[p] # None
  BY DEF RestoreInv, KeysKnown
<1> QED
  BY <1>2, <1>3 DEF Valid

\* apply_restore begins with an issued token, and with nothing written.
LEMMA BeginKeeps ==
  ASSUME RestoreInv, NEW p \in Procs, NEW t \in Presented, NEW u \in TokenUsers, NEW a \in BOOLEAN,
         Begin(p, t, u, TRUE, a)
  PROVE  RestoreInv'
<1> DEFINE kept == JobOf(t, u, a)
<1>1. /\ step[p] = "idle" /\ step' = [step EXCEPT ![p] = "image"]
      /\ job' = [job EXCEPT ![p] = kept]
      /\ UNCHANGED <<envVars, diskVars, keyVars, claim, late>>
  BY DEF Begin, Go, Keep
<1>2. JobShaped(kept) /\ kept.token = t /\ kept.at = 1
  BY DEF JobShaped, JobOf
<1> HIDE DEF kept
<1>3. step'[p] = "image" /\ job'[p] = kept /\ Relies(p)
  BY <1>1 DEF RestoreInv, RestoreType
<1>4. t \in tokens
  BY <1>1, ValidWasIssued DEF Begin
<1>5. Moves(p)
  BY <1>1, <1>3 DEF Moves, RestoreInv, RestoreType
<1>6. \A d \in Targets : <<p, d>> \notin touched'
  BY <1>1, <1>3 DEF Relies, WritesLast, Ended, diskVars
<1>7. InHand(p)' /\ Approved(p)' /\ TargetHeld(p)' /\ RootHeld(p)' /\ MountHeld(p)'
  BY <1>1, <1>2, <1>3, <1>4 DEF InHand, Token, keyVars, Approved, Admitted, TargetHeld, Claimed,
     RootHeld, MountHeld
<1>8. MembersHeld(p)' /\ Undisturbed(p)' /\ ChunksWritten(p)' /\ WritesLast(p)'
  BY <1>3, <1>6 DEF MembersHeld, Compared, Undisturbed, Verified, ChunksWritten, WritesLast
<1>9. step'[p] \in StepsOf(image.kind)
  BY <1>3 DEF StepsOf, Common
<1> QED
  BY <1>1, <1>2, <1>3, <1>5, <1>7, <1>8, <1>9, MovesKeep DEF Relies

\* The record of the first use excludes a second one while the token is valid.
LEMMA RedeemKeeps ==
  ASSUME RestoreInv, NEW p \in Procs, Redeem(p)
  PROVE  RestoreInv'
<1> DEFINE new == [proc |-> p, token |-> Token(p), at |-> now]
<1>1. /\ step[p] = "redeem" /\ step' = [step EXCEPT ![p] = AfterRedeem]
      /\ job[p].user = Token(p).uid /\ FirstUse(Token(p))
      /\ consumed' = Pruned \cup {UseRecord(Token(p))}
      /\ admitted' = admitted \cup {new}
      /\ claim' = IF image.kind = "stream" THEN Unclaimed(p) ELSE claim
      /\ UNCHANGED <<image, store, damaged, path, mounted, filled, now, events, content, flushed,
                     touched, keyfile, tokens, secret, late, job>>
  BY DEF Redeem, Go, envVars, diskVars
<1>2. /\ step'[p] = AfterRedeem /\ Token(p)' = Token(p) /\ Relies(p) /\ Token(p) \in tokens
      /\ job[p].at = 1
  BY <1>1 DEF RestoreInv, RestoreType, Token, Relies, InHand, Working
<1>3. new.proc = p /\ new.token = Token(p) /\ new.at = now
  OBVIOUS
<1> HIDE DEF new
<1>4. /\ image.kind = "stream" => AfterRedeem = "reopen"
      /\ image.kind = "file" => AfterRedeem = "start"
      /\ OwnDevice => AfterRedeem = "before"
      /\ image.kind = "stream" \/ image.kind = "file" \/ OwnDevice
  BY KindOfStep DEF AfterRedeem, OwnDevice
<1>5. claim' \in [Targets -> Procs \cup {None}]
      /\ \A d \in Targets : claim[d] \notin {None, p} => claim'[d] = claim[d]
  BY <1>1 DEF Unclaimed, RestoreInv, RestoreType
<1>6. Alone(p)
  BY <1>1, <1>2, <1>5 DEF Alone, RestoreInv, RestoreType, Relies, MountHeld
<1>7. RestoreType' /\ KeysKnown' /\ TokensBind'
  <2>1. step' \in [Procs -> Steps] /\ \A q \in Procs : step'[q] \in StepsOf(image.kind)
    BY <1>1, <1>2, <1>4 DEF RestoreInv, RestoreType, Steps, StepsOf, Common, OwnDevice
  <2>2. RestoreType'
    BY <1>1, <1>5, <2>1 DEF RestoreInv, RestoreType, JobShaped
  <2>3. KeysKnown' /\ TokensBind'
    BY <1>1 DEF RestoreInv, RestoreType, KeysKnown, KeysAgree, TokensBind, TokenShaped, Members
  <2> QED
    BY <2>2, <2>3
<1>8. AdmissionsRecorded'
  <2> SUFFICES ASSUME NEW a \in admitted'
               PROVE  /\ a.token \in tokens /\ a.at \in Nat /\ a.at <= now
                      /\ now <= a.token.expires => UseRecord(a.token) \in consumed'
    BY <1>1 DEF AdmissionsRecorded, UseRecord
  <2>1. CASE a \in admitted
    BY <1>1, <2>1, PrunedKeepsValid DEF RestoreInv, AdmissionsRecorded
  <2>2. CASE a = new
    BY <1>1, <1>2, <1>3, <2>2 DEF RestoreInv, RestoreType
  <2> QED
    BY <1>1, <2>1, <2>2
<1>9. AdmittedOnceWhileValid'
  <2>0. now \in Nat /\ Token(p).expires \in Nat
    BY <1>2 DEF RestoreInv, RestoreType, TokensBind
  <2>1. ASSUME NEW b \in admitted, b.token = Token(p), now <= Token(p).expires
        PROVE  FALSE
    BY <1>1, <2>1, PrunedKeepsValid DEF FirstUse
  <2> SUFFICES ASSUME NEW a \in admitted', NEW b \in admitted', a.token = b.token,
                      a.at <= a.token.expires, b.at <= b.token.expires
               PROVE  a = b
    BY DEF AdmittedOnceWhileValid
  <2>2. CASE a \in admitted /\ b \in admitted
    BY <2>2 DEF RestoreInv, AdmittedOnceWhileValid
  <2>3. CASE a = new /\ b \in admitted
    BY <1>3, <2>1, <2>3
  <2>4. CASE b = new /\ a \in admitted
    BY <1>3, <2>1, <2>4
  <2> QED
    BY <1>1, <2>2, <2>3, <2>4
<1>10. OnlyTheBoundImage'
  BY <1>1 DEF RestoreInv, OnlyTheBoundImage
<1>11. MountsApart'
  <2>1. \A q \in Procs : step'[q] = "write" => step[q] = "write"
    BY <1>1, <1>2, <1>4 DEF RestoreInv, RestoreType
  <2> QED
    BY <1>1, <2>1 DEF RestoreInv, MountsApart
<1>12. Relies(p)'
  <2>1. InHand(p)' /\ Approved(p)'
    BY <1>1, <1>2, <1>3 DEF InHand, Approved
  <2>2. TargetHeld(p)'
    <3>1. ASSUME OwnDevice PROVE TargetHeld(p) /\ image.kind # "stream" /\ claim' = claim
      BY <1>1, <1>2, <3>1 DEF OwnDevice, Relies
    <3> QED
      BY <1>1, <1>2, <3>1 DEF TargetHeld, Claimed, OwnDevice
  <2>3. RootHeld(p)' /\ MountHeld(p)'
    BY <1>1, <1>2, <1>4 DEF RootHeld, MountHeld
  <2>4. MembersHeld(p)'
    BY <1>1, <1>2, <1>4 DEF Relies, MembersHeld, Working, Compared, OwnDevice
  <2>5. Undisturbed(p)' /\ ChunksWritten(p)'
    BY <1>2, <1>4 DEF Undisturbed, Verified, Compared, ChunksWritten, OwnDevice
  <2>6. WritesLast(p)'
    BY <1>1, <1>2, <1>4 DEF Relies, WritesLast, Ended
  <2> QED
    BY <2>1, <2>2, <2>3, <2>4, <2>5, <2>6 DEF Relies
<1> QED
  BY <1>6, <1>7, <1>8, <1>9, <1>10, <1>11, <1>12, OthersRely DEF RestoreInv

-----------------------------------------------------------------------------
(***************************************************************************)
(* Writing.                                                                *)
(***************************************************************************)
\* mkfs.btrfs takes a device nobody holds and nothing mounts.
LEMMA MakeFilesystemKeeps ==
  ASSUME RestoreInv, NEW p \in Procs, MakeFilesystem(p)
  PROVE  RestoreInv'
<1> DEFINE kept == [job[p] EXCEPT !.fd = path]
<1>1. /\ step[p] = "mkfs" /\ step' = [step EXCEPT ![p] = "write"]
      /\ path \notin mounted /\ claim[path] \in {None, p}
      /\ claim' = Unclaimed(p)
      /\ content' = [content EXCEPT ![path] = [c \in Chunks |-> <<"empty", c>>]]
      /\ touched' = touched \cup {<<p, path>>} /\ mounted' = mounted \cup {path}
      /\ job' = [job EXCEPT ![p] = kept]
      /\ UNCHANGED <<image, store, damaged, path, now, events, keyfile, tokens, consumed, admitted,
                     secret, late>>
  BY DEF MakeFilesystem, Go, Keep, keyVars
<1>2. /\ step'[p] = "write" /\ job'[p] = kept /\ JobShaped(job[p]) /\ Relies(p)
      /\ path \in Targets /\ image.kind = "stream"
  BY <1>1, KindOfStep DEF RestoreInv, RestoreType
<1>3. /\ JobShaped(kept) /\ kept.at = job[p].at /\ kept.token = job[p].token /\ kept.fd = path
      /\ kept.opened = job[p].opened /\ kept.chunks = job[p].chunks /\ kept.user = job[p].user
  BY <1>2 DEF JobShaped
<1> HIDE DEF kept
<1>4. ASSUME NEW q \in Procs \ {p}, step[q] = "write" PROVE job[q].fd \in mounted
  BY <1>2, <1>4 DEF RestoreInv, Relies, MountHeld
<1>5. /\ claim' \in [Targets -> Procs \cup {None}]
      /\ \A d \in Targets : claim[d] \notin {None, p} => claim'[d] = claim[d]
  BY <1>1 DEF Unclaimed, RestoreInv, RestoreType
<1>6. content' = [d \in Targets |-> IF d = path THEN [c \in Chunks |-> <<"empty", c>>]
                                    ELSE content[d]]
  BY <1>1 DEF RestoreInv, RestoreType
<1>7. Alone(p)
  <2>1. ASSUME NEW q \in Procs \ {p}, OnDevice, step[q] = "write"
        PROVE  /\ \A c \in Chunks : content'[job[q].fd][c] = content[job[q].fd][c]
               /\ image.kind = "stream" => job[q].fd \in mounted'
    <3>1. job[q].fd \in Targets \cap mounted
      BY <1>2, <2>1 DEF RestoreInv, Relies, MountHeld
    <3> QED
      BY <1>1, <1>6, <3>1
  <2> QED
    BY <1>1, <1>2, <1>5, <2>1 DEF Alone
<1>8. RestoreType'
  <2>1. step' \in [Procs -> Steps] /\ \A q \in Procs : step'[q] \in StepsOf(image.kind)
    BY <1>1, <1>2 DEF RestoreInv, RestoreType, Steps, StepsOf, Common
  <2>2. /\ job' = [q \in Procs |-> job'[q]]
        /\ \A q \in Procs : JobShaped(job'[q]) /\ job'[q].at \in Nat \ {0}
    BY <1>1, <1>2, <1>3 DEF RestoreInv, RestoreType
  <2>3. content' = [d \in Targets |-> [c \in Chunks |-> content'[d][c]]]
    BY <1>6 DEF RestoreInv, RestoreType
  <2> QED
    BY <1>1, <1>5, <2>1, <2>2, <2>3 DEF RestoreInv, RestoreType, JobShaped
<1>9. KeysKnown' /\ TokensBind' /\ AdmissionsRecorded' /\ AdmittedOnceWhileValid'
  <2>1. KeysKnown'
    BY <1>1 DEF RestoreInv, RestoreType, KeysKnown, KeysAgree
  <2>2. TokensBind' /\ AdmissionsRecorded'
    BY <1>1 DEF RestoreInv, TokensBind, TokenShaped, Members, AdmissionsRecorded, UseRecord
  <2>3. AdmittedOnceWhileValid'
    BY <1>1 DEF RestoreInv, AdmittedOnceWhileValid
  <2> QED
    BY <2>1, <2>2, <2>3
<1>10. OnlyTheBoundImage'
  <2> SUFFICES ASSUME NEW d \in Targets, NEW c \in Chunks, content'[d][c][1] = "image"
               PROVE  \E t \in tokens : t.members[content'[d][c][2]] = content'[d][c][3]
    BY <1>1 DEF OnlyTheBoundImage
  <2>1. d # path
    BY <1>6
  <2>2. content'[d] = content[d]
    BY <1>6, <2>1
  <2> QED
    BY <2>2 DEF RestoreInv, OnlyTheBoundImage
<1>11. MountsApart'
  <2> SUFFICES ASSUME NEW q \in Procs, NEW r \in Procs, step'[q] = "write", step'[r] = "write",
                      job'[q].fd = job'[r].fd, q # r
               PROVE  FALSE
    BY DEF MountsApart
  <2>1. \A s \in Procs \ {p} : step'[s] = step[s] /\ job'[s] = job[s]
    BY <1>1 DEF RestoreInv, RestoreType
  <2>2. CASE q = p \/ r = p
    BY <1>1, <1>2, <1>3, <1>4, <2>1, <2>2
  <2>3. CASE q # p /\ r # p
    BY <1>2, <2>1, <2>3 DEF RestoreInv, MountsApart
  <2> QED
    BY <2>2, <2>3
<1>12. Relies(p)'
  <2>1. Token(p)' = Token(p) /\ job'[p].at = 1
    BY <1>1, <1>2, <1>3 DEF Token, Relies, InHand, Working
  <2>2. InHand(p)' /\ Approved(p)'
    BY <1>1, <1>2, <1>3, <2>1 DEF Relies, InHand, Working, Approved, Admitted
  <2>3. TargetHeld(p)' /\ RootHeld(p)' /\ MountHeld(p)'
    BY <1>1, <1>2, <1>3 DEF TargetHeld, OwnDevice, RootHeld, MountHeld
  <2>4. MembersHeld(p)' /\ Undisturbed(p)'
    BY <1>1, <1>2, <1>3, <2>1 DEF Relies, MembersHeld, Compared, Working, Members, Undisturbed,
       Verified, PayloadsGood, Identities
  <2>5. ChunksWritten(p)'
    BY <2>1 DEF ChunksWritten, Chunks
  <2>6. WritesLast(p)'
    BY <1>1, <1>2 DEF WritesLast
  <2> QED
    BY <2>2, <2>3, <2>4, <2>5, <2>6 DEF Relies
<1> QED
  BY <1>7, <1>8, <1>9, <1>10, <1>11, <1>12, OthersRely DEF RestoreInv

\* A file system that could not be made or mounted takes nothing from anybody else.
LEMMA MakeFilesystemBreaksKeeps ==
  ASSUME RestoreInv, NEW p \in Procs, MakeFilesystemBreaks(p)
  PROVE  RestoreInv'
<1>1. /\ step[p] = "mkfs" /\ step' = [step EXCEPT ![p] = "broken"]
      /\ path \notin mounted /\ claim[path] \in {None, p} /\ claim' = Unclaimed(p)
      /\ content' = [content EXCEPT ![path] = [c \in Chunks |-> <<"empty", c>>]]
      /\ touched' = touched \cup {<<p, path>>}
      /\ UNCHANGED <<image, store, damaged, path, mounted, now, events, keyfile, tokens, consumed,
                     admitted, secret, late, job>>
  BY DEF MakeFilesystemBreaks, Go, keyVars, envVars
<1>2. /\ step'[p] = "broken" /\ Relies(p) /\ path \in Targets /\ image.kind = "stream"
  BY <1>1, KindOfStep DEF RestoreInv, RestoreType
<1>3. /\ claim' \in [Targets -> Procs \cup {None}]
      /\ \A d \in Targets : claim[d] \notin {None, p} => claim'[d] = claim[d]
  BY <1>1 DEF Unclaimed, RestoreInv, RestoreType
<1>4. content' = [d \in Targets |-> IF d = path THEN [c \in Chunks |-> <<"empty", c>>]
                                    ELSE content[d]]
  BY <1>1 DEF RestoreInv, RestoreType
<1>5. Alone(p)
  <2>1. ASSUME NEW q \in Procs \ {p}, OnDevice, step[q] = "write"
        PROVE  /\ \A c \in Chunks : content'[job[q].fd][c] = content[job[q].fd][c]
               /\ image.kind = "stream" => job[q].fd \in mounted'
    <3>1. job[q].fd \in Targets \cap mounted
      BY <1>2, <2>1 DEF RestoreInv, Relies, MountHeld
    <3> QED
      BY <1>1, <1>4, <3>1
  <2>2. job' = [job EXCEPT ![p] = job'[p]]
    BY <1>1 DEF RestoreInv, RestoreType
  <2> QED
    BY <1>1, <1>2, <1>3, <2>1, <2>2 DEF Alone
<1>6. RestoreType'
  <2>1. step' \in [Procs -> Steps] /\ \A q \in Procs : step'[q] \in StepsOf(image.kind)
    BY <1>1, <1>2 DEF RestoreInv, RestoreType, Steps, StepsOf, Common, Ended
  <2>2. content' = [d \in Targets |-> [c \in Chunks |-> content'[d][c]]]
    BY <1>4 DEF RestoreInv, RestoreType
  <2> QED
    BY <1>1, <1>3, <2>1, <2>2 DEF RestoreInv, RestoreType, JobShaped
<1>7. KeysKnown' /\ TokensBind' /\ AdmissionsRecorded' /\ AdmittedOnceWhileValid'
  <2>1. KeysKnown'
    BY <1>1 DEF RestoreInv, RestoreType, KeysKnown, KeysAgree
  <2>2. TokensBind' /\ AdmissionsRecorded'
    BY <1>1 DEF RestoreInv, TokensBind, TokenShaped, Members, AdmissionsRecorded, UseRecord
  <2>3. AdmittedOnceWhileValid'
    BY <1>1 DEF RestoreInv, AdmittedOnceWhileValid
  <2> QED
    BY <2>1, <2>2, <2>3
<1>8. OnlyTheBoundImage'
  <2> SUFFICES ASSUME NEW d \in Targets, NEW c \in Chunks, content'[d][c][1] = "image"
               PROVE  \E t \in tokens : t.members[content'[d][c][2]] = content'[d][c][3]
    BY <1>1 DEF OnlyTheBoundImage
  <2>1. d # path
    BY <1>4
  <2>2. content'[d] = content[d]
    BY <1>4, <2>1
  <2> QED
    BY <2>2 DEF RestoreInv, OnlyTheBoundImage
<1>9. MountsApart'
  <2>1. \A q \in Procs : step'[q] = "write" => step[q] = "write" /\ job'[q] = job[q]
    BY <1>1 DEF RestoreInv, RestoreType
  <2> QED
    BY <1>1, <2>1 DEF RestoreInv, MountsApart
<1>10. Relies(p)'
  <2>1. WritesLast(p)'
    BY <1>1, <1>2 DEF WritesLast, Ended
  <2> QED
    BY <1>2, <2>1 DEF Relies, InHand, Working, Approved, Admitted, TargetHeld, Claimed, RootHeld,
        MountHeld, MembersHeld, Compared, Undisturbed, Verified, ChunksWritten
<1> QED
  BY <1>5, <1>6, <1>7, <1>8, <1>9, <1>10, OthersRely DEF RestoreInv

\* The target that is written to is one that nobody else writes to.
LEMMA WritesOwnDevice ==
  ASSUME RestoreInv, NEW p \in Procs, step[p] = "write"
  PROVE  /\ job[p].fd \in Targets
         /\ \A q \in Procs \ {p} : OnDevice /\ step[q] = "write" => job[q].fd # job[p].fd
<1>1. job[p].fd \in Targets
  BY KindOfStep DEF RestoreInv, Relies, TargetHeld, OwnDevice, Claimed, RootHeld, MountHeld
<1>2. ASSUME NEW q \in Procs \ {p}, OnDevice, step[q] = "write", job[q].fd = job[p].fd
      PROVE  FALSE
  <2>1. CASE image.kind = "stream"
    BY <1>2, <2>1 DEF RestoreInv, MountsApart
  <2>2. CASE OwnDevice
    <3>1. claim[job[q].fd] = q /\ claim[job[p].fd] = p
      BY <1>2, <2>2 DEF RestoreInv, Relies, TargetHeld, Claimed
    <3> QED
      BY <1>2, <3>1
  <2> QED
    BY <1>2, <2>1, <2>2, KindOfStep DEF OnDevice, OwnDevice
<1> QED
  BY <1>1, <1>2

\* A chunk that is read is the one of the bound member, and goes to the prepared target.
LEMMA WriteChunkKeeps ==
  ASSUME RestoreInv, NEW p \in Procs, WriteChunk(p)
  PROVE  RestoreInv'
<1> DEFINE c == job[p].at
           d == job[p].fd
           kept == [job[p] EXCEPT !.at = c + 1]
           put == Written(p, c)
<1>1. /\ step[p] = "write" /\ c \in Chunks /\ (Layout[c] >= 1 => ChunkReads(p, c))
      /\ content' = [content EXCEPT ![d][c] = put]
      /\ touched' = touched \cup {<<p, d>>} /\ job' = [job EXCEPT ![p] = kept]
      /\ UNCHANGED <<image, store, damaged, path, mounted, now, events, keyfile, tokens, consumed,
                     admitted, secret, claim, late, step>>
  BY DEF WriteChunk, Keep, keyVars
<1>2. job'[p] = kept /\ JobShaped(job[p]) /\ Relies(p) /\ job[p].at \in Nat \ {0}
  BY <1>1 DEF RestoreInv, RestoreType
<1>3. /\ JobShaped(kept) /\ kept.at = c + 1 /\ kept.token = job[p].token /\ kept.fd = d
      /\ kept.opened = job[p].opened /\ kept.chunks = job[p].chunks /\ kept.user = job[p].user
      /\ kept.facts = job[p].facts
  BY <1>2 DEF JobShaped
<1> HIDE DEF kept
<1>4. d \in Targets /\ \A q \in Procs \ {p} : OnDevice /\ step[q] = "write" => job[q].fd # d
  BY <1>1, WritesOwnDevice
<1>5. /\ content' = [e \in Targets |-> content'[e]]
      /\ \A e \in Targets \ {d} : content'[e] = content[e]
      /\ content'[d] = [content[d] EXCEPT ![c] = put]
  BY <1>1, <1>4 DEF RestoreInv, RestoreType
<1>6. /\ content'[d] = [i \in Chunks |-> content'[d][i]] /\ content'[d][c] = put
      /\ \A i \in Chunks \ {c} : content'[d][i] = content[d][i]
  <2>1. content[d] = [i \in Chunks |-> content[d][i]]
    BY <1>4 DEF RestoreInv, RestoreType
  <2> QED
    BY <1>1, <1>5, <2>1
<1>7. Token(p)' = Token(p) /\ Token(p) \in tokens
  BY <1>1, <1>2, <1>3 DEF Token, Relies, InHand, Working
<1>8. Layout[c] >= 1 => put = <<"image", Holder(c), Token(p).members[Holder(c)]>>
  <2> SUFFICES ASSUME Layout[c] >= 1
               PROVE  put = <<"image", Holder(c), Token(p).members[Holder(c)]>>
    OBVIOUS
  <2>1. Layout[c] \in {-1, 0} \cup 1..ChainLength /\ Layout[c] # -1 /\ Layout[c] # 0
    BY <1>1, RestoreAssumption DEF Chunks, Unused, Zero
  <2>2. put = <<"image", Holder(c), ChunkFile(p, c)>>
    BY <2>1 DEF Written, Unused, Zero
  <2>3. job[p].opened = Token(p).members
    BY <1>1, <1>2, KindOfStep DEF Relies, MembersHeld, Compared
  <2> QED
    BY <1>1, <2>2, <2>3 DEF ChunkReads
<1>9. Layout[c] < 1 => put[1] # "image" \/ put = content[d][c]
  <2>1. Layout[c] \in {-1, 0} \cup 1..ChainLength
    BY <1>1, RestoreAssumption DEF Chunks, Unused, Zero
  <2>2. CASE Layout[c] = 0
    BY <2>2 DEF Written, Zero
  <2>3. CASE Layout[c] = -1
    BY <2>3 DEF Written, Zero, Unused
  <2> QED
    BY <2>1, <2>2, <2>3, RestoreAssumption
<1>10. Layout[c] >= 1 \/ Layout[c] < 1
  BY <1>1, RestoreAssumption DEF Chunks, Unused, Zero
<1> HIDE DEF put
<1>11. Alone(p)
  <2>1. ASSUME NEW q \in Procs \ {p}, OnDevice, step[q] = "write"
        PROVE  /\ \A i \in Chunks : content'[job[q].fd][i] = content[job[q].fd][i]
               /\ image.kind = "stream" => job[q].fd \in mounted'
    <3>1. job[q].fd \in Targets \ {d}
      BY <1>4, <2>1, WritesOwnDevice
    <3> QED
      BY <1>1, <1>5, <2>1, <3>1 DEF RestoreInv, Relies, MountHeld
  <2> QED
    BY <1>1, <1>2, <2>1 DEF Alone, RestoreInv, RestoreType
<1>12. RestoreType'
  <2>1. /\ job' = [q \in Procs |-> job'[q]]
        /\ \A q \in Procs : JobShaped(job'[q]) /\ job'[q].at \in Nat \ {0}
    BY <1>1, <1>2, <1>3 DEF RestoreInv, RestoreType
  <2>2. content' = [e \in Targets |-> [i \in Chunks |-> content'[e][i]]]
    <3>1. ASSUME NEW e \in Targets PROVE content'[e] = [i \in Chunks |-> content'[e][i]]
      <4>1. CASE e = d
        BY <1>6, <4>1
      <4>2. CASE e # d
        BY <1>5, <4>2 DEF RestoreInv, RestoreType
      <4> QED
        BY <4>1, <4>2
    <3> QED
      BY <1>5, <3>1
  <2> QED
    BY <1>1, <2>1, <2>2 DEF RestoreInv, RestoreType, JobShaped
<1>13. KeysKnown' /\ TokensBind' /\ AdmissionsRecorded' /\ AdmittedOnceWhileValid'
  <2>1. KeysKnown'
    BY <1>1 DEF RestoreInv, RestoreType, KeysKnown, KeysAgree
  <2>2. TokensBind' /\ AdmissionsRecorded'
    BY <1>1 DEF RestoreInv, TokensBind, TokenShaped, Members, AdmissionsRecorded, UseRecord
  <2>3. AdmittedOnceWhileValid'
    BY <1>1 DEF RestoreInv, AdmittedOnceWhileValid
  <2> QED
    BY <2>1, <2>2, <2>3
<1>14. OnlyTheBoundImage'
  <2> SUFFICES ASSUME NEW e \in Targets, NEW i \in Chunks, content'[e][i][1] = "image"
               PROVE  \E t \in tokens : t.members[content'[e][i][2]] = content'[e][i][3]
    BY <1>1 DEF OnlyTheBoundImage
  <2>1. CASE content'[e][i] = content[e][i]
    BY <2>1 DEF RestoreInv, OnlyTheBoundImage
  <2>2. CASE e = d /\ i = c /\ Layout[c] >= 1
    <3>1. content'[e][i] = <<"image", Holder(c), Token(p).members[Holder(c)]>>
      BY <1>6, <1>8, <2>2
    <3>2. content'[e][i][2] = Holder(c) /\ content'[e][i][3] = Token(p).members[Holder(c)]
      BY <3>1
    <3> QED
      BY <1>7, <3>2
  <2>3. CASE e = d /\ i = c /\ Layout[c] < 1
    BY <1>6, <1>9, <2>1, <2>3
  <2> QED
    BY <1>5, <1>6, <1>10, <2>1, <2>2, <2>3
<1>15. MountsApart'
  <2>1. \A q \in Procs : job'[q].fd = job[q].fd
    BY <1>1, <1>2, <1>3 DEF RestoreInv, RestoreType
  <2> QED
    BY <1>1, <2>1 DEF RestoreInv, MountsApart
<1>16. Relies(p)'
  <2>1. InHand(p)' /\ Approved(p)'
    BY <1>1, <1>2, <1>3, <1>7 DEF Relies, InHand, Approved, Admitted
  <2>2. TargetHeld(p)' /\ RootHeld(p)' /\ MountHeld(p)'
    BY <1>1, <1>2, <1>3, <1>7 DEF Relies, TargetHeld, OwnDevice, RootHeld, MountHeld
  <2>3. MembersHeld(p)' /\ Undisturbed(p)'
    BY <1>1, <1>2, <1>3, <1>7 DEF Relies, MembersHeld, Working, Members, Undisturbed, PayloadsGood,
       Identities
  <2>4. ChunksWritten(p)'
    <3> SUFFICES ASSUME OnDevice, NEW i \in Chunks, i < c + 1, Layout[i] >= 1
                 PROVE  content'[d][i] = <<"image", Holder(i), Token(p).members[Holder(i)]>>
      BY <1>1, <1>2, <1>3, <1>7 DEF ChunksWritten, OnDevice, Holder
    <3>1. CASE i = c
      BY <1>6, <1>8, <3>1
    <3>2. CASE i # c
      <4>1. i < c
        BY <1>2, <3>2 DEF Chunks
      <4> QED
        BY <1>1, <1>2, <1>6, <3>2, <4>1 DEF Relies, ChunksWritten
    <3> QED
      BY <3>1, <3>2
  <2>5. WritesLast(p)'
    <3>1. image.kind # "stream" =>
            \E a \in admitted : /\ a.proc = p /\ a.token.uid = job[p].user
                                /\ a.token.target[1] = d \/ (image.kind = "file" /\ events >= 2)
      <4> SUFFICES ASSUME image.kind # "stream"
                   PROVE  \E a \in admitted :
                            /\ a.proc = p /\ a.token.uid = job[p].user
                            /\ a.token.target[1] = d \/ (image.kind = "file" /\ events >= 2)
        OBVIOUS
      <4>1. PICK a \in admitted : a.proc = p /\ a.token = Token(p)
        BY <1>1, <1>2 DEF Relies, Approved, Admitted
      <4>2. Token(p).uid = job[p].user
        BY <1>1, <1>2 DEF Relies, Approved, Admitted
      <4>3. Token(p).target[1] = d \/ (image.kind = "file" /\ events >= 2)
        BY <1>1, <1>2, KindOfStep DEF Relies, TargetHeld, OwnDevice, Claimed, RootHeld
      <4> QED
        BY <4>1, <4>2, <4>3
    <3> QED
      BY <1>1, <1>2, <1>3, <3>1 DEF Relies, WritesLast
  <2> QED
    BY <2>1, <2>2, <2>3, <2>4, <2>5 DEF Relies
<1> QED
  BY <1>11, <1>12, <1>13, <1>14, <1>15, <1>16, OthersRely DEF RestoreInv

-----------------------------------------------------------------------------
(***************************************************************************)
(* The rest of the system.                                                 *)
(***************************************************************************)
\* What others may do: a member that changes gets an identity it never had, every
\* program that had verified it counts as late, a device in use is not mounted, and
\* a path that changes is an event.
Outside ==
  /\ UNCHANGED <<image, content, touched, keyVars, claim, step, job>>
  /\ now' \in Nat /\ now <= now'
  /\ events' \in Nat /\ events <= events' /\ (path' # path => events' = events + 1)
  /\ path' \in Targets
  /\ store' \in [1..ChainLength -> Nat]
  /\ \A m \in 1..ChainLength : store[m] <= store'[m] /\ store'[m] <= events' + 1
  /\ late \subseteq late' /\ (store' # store \/ damaged' # damaged => late' = Tardy)
  /\ mounted \subseteq mounted' /\ \A d \in mounted' \ mounted : claim[d] = None

\* Whatever they do, every program may go on relying on what it relied on.
LEMMA OutsideKeeps ==
  ASSUME RestoreInv, Outside
  PROVE  RestoreInv'
<1>0. Members \subseteq 1..ChainLength /\ Members' = Members
  BY RestoreAssumption DEF Members, Outside
<1>1. RestoreType' /\ KeysKnown'
  BY DEF Outside, keyVars, RestoreInv, RestoreType, JobShaped, KeysKnown, KeysAgree
<1>2. TokensBind'
  <2> SUFFICES ASSUME NEW t \in tokens
               PROVE  /\ TokenShaped(t) /\ t.expires \in Nat /\ t.members \in [Members -> Nat]
                      /\ \A m \in Members : t.members[m] <= store'[m]
    BY <1>0 DEF TokensBind, TokenShaped, Outside, keyVars
  <2>1. /\ TokenShaped(t) /\ t.expires \in Nat /\ t.members \in [Members -> Nat]
        /\ \A m \in Members : t.members[m] <= store[m]
    BY DEF RestoreInv, TokensBind
  <2>2. \A m \in Members : /\ t.members[m] \in Nat /\ store[m] \in Nat /\ store'[m] \in Nat
                           /\ store[m] <= store'[m]
    BY <1>0, <2>1 DEF Outside, RestoreInv, RestoreType
  <2> QED
    BY <2>1, <2>2
<1>3. AdmissionsRecorded'
  <2> SUFFICES ASSUME NEW a \in admitted
               PROVE  /\ a.token \in tokens /\ a.at \in Nat /\ a.at <= now'
                      /\ now' <= a.token.expires => UseRecord(a.token) \in consumed
    BY DEF AdmissionsRecorded, UseRecord, Outside, keyVars
  <2>1. a.token \in tokens /\ a.at \in Nat /\ a.at <= now /\ now \in Nat /\ a.token.expires \in Nat
    BY DEF RestoreInv, RestoreType, AdmissionsRecorded, TokensBind
  <2> QED
    BY <2>1 DEF Outside, RestoreInv, AdmissionsRecorded
<1>4. AdmittedOnceWhileValid' /\ OnlyTheBoundImage' /\ MountsApart'
  <2>1. AdmittedOnceWhileValid'
    BY DEF Outside, keyVars, RestoreInv, AdmittedOnceWhileValid
  <2>2. OnlyTheBoundImage' /\ MountsApart'
    BY DEF Outside, keyVars, RestoreInv, OnlyTheBoundImage, MountsApart
  <2> QED
    BY <2>1, <2>2
<1>5. ASSUME NEW p \in Procs PROVE Relies(p)'
  <2>0. /\ UNCHANGED <<image, content, touched, tokens, admitted, claim, step, job>>
        /\ Token(p)' = Token(p) /\ Relies(p) /\ events \in Nat /\ events' \in Nat /\ events <= events'
    BY DEF Outside, keyVars, Token, RestoreInv, RestoreType
  <2>1. InHand(p)' /\ Approved(p)'
    BY <2>0 DEF Relies, InHand, Working, Approved
  <2>2. TargetHeld(p)'
    <3> SUFFICES ASSUME OwnDevice, step[p] \in Claimed
                 PROVE  /\ job[p].fd \in Targets /\ claim[job[p].fd] = p /\ job[p].fd \notin mounted'
                        /\ step[p] # "facts" => job[p].fd = Token(p).target[1]
      BY <2>0 DEF TargetHeld, OwnDevice
    <3>1. TargetHeld(p) /\ p # None
      BY <2>0, RestoreAssumption DEF Relies
    <3> QED
      BY <3>1 DEF TargetHeld, Outside
  <2>3. RootHeld(p)'
    <3>1. RootHeld(p) /\ (path' = path \/ events' = events + 1)
      BY <2>0 DEF Relies, Outside
    <3> QED
      BY <2>0, <3>1 DEF RootHeld
  <2>4. MountHeld(p)'
    BY <2>0 DEF Relies, MountHeld, Outside
  <2>5. MembersHeld(p)'
    <3>1. ASSUME image.kind # "disk", step[p] = "current"
          PROVE  /\ job[p].opened \in [Members -> Nat] /\ job[p].chunks = job[p].opened
                 /\ \A m \in Members : /\ Token(p).members[m] <= job[p].opened[m]
                                       /\ job[p].opened[m] <= store'[m]
      <4>1. /\ job[p].opened \in [Members -> Nat] /\ job[p].chunks = job[p].opened
            /\ \A m \in Members : /\ Token(p).members[m] <= job[p].opened[m]
                                  /\ job[p].opened[m] <= store[m]
        BY <2>0, <3>1 DEF Relies, MembersHeld
      <4>2. \A m \in Members : /\ job[p].opened[m] \in Nat /\ store[m] \in Nat /\ store'[m] \in Nat
                               /\ store[m] <= store'[m]
        BY <1>0, <4>1 DEF Outside, RestoreInv, RestoreType
      <4> QED
        BY <4>1, <4>2
    <3> QED
      BY <1>0, <2>0, <3>1 DEF Relies, MembersHeld, Working
  <2>6. Undisturbed(p)'
    <3>1. CASE store' = store /\ damaged' = damaged
      BY <1>0, <2>0, <3>1 DEF Relies, Undisturbed, PayloadsGood, Identities, Outside
    <3>2. CASE late' = Tardy
      <4>1. Compared(image.kind) \cup {"write"} \subseteq Verified
        BY DEF Compared, Verified
      <4> QED
        BY <2>0, <3>2, <4>1 DEF Tardy, Undisturbed
    <3> QED
      BY <3>1, <3>2 DEF Outside
  <2>7. ChunksWritten(p)'
    BY <2>0 DEF Relies, ChunksWritten, OnDevice, Holder
  <2>8. WritesLast(p)'
    BY <2>0 DEF Relies, WritesLast, Outside
  <2> QED
    BY <2>1, <2>2, <2>3, <2>4, <2>5, <2>6, <2>7, <2>8 DEF Relies
<1> QED
  BY <1>1, <1>2, <1>3, <1>4, <1>5 DEF RestoreInv

\* The environment does no more than that.
LEMMA EnvironmentKeeps ==
  ASSUME RestoreInv, Environment
  PROVE  RestoreInv'
<1>0. /\ events \in Nat /\ now \in Nat /\ store \in [1..ChainLength -> Nat] /\ path \in Targets
      /\ \A m \in 1..ChainLength : store[m] \in Nat /\ store[m] <= events + 1
  BY DEF RestoreInv, RestoreType
<1>1. ASSUME NEW m \in Members, Replace(m) PROVE Outside
  <2>1. m \in 1..ChainLength
    BY RestoreAssumption DEF Members
  <2>2. store' = [store EXCEPT ![m] = 2 + events] /\ events' = events + 1
    BY <1>1 DEF Replace
  <2>3. /\ store' \in [1..ChainLength -> Nat]
        /\ \A i \in 1..ChainLength : store[i] <= store'[i] /\ store'[i] <= events' + 1
    BY <1>0, <2>1, <2>2
  <2> QED
    BY <1>0, <1>1, <2>2, <2>3 DEF Replace, others, diskVars, Outside, Tardy
<1>2. ASSUME NEW m \in Members, Damage(m) PROVE Outside
  BY <1>0, <1>2 DEF Damage, others, diskVars, Outside, Tardy
<1>3. ASSUME NEW d \in Targets, Swap(d) PROVE Outside
  BY <1>0, <1>3 DEF Swap, others, diskVars, Outside
<1>4. ASSUME NEW d \in Targets, Mount(d) PROVE Outside
  BY <1>0, <1>4 DEF Mount, ExclusiveOpens, others, diskVars, Outside
<1>5. ASSUME NEW d \in Targets, Fill(d) PROVE Outside
  BY <1>0, <1>5 DEF Fill, others, diskVars, Outside
<1>6. ASSUME Tick PROVE Outside
  BY <1>0, <1>6 DEF Tick, others, diskVars, Outside
<1>7. Outside
  BY <1>1, <1>2, <1>3, <1>4, <1>5, <1>6 DEF Environment
<1> QED
  BY <1>7, OutsideKeeps

\* Every step keeps the invariant.
LEMMA RestoreNextKeeps == RestoreInv /\ [RestoreNext]_restoreVars => RestoreInv'
<1> SUFFICES ASSUME RestoreInv, [RestoreNext]_restoreVars PROVE RestoreInv'
  OBVIOUS
<1>1. CASE Environment
  BY <1>1, EnvironmentKeeps
<1>2. ASSUME NEW p \in Procs, Prepares(p) PROVE RestoreInv'
  <2>1. ASSUME NEW t \in Presented, NEW c \in BOOLEAN, BeginRefused(p, t, c) PROVE RestoreInv'
    BY <2>1, ErrorsKeep DEF BeginRefused, Ended
  <2> QED
    BY <1>2, <2>1, KeyKeeps, PrepareKeeps, BeginKeeps DEF Prepares
<1>3. ASSUME NEW p \in Procs, Applies(p) PROVE RestoreInv'
  <2>1. CASE OpenImage(p) \/ Claim(p) \/ CheckFacts(p) \/ CheckDirectory(p) \/ Admit(p)
    BY <2>1, OpenImageKeeps, ClaimKeeps, CheckFactsKeeps, CheckDirectoryKeeps, AdmitKeeps
  <2>2. CASE \/ Redeem(p) \/ Reopen(p) \/ StartDirectory(p) \/ IdentitiesBefore(p)
             \/ VerifyPayloads(p) \/ IdentitiesAfter(p)
    BY <2>2, RedeemKeeps, ReopenKeeps, StartDirectoryKeeps, IdentitiesBeforeKeeps,
       VerifyPayloadsKeeps, IdentitiesAfterKeeps
  <2>3. CASE \/ Retarget(p) \/ OpenMembers(p) \/ ValidateOpened(p) \/ OpenChunks(p)
             \/ MakeFilesystem(p) \/ WriteChunk(p)
    BY <2>3, RetargetKeeps, OpenMembersKeeps, ValidateOpenedKeeps, OpenChunksKeeps,
       MakeFilesystemKeeps, WriteChunkKeeps
  <2>4. CASE PrepareDirectory(p) \/ PinRoot(p) \/ CheckRoot(p)
    BY <2>4, PrepareDirectoryKeeps, PinRootKeeps, CheckRootKeeps
  <2>5. CASE \/ RedeemRefused(p) \/ MakeFilesystemFails(p) \/ MakeFilesystemBreaks(p)
             \/ WriteChunkFails(p) \/ TargetFails(p) \/ FinishWriting(p)
    BY <2>5, EndingsKeep, MakeFilesystemBreaksKeeps
  <2> QED
    BY <1>3, <2>1, <2>2, <2>3, <2>4, <2>5 DEF Applies
<1>4. ASSUME NEW p \in Procs, Cancelled(p) \/ Killed(p) PROVE RestoreInv'
  BY <1>4, EndingsKeep
<1>5. CASE UNCHANGED restoreVars
  <2>1. Outside
    BY <1>5 DEF restoreVars, Outside, keyVars, RestoreInv, RestoreType
  <2> QED
    BY <2>1, OutsideKeeps
<1> QED
  BY <1>1, <1>2, <1>3, <1>4, <1>5 DEF RestoreNext

-----------------------------------------------------------------------------
(***************************************************************************)
(* Theorems.                                                               *)
(***************************************************************************)
\* The invariant holds throughout.
THEOREM RestoreInvariant == RestoreSpec => []RestoreInv
<1>1. RestoreInit => RestoreInv
  BY RestoreStarts
<1>2. RestoreInv /\ [RestoreNext]_restoreVars => RestoreInv'
  BY RestoreNextKeeps
<1> QED
  BY <1>1, <1>2, PTL DEF RestoreSpec

\* A restore writes only what was agreed (RestoreToken::redeem, apply_restore): whatever programs
\* prepare and apply, and however often images, paths, mounts and directories change under them, a
\* token is admitted once while it is valid, only for its user and its target, and what reaches a
\* target comes from the members a token binds; all programs use one key.
THEOREM OnlyTheAgreed == RestoreSpec => []OnlyTheAgreedIsWritten
<1>1. RestoreInv => OnlyTheAgreedIsWritten
  <2> SUFFICES ASSUME RestoreInv PROVE OnlyTheAgreedIsWritten
    OBVIOUS
  <2>1. KeysAgree /\ AdmittedOnceWhileValid /\ OnlyTheBoundImage
    BY DEF RestoreInv, KeysKnown
  <2>2. OnlyThePreparedTarget
    BY DEF RestoreInv, Relies, WritesLast, OnlyThePreparedTarget
  <2> QED
    BY <2>1, <2>2 DEF OnlyTheAgreedIsWritten
<1> QED
  BY <1>1, RestoreInvariant, PTL

\* A restore is whole or refused (write_block_chain, restore_whole_disk, the receive loop): a block
\* or whole-disk restore has its device to itself while it writes, a restore fails after its first
\* write only over an error of its target or a change of its image that came after the
\* verification, and one that reports success, whatever writes and syncs may fail, has put every
\* chunk of the bound members on its device and, but for a stream, flushed it.
THEOREM WholeOrRefused == RestoreSpec => RestoreIsWholeOrRefused
<1>1. RestoreInv => WritesAreExclusive /\ FailsOnlyOnLateChange
  BY DEF RestoreInv, Relies, TargetHeld, Claimed, OwnDevice, WritesLast, WritesAreExclusive,
         FailsOnlyOnLateChange
<1>2. ASSUME RestoreInv, RestoreNext PROVE SucceedsWhole
  <2> SUFFICES ASSUME NEW p \in Procs, step[p] # "ok", step'[p] = "ok", OnDevice PROVE Whole(p)
    BY DEF SucceedsWhole
  <2>1. FinishWriting(p)
    <3>0. step = [q \in Procs |-> step[q]]
      BY <1>2 DEF RestoreInv, RestoreType
    <3>1. ~Environment
      BY DEF Environment, Replace, Damage, Swap, Mount, Fill, Tick, others
    <3>2. ASSUME NEW q \in Procs, Prepares(q) PROVE FALSE
      BY <3>0, <3>2 DEF Prepares, LoadKey, PersistKey, Prepare, Begin, BeginRefused, ReturnError, Go
    <3>3. ASSUME NEW q \in Procs, Cancelled(q) \/ Killed(q) PROVE FALSE
      BY <3>0, <3>3 DEF Cancelled, Killed, Go
    <3>4. ASSUME NEW q \in Procs, Applies(q) PROVE FinishWriting(q) /\ q = p
      BY <3>0, <3>4 DEF Applies, OpenImage, Claim, CheckFacts, CheckDirectory, Admit, Redeem,
         AfterRedeem, RedeemRefused, Reopen, StartDirectory, IdentitiesBefore, VerifyPayloads,
         IdentitiesAfter, Retarget, OpenMembers, ValidateOpened, OpenChunks, MakeFilesystem,
         MakeFilesystemFails, MakeFilesystemBreaks, PrepareDirectory, PinRoot, CheckRoot, WriteChunk,
         WriteChunkFails, TargetFails, FinishWriting, Decide, TakeClaim, ReturnError, Go
    <3> QED
      BY <1>2, <3>1, <3>2, <3>3, <3>4 DEF RestoreNext
  <2>2. step[p] = "write" /\ job[p].at = Len(Layout) + 1 /\ content' = content
        /\ (image.kind # "stream" => job[p].fd \in flushed')
    BY <2>1 DEF FinishWriting
  <2>3. \A c \in Chunks : c < job[p].at
    BY <2>2, RestoreAssumption DEF Chunks
  <2> QED
    BY <1>2, <2>2, <2>3 DEF RestoreInv, Relies, ChunksWritten, Whole
<1>3. RestoreInv /\ [RestoreNext]_restoreVars => [SucceedsWhole]_restoreVars
  BY <1>2
<1> QED
  BY <1>1, <1>3, RestoreInvariant, PTL DEF RestoreSpec, RestoreIsWholeOrRefused
==============================================================================
