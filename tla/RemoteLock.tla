------------------------------ MODULE RemoteLock ------------------------------
(***************************************************************************)
(* The set lock of an SFTP destination (crates/lr-store/src/sftp.rs,       *)
(* `acquire_lock`, `RemoteLease` and `RemoteLeaseGuard`).  There is no     *)
(* flock and no open file to compare with: the file's content, the token   *)
(* of one acquisition, says whose lock it is.                              *)
(*                                                                         *)
(* One step is one SFTP request.  The answer of a request may be lost with *)
(* the connection, after the server did what it asked; the lease keeps the *)
(* session it was taken with and never connects again.  Every file is an   *)
(* inode of the server, because an open handle survives the removal of the *)
(* name.  Time is kept as ages, as in SetLock.                             *)
(***************************************************************************)
EXTENDS Naturals, FiniteSets

CONSTANTS Proc,       \* processes that take the lock
          Attended,   \* TRUE when the operator follows the guide: no other
                      \* process runs while a lock is being broken
          Inode,      \* files the server may give the name to, one after another
          TTL,        \* ttl_secs, in ticks
          MaxFaults   \* bound on lost connections and deaths together

VARIABLES path,     \* the inode `set.lock` names, or None
          content,  \* of each inode: a record's token and age, or Unreadable
          pc, brk,
          round,    \* which of the two rounds of `acquire_lock` runs
          fd,       \* the lock file it made, until its record is written
          stamp,    \* elapsed since `created` of the record about to be written
          up,       \* the session the process talks through still works
          thr,      \* the refresher thread
          tfd,      \* the handle the refresher opened
          refAge,   \* elapsed since `refreshed`
          lost,     \* `RemoteLease::lost` is set
          fenced,   \* a verification found the lock lost or not its own: history only
          faults

file == <<path, content>>
job == <<pc, brk, round, fd, stamp, up>>
lease == <<thr, tfd, refAge, lost, fenced>>
vars == <<path, content, pc, brk, round, fd, stamp, up, thr, tfd, refAge, lost, fenced, faults>>

None == 0
Unreadable == [tok |-> None, age |-> 0]
Older(a) == IF a > TTL THEN a ELSE a + 1

Keeping == {"held", "verified", "stopping", "dropcheck", "dropremove"}
Holding(p) == pc[p] \in Keeping
Running(p) == pc[p] # "idle"

Init ==
  /\ path = None
  /\ content = [i \in Inode |-> Unreadable]
  /\ pc = [p \in Proc |-> "idle"]
  /\ brk = [p \in Proc |-> FALSE]
  /\ round = [p \in Proc |-> 1]
  /\ fd = [p \in Proc |-> None]
  /\ stamp = [p \in Proc |-> 0]
  /\ up = [p \in Proc |-> FALSE]
  /\ thr = [p \in Proc |-> "none"]
  /\ tfd = [p \in Proc |-> None]
  /\ refAge = [p \in Proc |-> 0]
  /\ lost = [p \in Proc |-> FALSE]
  /\ fenced = [p \in Proc |-> FALSE]
  /\ faults = 0

-----------------------------------------------------------------------------
Goto(p, label) == pc' = [pc EXCEPT ![p] = label]

\* What an ended or killed job leaves: nothing but what is on the server.
Forget(p) ==
  /\ Goto(p, "idle")
  /\ brk' = [brk EXCEPT ![p] = FALSE]
  /\ round' = [round EXCEPT ![p] = 1]
  /\ fd' = [fd EXCEPT ![p] = None]
  /\ stamp' = [stamp EXCEPT ![p] = 0]
  /\ up' = [up EXCEPT ![p] = FALSE]
  /\ thr' = [thr EXCEPT ![p] = "none"]
  /\ tfd' = [tfd EXCEPT ![p] = None]
  /\ refAge' = [refAge EXCEPT ![p] = 0]
  /\ lost' = [lost EXCEPT ![p] = FALSE]
  /\ fenced' = [fenced EXCEPT ![p] = FALSE]

\* `acquire_lock` returns an error.
Refused(p) == Forget(p) /\ UNCHANGED <<file, faults>>

\* The record the session's `read` finds at the path; an empty file, a missing
\* one and a dead session all give none.
Read(p) == IF up[p] /\ path # None THEN content[path] ELSE Unreadable

\* `still_ours`
StillOurs(p) == Read(p).tok = p

IsStale(r) == r.tok # None /\ r.age > TTL

\* An inode nothing names or holds open, and the one a new file gets.
Unused(i) == i # path /\ \A q \in Proc : fd[q] # i /\ tfd[q] # i
New(i) == Unused(i) /\ \A j \in Inode : Unused(j) => i <= j

-----------------------------------------------------------------------------
(***************************************************************************)
(* acquire_lock                                                            *)
(***************************************************************************)
\* A job asks for the lock: `created` is read, and the session connects.
Start(p, b) ==
  /\ pc[p] = "idle"
  /\ Attended => \A q \in Proc \ {p} : ~ (Running(q) /\ (b \/ brk[q]))
  /\ Goto(p, "create")
  /\ brk' = [brk EXCEPT ![p] = b]
  /\ up' = [up EXCEPT ![p] = TRUE]
  /\ UNCHANGED <<file, round, fd, stamp, lease, faults>>

\* Two rounds and no more: "the lock keeps being replaced".
GiveUp(p) == pc[p] = "create" /\ round[p] > 2 /\ Refused(p)

\* CREATE | WRITE | EXCLUDE succeeds.
Create(p) ==
  /\ pc[p] = "create" /\ round[p] <= 2
  /\ up[p] /\ path = None
  /\ \E i \in Inode :
       /\ New(i)
       /\ path' = i
       /\ content' = [content EXCEPT ![i] = Unreadable]
       /\ fd' = [fd EXCEPT ![p] = i]
  /\ Goto(p, "write")
  /\ UNCHANGED <<brk, round, stamp, up, lease, faults>>

CreateFails(p) ==
  /\ pc[p] = "create" /\ round[p] <= 2
  /\ ~ up[p] \/ path # None
  /\ Goto(p, "read")
  /\ UNCHANGED <<file, brk, round, fd, stamp, up, lease, faults>>

\* write_all, flush, sync_all; then `start_lease`.
WriteRecord(p) ==
  /\ pc[p] = "write" /\ up[p]
  /\ content' = [content EXCEPT ![fd[p]] = [tok |-> p, age |-> stamp[p]]]
  /\ fd' = [fd EXCEPT ![p] = None]
  /\ stamp' = [stamp EXCEPT ![p] = 0]
  /\ thr' = [thr EXCEPT ![p] = "sleep"]
  /\ Goto(p, "held")
  /\ UNCHANGED <<path, brk, round, up, tfd, refAge, lost, fenced, faults>>

\* The new file stays behind, empty.
WriteRecordFails(p) == pc[p] = "write" /\ ~ up[p] /\ Refused(p)

\* The lock that is there has expired, and the caller said to break it.
Judge(p) ==
  /\ pc[p] = "read"
  /\ IsStale(Read(p)) /\ brk[p]
  /\ Goto(p, "remove")
  /\ UNCHANGED <<file, brk, round, fd, stamp, up, lease, faults>>

JudgeRefused(p) ==
  /\ pc[p] = "read"
  /\ ~ (IsStale(Read(p)) /\ brk[p])
  /\ Refused(p)

\* The name is removed, whatever file it stands for by now.
RemoveStale(p) ==
  /\ pc[p] = "remove" /\ up[p] /\ path # None
  /\ path' = None
  /\ round' = [round EXCEPT ![p] = @ + 1]
  /\ Goto(p, "create")
  /\ UNCHANGED <<content, brk, fd, stamp, up, lease, faults>>

RemoveFails(p) ==
  /\ pc[p] = "remove"
  /\ ~ up[p] \/ path = None
  /\ Refused(p)

-----------------------------------------------------------------------------
(***************************************************************************)
(* The holder.  `io` is held by the refresher from its check to the end of *)
(* its write, so a verification never runs in between.                     *)
(***************************************************************************)
IoFree(p) == thr[p] \notin {"checked", "opened"}

Passes(p) == ~ lost[p] /\ StillOurs(p) /\ refAge[p] <= TTL

\* Mutant: `verify` does not take the io mutex.
VerifyUnlocked(p) ==
  /\ pc[p] = "held"
  /\ Goto(p, IF Passes(p) THEN "verified" ELSE "held")
  /\ fenced' = [fenced EXCEPT ![p] = @ \/ lost[p] \/ ~ StillOurs(p)]
  /\ UNCHANGED <<file, brk, round, fd, stamp, up, thr, tfd, refAge, lost, faults>>

\* `SetLock::verify`.  The job may go on after a refusal, to verify again.
Verify(p) ==
  /\ pc[p] = "held"
  /\ lost[p] \/ IoFree(p)
  /\ Goto(p, IF Passes(p) THEN "verified" ELSE "held")
  /\ fenced' = [fenced EXCEPT ![p] = @ \/ lost[p] \/ ~ StillOurs(p)]
  /\ UNCHANGED <<file, brk, round, fd, stamp, up, thr, tfd, refAge, lost, faults>>

\* The publication or deletion the verification was for.
Mutate(p) ==
  /\ pc[p] = "verified"
  /\ Goto(p, "held")
  /\ UNCHANGED <<file, brk, round, fd, stamp, up, lease, faults>>

\* `RemoteLeaseGuard::drop`: stop, join the refresher, read, remove.
Release(p) ==
  /\ pc[p] = "held"
  /\ Goto(p, "stopping")
  /\ UNCHANGED <<file, brk, round, fd, stamp, up, lease, faults>>

Join(p) ==
  /\ pc[p] = "stopping" /\ IoFree(p)
  /\ thr' = [thr EXCEPT ![p] = "done"]
  /\ Goto(p, "dropcheck")
  /\ UNCHANGED <<file, brk, round, fd, stamp, up, tfd, refAge, lost, fenced, faults>>

DropOurs(p) ==
  /\ pc[p] = "dropcheck" /\ StillOurs(p)
  /\ Goto(p, "dropremove")
  /\ UNCHANGED <<file, brk, round, fd, stamp, up, lease, faults>>

DropNotOurs(p) == pc[p] = "dropcheck" /\ ~ StillOurs(p) /\ Refused(p)

DropRemove(p) ==
  /\ pc[p] = "dropremove"
  /\ path' = IF up[p] THEN None ELSE path
  /\ Forget(p)
  /\ UNCHANGED <<content, faults>>

-----------------------------------------------------------------------------
(***************************************************************************)
(* refresh_loop                                                            *)
(***************************************************************************)
Lose(p) ==
  /\ lost' = [lost EXCEPT ![p] = TRUE]
  /\ thr' = [thr EXCEPT ![p] = "done"]
  /\ tfd' = [tfd EXCEPT ![p] = None]
  /\ stamp' = [stamp EXCEPT ![p] = 0]

\* The token is found, and `created` of the next record is read (0 as it was left).
RefreshCheck(p) ==
  /\ thr[p] = "sleep" /\ pc[p] \in {"held", "verified"}
  /\ StillOurs(p)
  /\ thr' = [thr EXCEPT ![p] = "checked"]
  /\ UNCHANGED <<file, job, tfd, refAge, lost, fenced, faults>>

RefreshLost(p) ==
  /\ thr[p] = "sleep" /\ pc[p] \in {"held", "verified"}
  /\ ~ StillOurs(p)
  /\ Lose(p)
  /\ UNCHANGED <<file, pc, brk, round, fd, up, refAge, fenced, faults>>

\* WRITE | TRUNCATE, without CREATE: whatever file has the name now is emptied.
RefreshOpen(p) ==
  /\ thr[p] = "checked" /\ up[p] /\ path # None
  /\ content' = [content EXCEPT ![path] = Unreadable]
  /\ tfd' = [tfd EXCEPT ![p] = path]
  /\ thr' = [thr EXCEPT ![p] = "opened"]
  /\ UNCHANGED <<path, job, refAge, lost, fenced, faults>>

RefreshWrite(p) ==
  /\ thr[p] = "opened" /\ up[p]
  /\ content' = [content EXCEPT ![tfd[p]] = [tok |-> p, age |-> stamp[p]]]
  /\ tfd' = [tfd EXCEPT ![p] = None]
  /\ refAge' = [refAge EXCEPT ![p] = 0]
  /\ stamp' = [stamp EXCEPT ![p] = 0]
  /\ thr' = [thr EXCEPT ![p] = "sleep"]
  /\ UNCHANGED <<path, pc, brk, round, fd, up, lost, fenced, faults>>

RefreshFails(p) ==
  /\ \/ thr[p] = "checked" /\ (~ up[p] \/ path = None)
     \/ thr[p] = "opened" /\ ~ up[p]
  /\ Lose(p)
  /\ UNCHANGED <<file, pc, brk, round, fd, up, refAge, fenced, faults>>

-----------------------------------------------------------------------------
(***************************************************************************)
(* Faults and time.                                                        *)
(***************************************************************************)
Fault == faults < MaxFaults /\ faults' = faults + 1

\* The connection goes away between two requests.
Disconnect(p) ==
  /\ Fault /\ up[p]
  /\ up' = [up EXCEPT ![p] = FALSE]
  /\ UNCHANGED <<file, pc, brk, round, fd, stamp, lease>>

\* The server does what is asked, and its answer is lost with the connection.
AnswerLost(p) == Fault /\ up[p] /\ up' = [up EXCEPT ![p] = FALSE]

\* A lock that was made and stays empty; the caller reads, and gets nothing.
CreateUnanswered(p) ==
  /\ pc[p] = "create" /\ round[p] <= 2 /\ path = None
  /\ AnswerLost(p)
  /\ \E i \in Inode :
       /\ New(i)
       /\ path' = i
       /\ content' = [content EXCEPT ![i] = Unreadable]
       /\ fd' = [fd EXCEPT ![p] = i]
  /\ Goto(p, "read")
  /\ UNCHANGED <<brk, round, stamp, lease>>

\* A record that names a process which takes the lock for refused.
WriteUnanswered(p) ==
  /\ pc[p] = "write"
  /\ AnswerLost(p)
  /\ content' = [content EXCEPT ![fd[p]] = [tok |-> p, age |-> stamp[p]]]
  /\ UNCHANGED <<path, pc, brk, round, fd, stamp, lease>>

RemoveUnanswered(p) ==
  /\ pc[p] = "remove" /\ path # None
  /\ AnswerLost(p)
  /\ path' = None
  /\ UNCHANGED <<content, pc, brk, round, fd, stamp, lease>>

RefreshUnanswered(p) ==
  /\ thr[p] = "opened"
  /\ AnswerLost(p)
  /\ content' = [content EXCEPT ![tfd[p]] = [tok |-> p, age |-> stamp[p]]]
  /\ UNCHANGED <<path, pc, brk, round, fd, stamp, lease>>

Crash(p) == Fault /\ Running(p) /\ Forget(p) /\ UNCHANGED file

\* A record is made and not written yet.
Stamped(p) ==
  pc[p] \in {"create", "write", "read", "remove"} \/ thr[p] \in {"checked", "opened"}

Tick ==
  /\ content' = [i \in Inode |-> IF content[i].tok = None \/ Unused(i) THEN Unreadable
                                 ELSE [content[i] EXCEPT !.age = Older(@)]]
  /\ refAge' = [p \in Proc |-> IF Holding(p) THEN Older(refAge[p]) ELSE 0]
  /\ stamp' = [p \in Proc |-> IF Stamped(p) THEN Older(stamp[p]) ELSE 0]
  /\ UNCHANGED <<path, pc, brk, round, fd, up, thr, tfd, lost, fenced, faults>>

Acquire(p) ==
  \/ GiveUp(p) \/ Create(p) \/ CreateFails(p) \/ WriteRecord(p) \/ WriteRecordFails(p)
  \/ Judge(p) \/ JudgeRefused(p) \/ RemoveStale(p) \/ RemoveFails(p)

Hold(p) ==
  \/ Verify(p) \/ Mutate(p) \/ Release(p) \/ Join(p)
  \/ DropOurs(p) \/ DropNotOurs(p) \/ DropRemove(p)

Refresh(p) ==
  RefreshCheck(p) \/ RefreshLost(p) \/ RefreshOpen(p) \/ RefreshWrite(p) \/ RefreshFails(p)

Next ==
  \/ \E p \in Proc :
       \/ \E b \in BOOLEAN : Start(p, b)
       \/ Acquire(p) \/ Hold(p) \/ Refresh(p)
       \/ Disconnect(p) \/ Crash(p)
       \/ CreateUnanswered(p) \/ WriteUnanswered(p)
       \/ RemoveUnanswered(p) \/ RefreshUnanswered(p)
  \/ Tick

Spec == Init /\ [][Next]_vars

-----------------------------------------------------------------------------
(***************************************************************************)
(* Properties.                                                             *)
(***************************************************************************)
\* A holder whose verification found the lease lost, or another's record or none
\* at the path, never passes one again, whoever breaks, replaces or rewrites the
\* lock, in whatever order and at whatever moment: the refresher cannot bring a
\* lost lease back, and `io` keeps a verification out of the moment in which the
\* holder's own refresh has emptied the file.  A verification that failed only
\* because the lease expired is not final: the lock is still the holder's, and
\* passes again once the refresher has written it anew (`RemoteLease::verify`).
FencedStaysFenced ==
  \A p \in Proc : fenced[p] => pc[p] # "verified"

\* A process takes itself for the owner from the creation of its file to the
\* end of its release.
Owns(p) == fd[p] # None \/ Holding(p)
=============================================================================
