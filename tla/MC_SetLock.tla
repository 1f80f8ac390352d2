----------------------------- MODULE MC_SetLock ------------------------------
(***************************************************************************)
(* The set lock for TLC, one scenario per behaviour: the lock file of a    *)
(* local destination, and the lock of an SFTP destination broken as the    *)
(* operator guide says and at any time.  The lock that is not in use keeps *)
(* its initial state.                                                      *)
(***************************************************************************)
EXTENDS SetLock, TLC

CONSTANTS On,   \* the scenarios of a run
          a, b, h1, h2

VARIABLES on,
          \* RemoteLock
          name, content, step, break, round, made, stamp, up, refresher, opened, age, gone,
          fenced, faults

remoteVars == <<name, content, step, break, round, made, stamp, up, refresher, opened, age, gone,
                fenced, faults>>
allVars == <<on, vars, remoteVars>>

TwoProcs == {a, b}

OneHost == [p \in Proc |-> h1]
TwoHosts == [p \in Proc |-> IF p = a THEN h1 ELSE h2]

Guided == INSTANCE RemoteLock
  WITH Attended <- TRUE, Inode <- 1 .. 3, MaxFaults <- 2,
       path <- name, pc <- step, brk <- break, fd <- made, thr <- refresher, tfd <- opened,
       refAge <- age, lost <- gone
AnyTime == INSTANCE RemoteLock
  WITH Attended <- FALSE, TTL <- 0, Inode <- 1 .. 3, MaxFaults <- 1,
       path <- name, pc <- step, brk <- break, fd <- made, thr <- refresher, tfd <- opened,
       refAge <- age, lost <- gone

AllInit == on \in On /\ Init /\ Guided!Init

InLocal(A) == on = "local" /\ A /\ UNCHANGED <<on, remoteVars>>

AllNext ==
  \/ InLocal(Next)
  \/ on = "guided" /\ Guided!Next /\ UNCHANGED <<on, vars>>
  \/ on = "anytime" /\ AnyTime!Next /\ UNCHANGED <<on, vars>>

\* The fairness of SetLock, in its own scenario.
LocalFairness ==
  /\ WF_allVars(InLocal(Tick))
  /\ \A p \in Breakers :
       /\ WF_allVars(InLocal(Acquire(p) \/ Break(p)))
       /\ SF_allVars(InLocal(Start(p, TRUE)))

AllSpec == AllInit /\ [][AllNext]_allVars
AllFairSpec == AllSpec /\ LocalFairness

RemoteMutex == INSTANCE SetMutex
  WITH taken <- on = "guided" /\ name # Guided!None,
       owner <- {p \in Proc : on = "guided" /\ Guided!Owns(p)}

\* While locks are broken as the guide says, the remote lock file implements
\* the jobs' mutex, and while they are broken at any time a holder that once
\* found its lease lost or the lock not its own never passes a verification
\* again (RemoteLock, SetMutex).
RemoteLockHolds ==
  /\ RemoteMutex!Spec
  /\ [](on = "anytime" => AnyTime!FencedStaysFenced)
==============================================================================
