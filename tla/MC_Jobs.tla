------------------------------- MODULE MC_Jobs -------------------------------
(***************************************************************************)
(* Jobs for TLC, one scenario per behaviour: calls that register jobs      *)
(* until a drain; two daemons that start on one socket; and what two kinds *)
(* of job do: a chain captured and verified while its files change, two    *)
(* processes that record receipts in one ledger, and two programs that     *)
(* prepare and apply restores.  The machines that do not run keep empty    *)
(* variables, or their initial ones.                                       *)
(***************************************************************************)
EXTENDS Jobs, Restore, History, Startup, Capture, TLC

CONSTANTS On,   \* the scenarios of a run
          p, q,          \* two plain calls, programs or daemons
          v,             \* a captured call
          one, two,      \* job ids, or users
          set1, set2

VARIABLE on

allVars == <<on, vars, startupVars, captureVars, historyVars, restoreVars>>

-----------------------------------------------------------------------------
PlainAndCaptured == {p, q, v}
TwoPlain == {p, q}
OneCaptured == {v}
OneId == {one}
TwoIds == {one, two}
TwoSets == {set1, set2}

\* Every way to make the socket, and one service with a policy file.
Polkit ==
  [policy : {FALSE}, auth : {"polkit"}, dev : {FALSE}, uids : {FALSE},
   group : BOOLEAN, create : BOOLEAN, mode : {"default", "all", "root"}, inherited : {FALSE}]
WithPolicy ==
  [policy : {TRUE}, auth : {"polkit"}, dev : {FALSE}, uids : {FALSE},
   group : {TRUE}, create : {FALSE}, mode : {"default"}, inherited : {FALSE}]
Static ==
  [policy : {FALSE}, auth : {"static", "other"}, dev : BOOLEAN, uids : {TRUE},
   group : {TRUE}, create : {FALSE}, mode : {"default"}, inherited : BOOLEAN]

AllOptions == Polkit \cup WithPolicy \cup Static

\* Two chunks, one of each member of a chain.
TwoChunks == <<1, 2>>

ASSUME CaptureAssumption

-----------------------------------------------------------------------------
\* The machines that do not run: as before their first step, without the data
\* that nobody reads then.
NoStart ==
  /\ sock = NoSocket /\ pc = [d \in Daemons |-> "start"]
  /\ dir = {} /\ unclosed = {} /\ groupMade = FALSE /\ policy = {} /\ edits = 0 /\ opts = {} /\ read = {}
NoCheck ==
  /\ source = {} /\ changes = {} /\ every = {} /\ refs = {} /\ bad = {} /\ cancelled = {}
  /\ stage = "none" /\ idx = {} /\ blk = {} /\ headers = {} /\ raw = {} /\ copies = <<>>
  /\ work = {} /\ obs = [outcome |-> [status |-> "incomplete"]] /\ report = {}
NoApply ==
  /\ step = [r \in Procs |-> "boot"] /\ secret = [r \in Procs |-> "none"]
  /\ content = [d \in Targets |-> [c \in {1, 2} |-> <<"old">>]]
  /\ image = {} /\ store = {} /\ damaged = {} /\ path = {} /\ mounted = {} /\ filled = {}
  /\ flushed = {} /\ claim = {} /\ now = 0 /\ keyfile = "none" /\ tokens = {} /\ consumed = {}
  /\ admitted = {} /\ touched = {} /\ late = {} /\ events = 0 /\ job = {}

\* The policy file is as good as it gets where no daemon reads it.
FewPolicies ==
  (\E d \in Daemons : opts[d].policy)
  \/ (policy.ancestors /\ policy.private /\ policy.limits /\ policy.directories)

\* Inconsistent images and images with bad chunks are block images.
FewImages == (image.inconsistent \/ image.bad) => image.kind = "block"

AllInit ==
  /\ on \in On
  /\ Init /\ HistoryInit
  /\ IF on = "start" THEN StartupInit /\ FewPolicies ELSE NoStart
  /\ IF on = "verify" THEN CaptureInit ELSE NoCheck
  /\ IF on = "restore" THEN RestoreInit /\ FewImages ELSE NoApply

AllNext ==
  \/ on = "calls" /\ Next /\ UNCHANGED <<on, startupVars, captureVars, historyVars, restoreVars>>
  \/ on = "start" /\ StartupNext /\ UNCHANGED <<on, vars, captureVars, historyVars, restoreVars>>
  \/ on = "verify" /\ CaptureNext /\ UNCHANGED <<on, vars, startupVars, historyVars, restoreVars>>
  \/ on = "ledger" /\ HistoryNext /\ UNCHANGED <<on, vars, startupVars, captureVars, restoreVars>>
  \/ on = "restore" /\ RestoreNext /\ UNCHANGED <<on, vars, startupVars, captureVars, historyVars>>

AllSpec == AllInit /\ [][AllNext]_allVars

\* Plain calls, programs and daemons, job ids and users, and sets are interchangeable.
Interchangeable ==
  Permutations({p, q}) \cup Permutations({one, two}) \cup Permutations({set1, set2})

==============================================================================
