----------------------------- MODULE DrainWatch -----------------------------
(* A stopping daemon: it waits for running jobs, watches their progress     *)
(* events and asks systemd for more time while one of them advances; a      *)
(* daemon whose time runs out is killed. One tick is the 30 s between two   *)
(* reports.                                                                 *)
EXTENDS Naturals, Sequences, FiniteSets

CONSTANTS
    Jobs,       \* jobs that run when the stop begins
    Total,      \* writes a job makes
    Step,       \* REPORT_STEP: writes between two progress events
    Stall,      \* STALL_LIMIT, in ticks
    Extend      \* EXTEND_BY and TimeoutStopSec, in ticks

WatchAssumption ==
    /\ Total \in Nat /\ Step \in Nat \ {0} /\ Stall \in Nat \ {0} /\ Extend \in Nat \ {0, 1}

VARIABLES
    active,     \* registered jobs
    done,       \* job -> writes made
    reported,   \* job -> writes at its last progress event
    phase,      \* job -> its phase: "data", then "metadata"
    told,       \* jobs told to stop
    events,     \* bus: events the watch has not read
    seen,       \* watch: job -> [done, phase], as last seen
    still,      \* watch: job -> ticks since it saw the job advance
    left,       \* ticks until systemd kills the daemon
    mode,       \* "serving", "draining", "stopped" or "killed"
    wrote, polled,          \* who acted in this tick
    silence,                \* job -> ticks since its last event
    silent                  \* jobs that were silent for Stall ticks

watchVars == <<active, done, reported, phase, told, events, seen, still, left, mode,
               wrote, polled, silence, silent>>
pauses == <<silence, silent>>

WatchInit ==
    /\ active = Jobs /\ done = [j \in Jobs |-> 0] /\ reported = done
    /\ phase = [j \in Jobs |-> "data"] /\ told = {}
    /\ events = <<>> /\ seen = [j \in Jobs |-> [done |-> 0, phase |-> "none"]]
    /\ still = done /\ left = Extend /\ mode = "serving"
    /\ wrote = {} /\ polled = FALSE
    /\ silence = done /\ silent = {}

Emit(j, event) ==
    /\ events' = IF mode = "draining" THEN Append(events, event) ELSE events
    /\ silence' = [silence EXCEPT ![j] = 0]
Bytes(j, n) == [job |-> j, is |-> "bytes", done |-> n]
Phase(j, name) == [job |-> j, is |-> "phase", name |-> name]
Ended(j) == [job |-> j, is |-> "ended"]
------------------------------------------------------------------------------
(* The jobs.                                                                *)

\* Reporter::report: a progress point; an event only every Step writes.
Write(j) ==
    /\ mode \in {"serving", "draining"}
    /\ j \in active \ wrote /\ j \notin told /\ done[j] < Total
    /\ done' = [done EXCEPT ![j] = @ + 1] /\ wrote' = wrote \cup {j}
    /\ IF done[j] + 1 - reported[j] >= Step
       THEN Emit(j, Bytes(j, done[j] + 1)) /\ reported' = [reported EXCEPT ![j] = done[j] + 1]
       ELSE UNCHANGED <<events, silence, reported>>
    /\ UNCHANGED <<active, phase, told, seen, still, left, mode, polled, silent>>

NextPhase(j) ==
    /\ mode \in {"serving", "draining"}
    /\ j \in active \ wrote /\ phase[j] = "data" /\ done[j] = Total
    /\ phase' = [phase EXCEPT ![j] = "metadata"] /\ wrote' = wrote \cup {j}
    /\ Emit(j, Phase(j, "metadata"))
    /\ UNCHANGED <<active, done, reported, told, seen, still, left, mode, polled, silent>>

\* A job ends when its work is done, or at a progress point once cancelled.
End(j) ==
    /\ mode \in {"serving", "draining"}
    /\ j \in active \ wrote /\ (phase[j] = "metadata" \/ j \in told)
    /\ active' = active \ {j} /\ wrote' = wrote \cup {j}
    /\ Emit(j, Ended(j))
    /\ UNCHANGED <<done, reported, phase, told, seen, still, left, mode, polled,
                   silent>>
------------------------------------------------------------------------------
(* The watch.                                                               *)

\* SIGTERM: the watch subscribes and counts from now.
Signal ==
    /\ mode = "serving" /\ mode' = "draining" /\ left' = Extend
    /\ still' = [j \in Jobs |-> 0] /\ polled' = FALSE
    /\ silence' = [j \in Jobs |-> 0] /\ silent' = {}
    /\ UNCHANGED <<active, done, reported, phase, told, events, seen, wrote>>

\* A second signal cancels every job.
SignalAgain ==
    /\ mode = "draining" /\ active # {} /\ told # active
    /\ told' = active
    /\ UNCHANGED <<active, done, reported, phase, events, seen, still, left, mode,
                   wrote, polled, pauses>>

\* Only a new phase or another number of bytes is an advance.
Advances(s, e) ==
    \/ e.is = "bytes" /\ e.done # s.done
    \/ e.is = "phase" /\ e.name # s.phase

Observe(s, e) ==
    CASE e.is = "bytes" -> [s EXCEPT !.done = e.done]
      [] e.is = "phase" -> [s EXCEPT !.phase = e.name]
      [] OTHER -> s

\* Mutation: one job that hangs outweighs those that advance.
ShouldExtendIfAll(age) == \A j \in active : age[j] < Stall

\* Some job that still runs advanced within the limit.
ShouldExtend(age) == \E j \in active : age[j] < Stall

\* One event of the loop's try_recv.
Receive ==
    /\ mode = "draining" /\ active # {} /\ events # <<>>
    /\ LET e == Head(events)
       IN  /\ seen' = [seen EXCEPT ![e.job] = Observe(@, e)]
           /\ still' = IF Advances(seen[e.job], e) THEN [still EXCEPT ![e.job] = 0] ELSE still
    /\ events' = Tail(events)
    /\ UNCHANGED <<active, done, reported, phase, told, left, mode, wrote, polled, pauses>>

(* Once there is no event left the wait is reported, and systemd gets a new *)
(* deadline while one job advances.                                         *)
Poll ==
    /\ mode = "draining" /\ active # {} /\ events = <<>> /\ ~polled /\ polled' = TRUE
    /\ left' = IF ShouldExtend(still) THEN Extend ELSE left
    /\ UNCHANGED <<active, done, reported, phase, told, events, seen, still, mode,
                   wrote, pauses>>

Exit ==
    /\ mode = "draining" /\ active = {} /\ mode' = "stopped"
    /\ UNCHANGED <<active, done, reported, phase, told, events, seen, still, left,
                   wrote, polled, pauses>>

\* systemd: TimeoutStopSec has run out.
Kill ==
    /\ mode = "draining" /\ active # {} /\ left = 0 /\ mode' = "killed"
    /\ UNCHANGED <<active, done, reported, phase, told, events, seen, still, left,
                   wrote, polled, pauses>>

Capped(n) == IF n < Stall THEN n + 1 ELSE n
Tick ==
    /\ mode = "draining" /\ active # {} /\ polled /\ left > 0
    /\ left' = left - 1 /\ polled' = FALSE /\ wrote' = {}
    /\ still' = [j \in Jobs |-> Capped(still[j])]
    /\ silence' = [j \in Jobs |-> Capped(silence[j])]
    /\ silent' = silent \cup {j \in active : silence'[j] = Stall}
    /\ UNCHANGED <<active, done, reported, phase, told, events, seen, mode>>

WatchNext ==
    \/ \E j \in Jobs : Write(j) \/ NextPhase(j) \/ End(j)
    \/ Signal \/ SignalAgain \/ Receive \/ Poll \/ Exit \/ Kill \/ Tick

(* Time passes, the daemon polls and systemd acts; nothing is assumed of    *)
(* the jobs, which may hang in I/O for good.                                *)
WatchFairness ==
    /\ WF_watchVars(Tick) /\ WF_watchVars(Receive) /\ WF_watchVars(Poll)
    /\ WF_watchVars(Exit) /\ WF_watchVars(Kill)
WatchSpec == WatchInit /\ [][WatchNext]_watchVars /\ WatchFairness
------------------------------------------------------------------------------
(* A stop cuts off only jobs that all had gone silent for the stall limit:  *)
(* a job that keeps reporting is never killed, whatever the others do.      *)
AdvancingIsNotKilled == mode = "killed" => active \subseteq silent

(* A stop always ends, also when every job hangs.                           *)
StopEnds == mode = "draining" ~> mode \in {"stopped", "killed"}
=============================================================================
