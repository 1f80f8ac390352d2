---------------------------- MODULE MC_BackupSet ----------------------------
(***************************************************************************)
(* A backup set and the schedules that fill it for TLC, one scenario per   *)
(* behaviour: jobs on the set that overlap within one second, jobs that    *)
(* come one after another as time passes, and scheduled jobs whose units   *)
(* change.                                                                 *)
(***************************************************************************)
EXTENDS BackupSet, Schedule, TLC

CONSTANTS On,   \* the scenarios of a run
          a, b

VARIABLE on

OneJob == {a}
TwoJobs == {a, b}

\* Neither the order of publication nor its reverse.
Shuffled == [i \in Image |-> (i % MaxImages) + 1]

\* Jobs and schedule calls are interchangeable: no property tells one from another.
Symmetric == Permutations({a, b})

\* One scheduled job: of two sources without a chain timer, of one with, and
\* one whose destination has no path, which no set accepts.
Entry(sources, dest, chain) ==
  [name |-> "a", sources |-> sources, dest |-> dest, calendar |-> "daily", chain |-> chain,
   keep |-> TRUE, type |-> "incremental", encrypt |-> TRUE, passphrase |-> TRUE, safe |-> TRUE]
Two == Entry(<<"s1", "s2">>, "nas", "")
Chained == Entry(<<"s1">>, "/mnt", "daily")

ThreeConfigs == {<<Two>>, <<Chained>>, <<[Two EXCEPT !.dest = "empty"]>>}
NamedDestinations == [d \in {"nas", "empty"} |-> IF d = "nas" THEN "sftp" ELSE ""]

ASSUME ScheduleAssumption

allVars == <<on, vars, scheduleVars>>

\* The scenarios without a schedule start from one of its initial states.
NoSchedule == config = <<Two>> /\ timers = {}

AllInit ==
  /\ on \in On
  /\ Init
  /\ ScheduleInit /\ (on # "schedule" => NoSchedule)

\* At most one job is under way after a step.
InTurn == Cardinality({j \in Job : pc'[j] # "idle"}) <= 1

AllNext ==
  \/ on = "together" /\ Next /\ UNCHANGED <<on, clock, scheduleVars>>
  \/ on = "serial" /\ Next /\ InTurn /\ UNCHANGED <<on, scheduleVars>>
  \/ on = "schedule" /\ ScheduleNext /\ UNCHANGED <<on, vars>>

AllSpec == AllInit /\ [][AllNext]_allVars
==============================================================================
