------------------------------ MODULE Schedule ------------------------------
(* Scheduled jobs: the config file, the systemd units it is turned into,    *)
(* the two operations on them, and what systemd then runs.                  *)
(*                                                                          *)
(* A unit is <<"job" or "newchain", job>> with a service and a timer file;  *)
(* an argument that could break a unit line is an unsafe job.               *)
EXTENDS Naturals, Sequences, FiniteSets, Functions

CONSTANTS
    Configs,    \* configs the file may hold: sequences of job records
    Named,      \* [destinations] entries: name -> path, NoText when it has none
    Names,      \* job names
    Callers,    \* schedule set and schedule remove calls, one each
    MaxEdits,   \* bound on the edits of the config file
    MaxElapses  \* bound on the calendar moments

\* A config is a list of jobs, each with its sources and a name of its unit files.
ScheduleAssumption ==
    \A jobList \in Configs :
        /\ jobList \in Seq(Range(jobList))
        /\ \A i \in DOMAIN jobList : jobList[i].name \in Names /\ jobList[i].sources \in Seq(STRING)

Absent == {}
NoText == ""
UnitKinds == {"job", "newchain"}
Units == UnitKinds \X Names
Files == {<<u, k>> : u \in Units, k \in {"service", "timer"}}

VARIABLES
    config,     \* the config file
    unitFiles,  \* unit directory: file -> {} or {content}
    loaded,     \* the units as systemd knows them
    timers,     \* timers systemd has enabled and started
    units,      \* unit -> "idle", "queued" or "running"
    lines,      \* unit -> ExecStart lines its run has left
    done,       \* unit -> lines of its run that succeeded
    edits, elapses,
    latest,     \* caller that started last
    alone,      \* callers no other one overlapped so far
    caller,     \* caller -> its step
    call        \* caller -> what it works on: units to make, work left, job to remove

scheduleVars == <<config, unitFiles, loaded, timers, units, lines, done, edits, elapses,
                  latest, alone, caller, call>>
runs == <<units, lines, done>>
systemd == <<loaded, timers, runs>>
starts == <<latest, alone>>

NoCall == [plan |-> {}, todo |-> <<>>, job |-> {}]
Go(c, here, there) == caller[c] = here /\ caller' = [caller EXCEPT ![c] = there]

\* A call begins; calls that are under way no longer have systemd to themselves.
Begin(c) ==
    LET busy == {d \in Callers : caller[d] \notin {"idle", "ok", "error"}}
    IN  /\ latest' = c
        /\ alone' = (alone \ busy) \cup (IF busy = {} THEN {c} ELSE {})
------------------------------------------------------------------------------
(* Reading the config and rendering its units.                              *)

\* unit_safe, unit_safe_path, timer_safe: over all of a job's strings.
UnitSafe(job) == job.safe

\* A named destination stands for its path; anything else is taken as written.
ResolveDestination(job) == IF job.dest \in DOMAIN Named THEN Named[job.dest] ELSE job.dest

Validate(jobList) ==
    /\ \A i, k \in DOMAIN jobList : jobList[i].name = jobList[k].name => i = k
    /\ \A i \in DOMAIN jobList :
          LET job == jobList[i]
          IN  /\ UnitSafe(job) /\ job.sources # <<>> /\ job.dest # NoText
              /\ job.calendar # NoText /\ job.type \in {"full", "incremental", "differential"}
              /\ job.encrypt => job.passphrase
              /\ ResolveDestination(job) # NoText

\* Mutation: retention runs before the backups it is to follow.
CommandsRetainFirst(job, type) ==
    (IF job.keep THEN <<[is |-> "retain", sources |-> Range(job.sources)]>> ELSE <<>>)
    \o [i \in DOMAIN job.sources |-> [is |-> type, of |-> job.sources[i]]]

(* One backup per source, then retention; systemd stops at the first that   *)
(* fails.                                                                   *)
Commands(job, type) ==
    [i \in DOMAIN job.sources |-> [is |-> type, of |-> job.sources[i]]]
    \o (IF job.keep THEN <<[is |-> "retain", sources |-> Range(job.sources)]>> ELSE <<>>)

ServiceUnit(after, commands) == [after |-> after, commands |-> commands]
TimerUnit(calendar) == [calendar |-> calendar]

\* The files of one job in the order they are written: <<file, content>>.
RenderJob(job) ==
    LET u == <<"job", job.name>>
        n == <<"newchain", job.name>>
    IN  <<<<<<u, "service">>, ServiceUnit(job.chain # NoText, Commands(job, job.type))>>,
          <<<<u, "timer">>, TimerUnit(job.calendar)>>>>
        \o IF job.chain = NoText THEN <<>>
           ELSE <<<<<<n, "service">>, ServiceUnit(FALSE, Commands(job, "full"))>>,
                  <<<<n, "timer">>, TimerUnit(job.chain)>>>>

RenderAll(jobList) == [i \in DOMAIN jobList |-> RenderJob(jobList[i])]

\* what is written when every list of files is, and the timers among it
Written(lists) == UNION {Range(lists[i]) : i \in DOMAIN lists}
TimersOf(plan) == {p[1][1] : p \in {q \in plan : q[1][2] = "timer"}}

\* An earlier set may have installed units.
ScheduleInit ==
    /\ config \in Configs
    /\ \E earlier \in {<<>>} \cup {c \in Configs : Validate(c)} :
          LET plan == Written(RenderAll(earlier))
          IN  /\ unitFiles = [f \in Files |-> {p[2] : p \in {q \in plan : q[1] = f}}]
              /\ timers = TimersOf(plan)
    /\ loaded = unitFiles
    /\ units = [u \in Units |-> "idle"]
    /\ lines = [u \in Units |-> <<>>] /\ done = [u \in Units |-> {}]
    /\ edits = 0 /\ elapses = 0 /\ latest = "none" /\ alone = {}
    /\ caller = [c \in Callers |-> "idle"] /\ call = [c \in Callers |-> NoCall]
------------------------------------------------------------------------------
(* schedule set.                                                            *)

\* All units are rendered before the first is written.
MaterializeReads(c) ==
    /\ \/ ~Validate(config) /\ Go(c, "idle", "error") /\ call' = call
       \/ /\ Validate(config) /\ Go(c, "idle", "write")
          /\ call' = [call EXCEPT ![c] = [plan |-> Written(RenderAll(config)),
                                          todo |-> RenderAll(config), job |-> {}]]
    /\ Begin(c)
    /\ UNCHANGED <<config, unitFiles, systemd, edits, elapses>>

\* A write that fails leaves the first lines of the file: a service's commands, or a timer
\* without its calendar.  (A line cut short counts as whole or as missing.)
Cut(file, content) ==
    IF file[2] = "timer" THEN {TimerUnit(NoText)}
    ELSE {ServiceUnit(content.after, SubSeq(content.commands, 1, n)) :
             n \in 0 .. Len(content.commands)}

\* fs::write truncates first; when the open itself fails the old file stays.
WriteUnit(c) ==
    /\ call[c].todo # <<>>
    /\ LET first == Head(call[c].todo)
           file == Head(first)[1]
           content == Head(first)[2]
       IN  \/ /\ Go(c, "write", "write")
              /\ unitFiles' = [unitFiles EXCEPT ![file] = {content}]
              /\ call' = [call EXCEPT ![c].todo = IF Len(first) = 1 THEN Tail(@)
                                                ELSE <<Tail(first)>> \o Tail(@)]
           \/ /\ Go(c, "write", "error")
              /\ \/ unitFiles' = unitFiles
                 \/ \E cut \in Cut(file, content) : unitFiles' = [unitFiles EXCEPT ![file] = {cut}]
              /\ call' = call
    /\ UNCHANGED <<config, systemd, edits, elapses, starts>>

DaemonReload(c, here, there) ==
    /\ \/ Go(c, here, there) /\ loaded' = unitFiles
       \/ Go(c, here, "error") /\ loaded' = loaded
    /\ UNCHANGED <<config, unitFiles, timers, runs, edits, elapses, starts, call>>

ReloadAfterSet(c) == call[c].todo = <<>> /\ DaemonReload(c, "write", "enable")

\* systemctl enable --now: every timer of the config, in one call; it may fail at any of them.
EnableTimers(c) ==
    /\ \/ /\ Go(c, "enable", "ok")
          /\ \A u \in TimersOf(call[c].plan) : loaded[<<u, "timer">>] # Absent
          /\ timers' = timers \cup TimersOf(call[c].plan)
       \/ /\ Go(c, "enable", "error")
          /\ \E some \in SUBSET TimersOf(call[c].plan) : timers' = timers \cup some
    /\ UNCHANGED <<config, unitFiles, loaded, runs, edits, elapses, starts, call>>
------------------------------------------------------------------------------
(* schedule remove.                                                         *)

\* Both timers are to be disabled and stopped; what systemctl answers, one of them missing
\* included, is ignored.
RemoveStarts(c) ==
    /\ Go(c, "idle", "delete")
    /\ \E name \in Names :
          LET of == {<<p, name>> : p \in UnitKinds}
          IN  /\ \E stopped \in SUBSET of : timers' = timers \ stopped
              /\ call' = [call EXCEPT ![c] =
                    [plan |-> {}, job |-> {name},
                     todo |-> <<<<<<"job", name>>, "service">>, <<<<"job", name>>, "timer">>,
                                <<<<"newchain", name>>, "service">>,
                                <<<<"newchain", name>>, "timer">>>>]]
    /\ Begin(c)
    /\ UNCHANGED <<config, unitFiles, loaded, runs, edits, elapses>>

DeleteUnit(c) ==
    /\ call[c].todo # <<>>
    /\ \/ /\ Go(c, "delete", "delete")
          /\ unitFiles' = [unitFiles EXCEPT ![Head(call[c].todo)] = Absent]
          /\ call' = [call EXCEPT ![c].todo = Tail(@)]
       \/ Go(c, "delete", "error") /\ UNCHANGED <<unitFiles, call>>
    /\ UNCHANGED <<config, systemd, edits, elapses, starts>>

ReloadAfterRemove(c) ==
    call[c].todo = <<>> /\ DaemonReload(c, "delete", "ok")
------------------------------------------------------------------------------
(* The administrator, and systemd.                                          *)

EditConfig ==
    /\ edits < MaxEdits /\ edits' = edits + 1
    /\ config' \in Configs
    /\ UNCHANGED <<unitFiles, systemd, elapses, starts, caller, call>>

\* Every timer due at a moment queues its service; one that runs is left be.
Elapse(moment) ==
    /\ elapses < MaxElapses /\ elapses' = elapses + 1
    /\ LET due == {u \in timers : \E t \in loaded[<<u, "timer">>] : t.calendar = moment}
       IN  /\ due # {}
           /\ units' = [u \in Units |->
                         IF u \in due /\ units[u] = "idle" /\ loaded[<<u, "service">>] # Absent
                         THEN "queued" ELSE units[u]]
    /\ UNCHANGED <<config, unitFiles, loaded, timers, lines, done, edits, starts, caller, call>>

NewChain(u) == <<"newchain", u[2]>>

\* A queued start waits for the unit its service is ordered after; systemd refuses a service
\* without a command.
StartService(u) ==
    /\ units[u] = "queued"
    /\ \E service \in loaded[<<u, "service">>] :
          /\ service.commands # <<>>
          /\ service.after => units[NewChain(u)] = "idle"
          /\ units' = [units EXCEPT ![u] = "running"]
          /\ lines' = [lines EXCEPT ![u] = service.commands]
          /\ done' = [done EXCEPT ![u] = {}]
    /\ UNCHANGED <<config, unitFiles, loaded, timers, edits, elapses, starts, caller, call>>

\* Type=oneshot: the lines run in order, and a failure ends the run.
ExecStart(u) ==
    /\ units[u] = "running"
    /\ \E ok \in BOOLEAN :
          /\ done' = [done EXCEPT ![u] = IF ok THEN @ \cup {Head(lines[u])} ELSE @]
          /\ lines' = [lines EXCEPT ![u] = IF ok THEN Tail(@) ELSE <<>>]
          /\ units' = [units EXCEPT ![u] = IF ok /\ Len(lines[u]) > 1 THEN @ ELSE "idle"]
    /\ UNCHANGED <<config, unitFiles, loaded, timers, edits, elapses, starts, caller, call>>

\* A start whose unit was removed or refused is dropped.
DropStart(u) ==
    /\ units[u] = "queued"
    /\ \A service \in loaded[<<u, "service">>] : service.commands = <<>>
    /\ units' = [units EXCEPT ![u] = "idle"]
    /\ UNCHANGED <<config, unitFiles, loaded, timers, lines, done, edits, elapses, starts,
                   caller, call>>

ScheduleNext ==
    \/ \E c \in Callers :
          \/ MaterializeReads(c) \/ WriteUnit(c) \/ ReloadAfterSet(c) \/ EnableTimers(c)
          \/ RemoveStarts(c) \/ DeleteUnit(c) \/ ReloadAfterRemove(c)
    \/ EditConfig
    \/ \E m \in {"daily", "weekly"} : Elapse(m)
    \/ \E u \in Units : StartService(u) \/ ExecStart(u) \/ DropStart(u)

ScheduleSpec == ScheduleInit /\ [][ScheduleNext]_scheduleVars
------------------------------------------------------------------------------
(* Retention deletes only behind backups that succeeded: when a run comes   *)
(* to its retention line, every source of the job was just backed up.       *)
RetentionFollowsBackups ==
    \A u \in Units : \A i \in DOMAIN lines[u] :
        lines[u][i].is = "retain" =>
            \A s \in lines[u][i].sources :
                \/ \E k \in 1 .. i - 1 : lines[u][k].is # "retain" /\ lines[u][k].of = s
                \/ \E d \in done[u] : d.is # "retain" /\ d.of = s

(* A call that succeeded with systemd to itself left what it promises, and  *)
(* half-done calls and cut files before it do not show: after a set, the    *)
(* config's units are loaded as rendered and its timers run; after a remove *)
(* systemd knows none of the job's four files, so a timer that could not be *)
(* stopped has neither a calendar nor a service left to run.                *)
CallsTakeEffect ==
    latest \in alone /\ caller[latest] = "ok" =>
        LET made == call[latest]
        IN  /\ \A p \in made.plan : loaded[p[1]] = {p[2]}
            /\ TimersOf(made.plan) \subseteq timers
            /\ \A f \in Files : f[1][2] \in made.job => loaded[f] = Absent

\* What a schedule promises, of its runs and of the calls that change it.
SchedulesHold == RetentionFollowsBackups /\ CallsTakeEffect

=============================================================================
