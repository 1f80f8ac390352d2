------------------------------ MODULE MC_Daemon -------------------------------
(***************************************************************************)
(* The daemon at work for TLC, one scenario per behaviour: the streams of  *)
(* a plain and of a captured job, requests that share permits and job ids, *)
(* exports of the daemon and of a command line, and a stop that waits for  *)
(* jobs.                                                                   *)
(***************************************************************************)
EXTENDS Service, Sequences, TLC

CONSTANTS p, v, job1, job2, set1

VARIABLES on,
          \* Jobs
          at, id, set, worker, state, runs, cancel, queue, lagged, result, bus, draining, stopped,
          \* DrainWatch
          active, written, reported, part, told, events, seen, still, left, mode,
          wrote, polled, silence, silent,
          \* Exports
          socket, server, device, mount, saved, flags, caller, up, crossed

streamVars == <<at, id, set, worker, state, runs, cancel, queue, lagged, result, bus,
                draining, stopped>>
drainVars == <<active, written, reported, part, told, events, seen, still, left, mode,
               wrote, polled, silence, silent>>
exportVars == <<socket, server, device, mount, saved, flags, caller, up, crossed>>
allVars == <<on, streamVars, vars, drainVars, exportVars>>

Streams == INSTANCE Jobs
  WITH Call <- {p, v}, Captured <- {v}, Id <- {job1}, SetName <- {set1},
       Capacity <- 2, NoCall <- None

-----------------------------------------------------------------------------
R(op, uid, name) == [op |-> op, uid |-> uid, id |-> name]

Together ==
  { \* verifications share permits, the budget and the slots
    "c1" :> R("captured", 1, "-") @@ "c2" :> R("captured", 2, "-")
      @@ "c3" :> R("verify", 2, "-") @@ "c4" :> R("result", 2, "c1"),
    "c1" :> R("captured", 1, "-") @@ "c2" :> R("history", 0, "-")
      @@ "c3" :> R("verify", 1, "-") @@ "c4" :> R("verify", 2, "-"),
    \* jobs, their cancellation and the tasks the drain does not know
    "c1" :> R("backup", 1, "job") @@ "c2" :> R("cancel", 2, "job")
      @@ "c3" :> R("direct", 1, "-") @@ "c4" :> R("restore", 1, "job") }

-----------------------------------------------------------------------------
Stop == INSTANCE DrainWatch
  WITH Jobs <- {job1, job2}, Total <- 3, Step <- 1, Stall <- 2, Extend <- 4,
       done <- written, phase <- part

-----------------------------------------------------------------------------
Mountpoints == "cli" :> {"m1"} @@ "task1" :> {"m2"} @@ "task2" :> {"m3"}

Session == INSTANCE Exports
  WITH Cli <- {"cli"}, Tasks <- {"task1", "task2"}, MountsOf <- Mountpoints,
       Devices <- {0, 1}, MaxServers <- 2, None <- None

ASSUME Session!ExportsAssumption /\ Stop!WatchAssumption

-----------------------------------------------------------------------------
\* Exports of two callers: of the daemon and a command line, or of the daemon.
Exporting == {"cli", "task2"}

\* Where no scenario of a machine runs it keeps one initial state.
AllInit ==
  /\ on \in {"streams", "requests", "stop"} \cup Exporting
  /\ Streams!Init
  /\ Stop!WatchInit
  /\ Session!Init
  /\ Init
  /\ on # "requests" => req["c2"].op = "cancel"

InStreams(A) ==
  on = "streams" /\ A /\ UNCHANGED <<on, vars, drainVars, exportVars>>
InRequests(A) ==
  on = "requests" /\ A /\ UNCHANGED <<on, streamVars, drainVars, exportVars>>
InStop(A) ==
  on = "stop" /\ A /\ UNCHANGED <<on, streamVars, vars, exportVars>>
InExports(A) ==
  on \in Exporting /\ A /\ UNCHANGED <<on, streamVars, vars, drainVars>>

AllNext ==
  \/ InStreams(Streams!Next)
  \/ InRequests(Next)
  \/ InStop(Stop!WatchNext)
  \/ InExports(Session!Serving \/ Session!Calling("task1") \/ Session!Calling(on))

\* The fairness of Jobs, Service, DrainWatch and Exports, each in its own scenario.
AllFairness ==
  /\ \A c \in {p, v} :
       /\ WF_streamVars(InStreams(Streams!Start(c)))
       /\ WF_streamVars(InStreams(\E outcome \in Streams!Over : Streams!Finish(c, outcome)))
  /\ WF_streamVars(InStreams(Streams!Forward(v) \/ Streams!LagRecovers(v)))
  /\ WF_streamVars(InStreams(Streams!Drained))
  /\ \A c \in Calls :
       WF_vars(InRequests(Handler(c))) /\ WF_vars(InRequests(Task(c)))
  /\ WF_drainVars(InStop(Stop!Tick)) /\ WF_drainVars(InStop(Stop!Poll))
  /\ WF_drainVars(InStop(Stop!Receive))
  /\ WF_drainVars(InStop(Stop!Exit)) /\ WF_drainVars(InStop(Stop!Kill))
  /\ \A c \in {"cli", "task1", "task2"} : WF_exportVars(InExports(Session!GoesOn(c)))
  /\ \A s \in Session!Servers :
       /\ WF_exportVars(InExports(Session!Bind(s) \/ Session!BindFails(s)))
       /\ WF_exportVars(InExports(Session!ServerEnds(s)))

AllSpec == AllInit /\ [][AllNext]_allVars /\ AllFairness

-----------------------------------------------------------------------------
\* The client of a captured verification that keeps reading gets the result of
\* its own run, however far it fell behind (Jobs).
CapturedResultArrives == Streams!CapturedResultArrives

\* A stop cuts off only jobs that all had gone silent for the stall limit, and
\* it always ends, also when every job hangs (DrainWatch).
StopSparesTheAdvancing ==
  /\ [](on = "stop" => Stop!AdvancingIsNotKilled)
  /\ Stop!StopEnds

\* The mountpoint of an export that succeeded shows the image it named, and a
\* server whose export was taken down ends, whatever other exports do (Exports).
MountShowsItsImage ==
  /\ [](on \in Exporting => Session!MountShowsItsImage)
  /\ Session!UnexportedServerEnds
===============================================================================
