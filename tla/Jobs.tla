-------------------------------- MODULE Jobs --------------------------------
(***************************************************************************)
(* The daemon's job registry, its event bus and its shutdown               *)
(* (crates/lr-daemon/src/jobs.rs, `run_job` and `run_verification_job` of  *)
(* service.rs, `drain_on_signal` of main.rs).                              *)
(*                                                                         *)
(* A call is one request that starts a job: the handler subscribes to the  *)
(* bus, registers the job, and leaves two threads behind, a blocking       *)
(* worker that runs the engine and a forwarder that copies the job's       *)
(* events from the bus to the client's stream.  Clients choose job ids and *)
(* may use one again, a restore without an id always does; a captured      *)
(* verification draws a fresh id, and is its own set.                      *)
(*                                                                         *)
(* The bus keeps the last Capacity events for each subscriber; one that    *)
(* falls further behind is told so and loses the oldest.                   *)
(***************************************************************************)
EXTENDS Naturals, Sequences, FiniteSets

CONSTANTS Call,      \* requests that start a job
          Captured,  \* the ones served by run_verification_job
          Id, SetName, \* job ids and set names the other clients choose
          Capacity,  \* of the broadcast channel
          NoCall     \* no run

ASSUME CallAssumption == Captured \subseteq Call /\ Call \cap (Id \cup SetName) = {}
ASSUME CapacityAssumption == Capacity \in Nat \ {0}
ASSUME NoCallAssumption == NoCall \notin Call

JobId == Id \cup Call
JobSet == SetName \cup Call

VARIABLES
  at,        \* where the handler of each call and its forwarder are
  id, set,   \* the job id and the set each call asks for
  worker,    \* its blocking thread
  state,     \* Entry::state by job id; "absent" before the first registration
  runs,      \* the call whose run the entry of a job id stands for
  cancel,    \* calls whose cancellation flag is set
  queue,     \* what each subscriber has still to receive
  lagged,    \* subscribers that lost events
  result,    \* the run whose terminal event the client was sent
  bus,       \* history: the last Started or terminal event sent for each job id
  draining,  \* Jobs::draining
  stopped    \* drain_on_signal has returned

handler == <<at, id, set, worker>>
registry == <<state, runs, cancel>>
streams == <<queue, lagged, result>>
vars == <<handler, registry, streams, bus, draining, stopped>>

Event == [job : JobId, kind : {"started", "progress", "terminal"}, run : Call]
Over == {"Finished", "Failed", "Cancelled"}

TypeOK ==
  /\ at \in [Call -> {"new", "subscribed", "registered", "streaming",
                    "ended", "hung up", "oversized"}]
  /\ id \in [Call -> JobId] /\ set \in [Call -> JobSet]
  /\ worker \in [Call -> {"none", "running", "done"}]
  /\ state \in [JobId -> {"absent", "Running"} \cup Over]
  /\ runs \in [JobId -> Call \cup {NoCall}]
  /\ cancel \subseteq Call
  /\ \A c \in Call : queue[c] \in Seq(Event) /\ Len(queue[c]) <= Capacity
  /\ lagged \subseteq Call
  /\ result \in [Call -> Call \cup {NoCall}]
  /\ bus \in [JobId -> [kind : {"none", "started", "terminal"}, run : Call \cup {NoCall}]]
  /\ draining \in BOOLEAN /\ stopped \in BOOLEAN

Init ==
  /\ at = [c \in Call |-> "new"]
  /\ id = [c \in Call |-> c] /\ set = [c \in Call |-> c]
  /\ worker = [c \in Call |-> "none"]
  /\ state = [i \in JobId |-> "absent"]
  /\ runs = [i \in JobId |-> NoCall]
  /\ cancel = {}
  /\ queue = [c \in Call |-> << >>]
  /\ lagged = {}
  /\ result = [c \in Call |-> NoCall]
  /\ bus = [i \in JobId |-> [kind |-> "none", run |-> NoCall]]
  /\ draining = FALSE /\ stopped = FALSE

-----------------------------------------------------------------------------
(***************************************************************************)
(* The bus.                                                                *)
(***************************************************************************)
Listening(c) == at[c] \in {"subscribed", "registered", "streaming"}

\* `publish`: every subscriber gets the event, a full queue loses its oldest.
Sent(e) ==
  /\ queue' = [c \in Call |->
       IF ~ Listening(c) THEN queue[c]
       ELSE IF Len(queue[c]) = Capacity THEN Append(Tail(queue[c]), e)
       ELSE Append(queue[c], e)]
  /\ lagged' = lagged \cup {c \in Call : Listening(c) /\ Len(queue[c]) = Capacity}

EventOf(c, kind) == [job |-> id[c], kind |-> kind, run |-> c]

-----------------------------------------------------------------------------
(***************************************************************************)
(* A call.                                                                 *)
(***************************************************************************)

\* The receiver exists before the job does.
Subscribe(c, i, s) ==
  /\ at[c] = "new"
  /\ at' = [at EXCEPT ![c] = "subscribed"]
  /\ id' = [id EXCEPT ![c] = i]
  /\ set' = [set EXCEPT ![c] = s]
  /\ UNCHANGED <<worker, registry, streams, bus, draining, stopped>>

Ask(c) ==
  IF c \in Captured THEN Subscribe(c, c, c)
  ELSE \E i \in Id, s \in SetName : Subscribe(c, i, s)

Active(i) == state[i] = "Running"

\* Mutant: sets are not compared.
BusyById(c) == Active(id[c])

\* The same id is running, or another job of the set is.
Busy(c) ==
  \/ Active(id[c])
  \/ \E i \in JobId \ {id[c]} : Active(i) /\ set[runs[i]] = set[c]

\* Mutant: the drain is not looked at under the lock.
RegisterWhileDraining(c) ==
  /\ at[c] = "subscribed"
  /\ ~ Busy(c)
  /\ state' = [state EXCEPT ![id[c]] = "Running"]
  /\ runs' = [runs EXCEPT ![id[c]] = c]
  /\ at' = [at EXCEPT ![c] = "registered"]
  /\ UNCHANGED <<id, set, worker, cancel, streams, bus, draining, stopped>>

\* `register_for` under the entries lock, with a fresh cancellation flag.
Register(c) ==
  /\ at[c] = "subscribed"
  /\ ~ draining /\ ~ Busy(c)
  /\ state' = [state EXCEPT ![id[c]] = "Running"]
  /\ runs' = [runs EXCEPT ![id[c]] = c]
  /\ at' = [at EXCEPT ![c] = "registered"]
  /\ UNCHANGED <<id, set, worker, cancel, streams, bus, draining, stopped>>

\* TargetBusy: the client gets an error and no stream.
Refuse(c) ==
  /\ at[c] = "subscribed"
  /\ draining \/ Busy(c)
  /\ at' = [at EXCEPT ![c] = "ended"]
  /\ queue' = [queue EXCEPT ![c] = << >>]
  /\ lagged' = lagged \ {c}
  /\ UNCHANGED <<id, set, worker, registry, result, bus, draining, stopped>>

\* Started is published after the lock is dropped; then the threads start.
Start(c) ==
  /\ at[c] = "registered"
  /\ Sent(EventOf(c, "started"))
  /\ bus' = [bus EXCEPT ![id[c]] = [kind |-> "started", run |-> c]]
  /\ at' = [at EXCEPT ![c] = "streaming"]
  /\ worker' = [worker EXCEPT ![c] = "running"]
  /\ UNCHANGED <<id, set, registry, result, draining, stopped>>

-----------------------------------------------------------------------------
(***************************************************************************)
(* The worker.                                                             *)
(***************************************************************************)

\* The engine reports a phase or bytes.
Progress(c) ==
  /\ worker[c] = "running"
  /\ Sent(EventOf(c, "progress"))
  /\ UNCHANGED <<handler, registry, result, bus, draining, stopped>>

\* Mutant: the state changes, the terminal event is lost.
FinishSilently(c, outcome) ==
  /\ worker[c] = "running"
  /\ worker' = [worker EXCEPT ![c] = "done"]
  /\ state' = [state EXCEPT ![id[c]] = outcome]
  /\ UNCHANGED <<at, id, set, runs, cancel, streams, bus, draining, stopped>>

\* `finish` and `finish_verification`: the outcome is stored and published
\* under one lock.  A job is cancelled only when it noticed the flag; one that
\* was past its last check, or panicked, ends otherwise.
Finish(c, outcome) ==
  /\ worker[c] = "running"
  /\ outcome = "Cancelled" => c \in cancel
  /\ worker' = [worker EXCEPT ![c] = "done"]
  /\ state' = [state EXCEPT ![id[c]] = outcome]
  /\ Sent(EventOf(c, "terminal"))
  /\ bus' = [bus EXCEPT ![id[c]] = [kind |-> "terminal", run |-> c]]
  /\ UNCHANGED <<at, id, set, runs, cancel, result, draining, stopped>>

-----------------------------------------------------------------------------
(***************************************************************************)
(* The forwarder.                                                          *)
(***************************************************************************)
Quiet == UNCHANGED <<id, set, worker, registry, bus, draining, stopped>>

\* An event of another job is dropped, one of this job's id is sent on, and a
\* terminal one ends the stream.
Forward(c) ==
  /\ at[c] = "streaming" /\ c \notin lagged /\ queue[c] # << >>
  /\ LET e == Head(queue[c])
         last == e.job = id[c] /\ e.kind = "terminal"
     IN  /\ result' = [result EXCEPT ![c] = IF last THEN e.run ELSE @]
         /\ at' = [at EXCEPT ![c] = IF last THEN "ended" ELSE @]
         /\ queue' = [queue EXCEPT ![c] = IF last THEN << >> ELSE Tail(@)]
  /\ UNCHANGED lagged
  /\ Quiet

\* `run_job` takes a lag for the end of the bus: the stream ends.
LagEnds(c) ==
  /\ at[c] = "streaming" /\ c \in lagged /\ c \notin Captured
  /\ at' = [at EXCEPT ![c] = "ended"]
  /\ queue' = [queue EXCEPT ![c] = << >>]
  /\ lagged' = lagged \ {c}
  /\ UNCHANGED result
  /\ Quiet

\* Mutant: a captured verification's stream takes it for the end as well.
LagForgets(c) ==
  /\ at[c] = "streaming" /\ c \in lagged /\ c \in Captured
  /\ at' = [at EXCEPT ![c] = "ended"]
  /\ queue' = [queue EXCEPT ![c] = << >>]
  /\ lagged' = lagged \ {c}
  /\ UNCHANGED result
  /\ Quiet

\* `run_verification_job` looks for the retained result instead.
LagRecovers(c) ==
  /\ at[c] = "streaming" /\ c \in lagged /\ c \in Captured
  /\ LET over == state[id[c]] \in Over
     IN  /\ result' = [result EXCEPT ![c] = IF over THEN runs[id[c]] ELSE @]
         /\ at' = [at EXCEPT ![c] = IF over THEN "ended" ELSE @]
         /\ queue' = [queue EXCEPT ![c] = IF over THEN << >> ELSE @]
  /\ lagged' = lagged \ {c}
  /\ Quiet

\* The client goes away: the next send fails.  The job goes on.
HangUp(c) ==
  /\ at[c] = "streaming"
  /\ at' = [at EXCEPT ![c] = "hung up"]
  /\ queue' = [queue EXCEPT ![c] = << >>]
  /\ lagged' = lagged \ {c}
  /\ UNCHANGED result
  /\ Quiet

\* `check_size`: a captured result over the daemon's limit becomes an error, and
\* the stream ends.
Oversize(c) ==
  /\ at[c] = "streaming" /\ c \in Captured \ lagged /\ queue[c] # << >>
  /\ Head(queue[c]).job = id[c] /\ Head(queue[c]).kind = "terminal"
  /\ at' = [at EXCEPT ![c] = "oversized"]
  /\ queue' = [queue EXCEPT ![c] = << >>]
  /\ UNCHANGED <<lagged, result>>
  /\ Quiet

-----------------------------------------------------------------------------
(***************************************************************************)
(* Cancellation and shutdown.                                              *)
(***************************************************************************)

\* `cancel` sets the flag of whatever run the id stands for now.
CancelJob(i) ==
  /\ state[i] # "absent"
  /\ cancel' = cancel \cup {runs[i]}
  /\ UNCHANGED <<handler, state, runs, streams, bus, draining, stopped>>

\* The first signal.
BeginDrain ==
  /\ ~ draining
  /\ draining' = TRUE
  /\ UNCHANGED <<handler, registry, streams, bus, stopped>>

\* Every further one.
CancelAll ==
  /\ draining /\ ~ stopped
  /\ cancel' = cancel \cup {runs[i] : i \in {k \in JobId : Active(k)}}
  /\ UNCHANGED <<handler, state, runs, streams, bus, draining, stopped>>

\* `active_jobs` is empty: the drain is over and the server goes down.
Drained ==
  /\ draining /\ ~ stopped
  /\ \A i \in JobId : ~ Active(i)
  /\ stopped' = TRUE
  /\ UNCHANGED <<handler, registry, streams, bus, draining>>

Next ==
  \/ \E c \in Call :
       \/ Ask(c) \/ Register(c) \/ Refuse(c) \/ Start(c) \/ Progress(c)
       \/ \E outcome \in Over : Finish(c, outcome)
       \/ Forward(c) \/ LagEnds(c) \/ LagRecovers(c)
       \/ HangUp(c) \/ Oversize(c)
  \/ \E i \in JobId : CancelJob(i)
  \/ BeginDrain \/ CancelAll \/ Drained

Spec == Init /\ [][Next]_vars

\* The handler's thread goes on, a job ends, the drain loop polls, and a
\* captured verification's client keeps reading.
Fairness ==
  /\ \A c \in Call :
       /\ WF_vars(Start(c))
       /\ WF_vars(\E outcome \in Over : Finish(c, outcome))
  /\ \A c \in Captured : WF_vars(Forward(c) \/ LagRecovers(c))
  /\ WF_vars(Drained)

FairSpec == Spec /\ Fairness

-----------------------------------------------------------------------------
(***************************************************************************)
(* Properties.                                                             *)
(***************************************************************************)

\* A run exists from its registration to the end of its worker.
Alive(c) == at[c] = "registered" \/ worker[c] = "running"

\* Two jobs never run on one set at once, although entries are kept by job id
\* and an id may be used again for another set (spec section I).
OneJobPerSet ==
  \A c, d \in Call : (c # d /\ Alive(c) /\ Alive(d)) => set[c] # set[d]

\* The daemon does not go down under a job (D-107): a request that races the
\* signal is refused or waited for.
DrainIsComplete == stopped => \A c \in Call : ~ Alive(c)

\* On the bus a job id's runs follow one another: a run is started only after
\* the run before it, if any, has been reported over, and it is its own end
\* that is reported next (D-131).
RunsDoNotOverlap ==
  [][\A i \in JobId : bus'[i] # bus[i] =>
       IF bus'[i].kind = "terminal"
       THEN bus[i] = [kind |-> "started", run |-> bus'[i].run]
       ELSE bus[i].kind # "started"]_vars

\* The client of a captured verification that keeps reading gets the result of
\* its own run, however far it fell behind (D-135), unless the result is over
\* the daemon's size limit.
CapturedResultArrives ==
  \A c \in Captured :
    worker[c] = "done"
      ~> result[c] = c \/ at[c] \in {"hung up", "oversized"}

\* A client is told of the end of the job it started, and of no other: what a
\* stream reports as the result is the result of its own run, so a late reply
\* cannot finish a newer job (D-131).
StreamReportsItsOwnRun == \A c \in Call : result[c] \in {NoCall, c}
==============================================================================
