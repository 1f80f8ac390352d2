---------------------------- MODULE DaemonProofs -----------------------------
(***************************************************************************)
(* What the daemon promises of its job registry (Jobs), of its start       *)
(* (Startup) and of the jobs a stop waits for (DrainWatch).                *)
(***************************************************************************)
EXTENDS Jobs, Startup, DrainWatch, FiniteSetTheorems, TLAPS

------------------------------------------------------------------------------
(***************************************************************************)
(* The registry's promises, for any number of calls, job ids, sets and any *)
(* bus capacity: one job per set, a drain that leaves no job behind, runs  *)
(* of one id that follow one another on the bus, and captured streams that *)
(* end with their own run's result.                                        *)
(*                                                                         *)
(* None is inductive.  The registry keeps entries by job id while they     *)
(* speak of runs, so the proof needs the correspondence between the two:   *)
(* a live run is what its id's Running entry stands for, and a Running     *)
(* entry stands for a live run of that id (EntriesAreRuns).  The bus adds  *)
(* that the last event of an id tells how its entry stands (BusInv), the   *)
(* streams that nobody else is ever given a captured call's id, so that no *)
(* event of another run can be in its queue (StreamInv).                   *)
(***************************************************************************)
RegistryType ==
  /\ at \in [Call -> {"new", "subscribed", "registered", "streaming",
                      "ended", "hung up", "oversized"}]
  /\ id \in [Call -> JobId] /\ set \in [Call -> JobSet]
  /\ worker \in [Call -> {"none", "running", "done"}]
  /\ state \in [JobId -> {"absent", "Running"} \cup Over]
  /\ runs \in [JobId -> Call \cup {NoCall}]
  /\ draining \in BOOLEAN /\ stopped \in BOOLEAN

\* A call has no worker before its job is registered and Started is out.
WorkersAreRegistered ==
  \A c \in Call : at[c] \in {"new", "subscribed", "registered"} => worker[c] = "none"

EntriesAreRuns ==
  /\ \A c \in Call : Alive(c) => Active(id[c]) /\ runs[id[c]] = c
  /\ \A i \in JobId : Active(i) => /\ runs[i] \in Call
                                   /\ Alive(runs[i])
                                   /\ id[runs[i]] = i

StoppedIsDrained == stopped => draining /\ \A i \in JobId : ~ Active(i)

RegistryInv ==
  /\ RegistryType
  /\ WorkersAreRegistered
  /\ EntriesAreRuns
  /\ StoppedIsDrained
  /\ OneJobPerSet

LEMMA RegistryInit == Init => RegistryInv
<1> SUFFICES ASSUME Init PROVE RegistryInv
  OBVIOUS
<1>1. RegistryType
  BY DEF Init, RegistryType, JobId, JobSet, Over
<1>2. (\A c \in Call : ~ Alive(c)) /\ (\A i \in JobId : ~ Active(i)) /\ ~ stopped
  BY DEF Init, Alive, Active
<1>3. WorkersAreRegistered
  BY DEF Init, WorkersAreRegistered
<1> QED
  BY <1>1, <1>2, <1>3 DEF RegistryInv, EntriesAreRuns, StoppedIsDrained, OneJobPerSet

\* A step that leaves the registry, the handlers and the drain alone.
LEMMA RegistryUntouched ==
  ASSUME RegistryInv,
         UNCHANGED <<at, id, set, worker, state, runs, draining, stopped>>
  PROVE  RegistryInv'
<1>1. RegistryType' /\ WorkersAreRegistered' /\ StoppedIsDrained'
  BY DEF RegistryInv, RegistryType, WorkersAreRegistered, StoppedIsDrained, Active
<1>2. EntriesAreRuns' <=> EntriesAreRuns
  BY DEF EntriesAreRuns, Alive, Active
<1>3. OneJobPerSet' <=> OneJobPerSet
  BY DEF OneJobPerSet, Alive
<1> QED
  BY <1>1, <1>2, <1>3 DEF RegistryInv

\* A stream that ends or goes on: only `at` changes, of a call that is streaming.
LEMMA StreamStep ==
  ASSUME RegistryInv, NEW c \in Call, at[c] = "streaming",
         NEW s \in {"streaming", "ended", "hung up", "oversized"},
         at' = [at EXCEPT ![c] = s],
         UNCHANGED <<id, set, worker, state, runs, draining, stopped>>
  PROVE  RegistryInv'
<1>1. RegistryType'
  BY DEF RegistryInv, RegistryType
<1>2. \A d \in Call : Alive(d)' <=> Alive(d)
  BY DEF RegistryInv, RegistryType, Alive
<1>3. WorkersAreRegistered'
  BY DEF RegistryInv, RegistryType, WorkersAreRegistered
<1>4. EntriesAreRuns' /\ StoppedIsDrained' /\ OneJobPerSet'
  BY <1>2 DEF RegistryInv, EntriesAreRuns, StoppedIsDrained, OneJobPerSet, Active
<1> QED
  BY <1>1, <1>3, <1>4 DEF RegistryInv

LEMMA SubscribeStep ==
  ASSUME RegistryInv, NEW c \in Call, NEW i \in JobId, NEW s \in JobSet,
         Subscribe(c, i, s)
  PROVE  RegistryInv'
<1>1. RegistryType'
  BY DEF RegistryInv, RegistryType, Subscribe, registry
<1>2. ~ Alive(c) /\ ~ Alive(c)'
  BY DEF RegistryInv, RegistryType, WorkersAreRegistered, Alive, Subscribe
<1>3. \A d \in Call \ {c} : /\ Alive(d)' <=> Alive(d)
                            /\ id'[d] = id[d] /\ set'[d] = set[d]
  BY DEF RegistryInv, RegistryType, Alive, Subscribe
<1>4. WorkersAreRegistered'
  BY DEF RegistryInv, RegistryType, WorkersAreRegistered, Subscribe
<1>5. EntriesAreRuns'
  BY <1>2, <1>3 DEF RegistryInv, EntriesAreRuns, Active, Subscribe, registry
<1>6. StoppedIsDrained' /\ OneJobPerSet'
  BY <1>2, <1>3 DEF RegistryInv, StoppedIsDrained, OneJobPerSet, Active, Subscribe, registry
<1> QED
  BY <1>1, <1>4, <1>5, <1>6 DEF RegistryInv

\* The one step that adds a run: the guard is what keeps the set to one job.
LEMMA RegisterStep ==
  ASSUME RegistryInv, NEW c \in Call, Register(c)
  PROVE  RegistryInv'
<1>1. RegistryType'
  BY DEF RegistryInv, RegistryType, Register
<1>2. id[c] \in JobId /\ ~ Active(id[c]) /\ Active(id[c])' /\ runs'[id[c]] = c
  BY DEF RegistryInv, RegistryType, Register, Busy, Active
<1>3. \A i \in JobId \ {id[c]} : (Active(i)' <=> Active(i)) /\ runs'[i] = runs[i]
  BY DEF RegistryInv, RegistryType, Register, Active
<1>4. ~ Alive(c) /\ Alive(c)'
  BY DEF RegistryInv, RegistryType, WorkersAreRegistered, Alive, Register
<1>5. \A d \in Call \ {c} : Alive(d)' <=> Alive(d)
  BY DEF RegistryInv, RegistryType, Alive, Register
<1>6. \A d \in Call : Alive(d) => id[d] \in JobId \ {id[c]} /\ Active(id[d]) /\ runs[id[d]] = d
  BY <1>2 DEF RegistryInv, RegistryType, EntriesAreRuns
<1>7. UNCHANGED <<id, set, worker, draining, stopped>> /\ ~ draining
  BY DEF Register
<1>8. WorkersAreRegistered'
  BY DEF RegistryInv, RegistryType, WorkersAreRegistered, Register
<1>9. EntriesAreRuns'
  <2>1. \A d \in Call : Alive(d)' => Active(id[d])' /\ runs'[id'[d]] = d
    BY <1>2, <1>3, <1>5, <1>6, <1>7
  <2>2. ASSUME NEW i \in JobId, Active(i)'
        PROVE  runs'[i] \in Call /\ Alive(runs[i])' /\ id'[runs'[i]] = i
    <3>1. CASE i = id[c]
      BY <3>1, <1>2, <1>4, <1>7
    <3>2. CASE i # id[c]
      <4>1. Active(i) /\ runs'[i] = runs[i]
        BY <3>2, <2>2, <1>3
      <4>2. runs[i] \in Call /\ Alive(runs[i]) /\ id[runs[i]] = i
        BY <4>1 DEF RegistryInv, EntriesAreRuns
      <4> QED
        BY <4>1, <4>2, <1>4, <1>5, <1>7
    <3> QED
      BY <3>1, <3>2
  <2>3. (EntriesAreRuns)' <=>
          /\ \A d \in Call : Alive(d)' => Active(id[d])' /\ runs'[id'[d]] = d
          /\ \A i \in JobId : Active(i)' => /\ runs'[i] \in Call
                                            /\ Alive(runs[i])'
                                            /\ id'[runs'[i]] = i
    BY DEF EntriesAreRuns, Active, Alive
  <2> QED
    BY <2>1, <2>2, <2>3
<1>10. StoppedIsDrained'
  BY <1>7 DEF RegistryInv, StoppedIsDrained
<1>11. OneJobPerSet'
  <2>1. \A d \in Call \ {c} : Alive(d) => set[d] # set[c]
    BY <1>6 DEF Register, Busy
  <2> QED
    BY <2>1, <1>5, <1>7 DEF RegistryInv, OneJobPerSet
<1> QED
  BY <1>1, <1>8, <1>9, <1>10, <1>11 DEF RegistryInv

LEMMA RefuseStep ==
  ASSUME RegistryInv, NEW c \in Call, Refuse(c)
  PROVE  RegistryInv'
<1>1. RegistryType' /\ WorkersAreRegistered'
  BY DEF RegistryInv, RegistryType, WorkersAreRegistered, Refuse, registry
<1>2. \A d \in Call : Alive(d)' <=> Alive(d)
  BY DEF RegistryInv, RegistryType, WorkersAreRegistered, Alive, Refuse
<1>3. EntriesAreRuns' /\ StoppedIsDrained' /\ OneJobPerSet'
  BY <1>2 DEF RegistryInv, EntriesAreRuns, StoppedIsDrained, OneJobPerSet, Active, Refuse,
     registry
<1> QED
  BY <1>1, <1>3 DEF RegistryInv

LEMMA StartStep ==
  ASSUME RegistryInv, NEW c \in Call, Start(c)
  PROVE  RegistryInv'
<1>1. RegistryType' /\ WorkersAreRegistered'
  BY DEF RegistryInv, RegistryType, WorkersAreRegistered, Start, registry
<1>2. \A d \in Call : Alive(d)' <=> Alive(d)
  BY DEF RegistryInv, RegistryType, Alive, Start
<1>3. EntriesAreRuns' /\ StoppedIsDrained' /\ OneJobPerSet'
  BY <1>2 DEF RegistryInv, EntriesAreRuns, StoppedIsDrained, OneJobPerSet, Active, Start,
     registry
<1> QED
  BY <1>1, <1>3 DEF RegistryInv

LEMMA FinishStep ==
  ASSUME RegistryInv, NEW c \in Call, NEW outcome \in Over, Finish(c, outcome)
  PROVE  RegistryInv'
<1>1. RegistryType' /\ WorkersAreRegistered'
  BY DEF RegistryInv, RegistryType, WorkersAreRegistered, Finish
<1>2. UNCHANGED <<at, id, set, runs, draining, stopped>>
  BY DEF Finish
<1>3. Alive(c) /\ id[c] \in JobId /\ runs[id[c]] = c
  BY DEF RegistryInv, RegistryType, EntriesAreRuns, Alive, Finish
<1>4. ~ Alive(c)' /\ ~ Active(id[c])'
  BY <1>3 DEF RegistryInv, RegistryType, WorkersAreRegistered, Alive, Active, Finish, Over
<1>5. \A d \in Call \ {c} : Alive(d)' <=> Alive(d)
  BY DEF RegistryInv, RegistryType, Alive, Finish
<1>6. \A i \in JobId \ {id[c]} : Active(i)' <=> Active(i)
  BY DEF RegistryInv, RegistryType, Active, Finish
<1>7. EntriesAreRuns'
  <2>1. ASSUME NEW d \in Call, Alive(d)'
        PROVE  Active(id[d])' /\ runs[id[d]] = d
    <3>1. Alive(d) /\ d # c
      BY <2>1, <1>4, <1>5
    <3>2. Active(id[d]) /\ runs[id[d]] = d /\ id[d] \in JobId
      BY <3>1 DEF RegistryInv, RegistryType, EntriesAreRuns
    <3> QED
      BY <3>1, <3>2, <1>2, <1>3, <1>6 DEF Active
  <2>2. ASSUME NEW i \in JobId, Active(i)'
        PROVE  runs[i] \in Call /\ Alive(runs[i])' /\ id[runs[i]] = i
    <3>1. i # id[c] /\ Active(i)
      BY <2>2, <1>2, <1>4, <1>6 DEF Active
    <3>2. runs[i] \in Call /\ Alive(runs[i]) /\ id[runs[i]] = i
      BY <3>1 DEF RegistryInv, EntriesAreRuns
    <3> QED
      BY <3>1, <3>2, <1>2, <1>3, <1>5 DEF Alive
  <2>3. (EntriesAreRuns)' <=>
          /\ \A d \in Call : Alive(d)' => Active(id[d])' /\ runs'[id'[d]] = d
          /\ \A i \in JobId : Active(i)' => /\ runs'[i] \in Call
                                            /\ Alive(runs[i])'
                                            /\ id'[runs'[i]] = i
    BY DEF EntriesAreRuns, Active, Alive
  <2> QED
    BY <2>1, <2>2, <2>3, <1>2
<1>8. StoppedIsDrained'
  BY <1>2, <1>4, <1>6 DEF RegistryInv, StoppedIsDrained
<1>9. OneJobPerSet'
  BY <1>2, <1>4, <1>5 DEF RegistryInv, OneJobPerSet
<1> QED
  BY <1>1, <1>7, <1>8, <1>9 DEF RegistryInv

LEMMA DrainStep ==
  ASSUME RegistryInv, BeginDrain \/ Drained
  PROVE  RegistryInv'
<1>1. UNCHANGED <<at, id, set, worker, state, runs>>
  BY DEF BeginDrain, Drained, handler, registry
<1>2. RegistryType' /\ WorkersAreRegistered'
  BY <1>1 DEF RegistryInv, RegistryType, WorkersAreRegistered, BeginDrain, Drained
<1>3. EntriesAreRuns' <=> EntriesAreRuns
  BY <1>1 DEF EntriesAreRuns, Alive, Active
<1>4. OneJobPerSet' <=> OneJobPerSet
  BY <1>1 DEF OneJobPerSet, Alive
<1>5. StoppedIsDrained'
  BY <1>1 DEF RegistryInv, RegistryType, StoppedIsDrained, Active, BeginDrain, Drained
<1> QED
  BY <1>2, <1>3, <1>4, <1>5 DEF RegistryInv

LEMMA RegistryNext ==
  ASSUME RegistryInv, [Next]_vars
  PROVE  RegistryInv'
<1>1. CASE UNCHANGED vars
  BY <1>1, RegistryUntouched DEF vars, handler, registry
<1>2. ASSUME NEW c \in Call, Ask(c)
      PROVE  RegistryInv'
  BY <1>2, SubscribeStep DEF Ask, JobId, JobSet
<1>3. ASSUME NEW c \in Call, Register(c) \/ Refuse(c) \/ Start(c)
      PROVE  RegistryInv'
  BY <1>3, RegisterStep, RefuseStep, StartStep
<1>4. ASSUME NEW c \in Call, Progress(c)
      PROVE  RegistryInv'
  BY <1>4, RegistryUntouched DEF Progress, handler, registry
<1>5. ASSUME NEW c \in Call, NEW outcome \in Over, Finish(c, outcome)
      PROVE  RegistryInv'
  BY <1>5, FinishStep
<1>6. ASSUME NEW c \in Call,
             Forward(c) \/ LagEnds(c) \/ LagRecovers(c) \/ HangUp(c) \/ Oversize(c)
      PROVE  RegistryInv'
  <2>1. at[c] = "streaming" /\ UNCHANGED <<id, set, worker, state, runs, draining, stopped>>
    BY <1>6 DEF Forward, LagEnds, LagRecovers, HangUp, Oversize, Quiet, registry
  <2>2. \E s \in {"streaming", "ended", "hung up", "oversized"} :
          at' = [at EXCEPT ![c] = s]
    BY <1>6, <2>1 DEF Forward, LagEnds, LagRecovers, HangUp, Oversize
  <2> QED
    BY <2>1, <2>2, StreamStep
<1>7. ASSUME NEW i \in JobId, CancelJob(i)
      PROVE  RegistryInv'
  BY <1>7, RegistryUntouched DEF CancelJob, handler
<1>8. CASE CancelAll
  BY <1>8, RegistryUntouched DEF CancelAll, handler
<1>9. CASE BeginDrain \/ Drained
  BY <1>9, DrainStep
<1> QED
  BY <1>1, <1>2, <1>3, <1>4, <1>5, <1>6, <1>7, <1>8, <1>9 DEF Next

LEMMA RegistryInvariant == Spec => []RegistryInv
<1>1. Init => RegistryInv
  BY RegistryInit
<1>2. RegistryInv /\ [Next]_vars => RegistryInv'
  BY RegistryNext
<1> QED
  BY <1>1, <1>2, PTL DEF Spec

\* Two live runs never share a set, however ids are reused: `register_for`
\* decides under one lock from entries that are exactly the live runs.
THEOREM OneRunPerSet == Spec => []OneJobPerSet
<1>1. RegistryInv => OneJobPerSet
  BY DEF RegistryInv
<1> QED
  BY <1>1, RegistryInvariant, PTL

\* When the drain returns no run is live, and none starts afterwards: a request
\* that races the signal was refused, or counted by `active_jobs` and waited for.
THEOREM DrainLeavesNothing == Spec => []DrainIsComplete
<1>1. RegistryInv => DrainIsComplete
  BY DEF RegistryInv, RegistryType, EntriesAreRuns, StoppedIsDrained, DrainIsComplete
<1> QED
  BY <1>1, RegistryInvariant, PTL

-----------------------------------------------------------------------------
(***************************************************************************)
(* The bus.  The last event of a job id is Started exactly while a worker  *)
(* of that id runs, so runs of one id follow one another on the bus.       *)
(***************************************************************************)
BusInv ==
  /\ bus \in [JobId -> [kind : {"none", "started", "terminal"}, run : Call \cup {NoCall}]]
  /\ \A c \in Call : worker[c] = "running" => bus[id[c]] = [kind |-> "started", run |-> c]
  /\ \A i \in JobId : bus[i].kind = "started" =>
       bus[i].run \in Call /\ worker[bus[i].run] = "running" /\ id[bus[i].run] = i

\* What RunsDoNotOverlap says of one step.
BusFollows ==
  \A i \in JobId : bus'[i] # bus[i] =>
    IF bus'[i].kind = "terminal"
    THEN bus[i] = [kind |-> "started", run |-> bus'[i].run]
    ELSE bus[i].kind # "started"

LEMMA BusInit == Init => BusInv
BY DEF Init, BusInv

\* Of the runs of one id at most one is live.
LEMMA OneRunPerId ==
  ASSUME RegistryInv, NEW c \in Call, NEW d \in Call, Alive(c), Alive(d), id[c] = id[d]
  PROVE  c = d
BY DEF RegistryInv, EntriesAreRuns

LEMMA BusStart ==
  ASSUME RegistryInv, BusInv, NEW c \in Call, Start(c)
  PROVE  BusInv' /\ BusFollows
<1>1. /\ id[c] \in JobId /\ worker[c] = "none" /\ Alive(c) /\ id' = id
      /\ bus' = [bus EXCEPT ![id[c]] = [kind |-> "started", run |-> c]]
      /\ worker' = [worker EXCEPT ![c] = "running"]
  BY DEF RegistryInv, RegistryType, WorkersAreRegistered, Start, Alive
<1>2. bus[id[c]].kind # "started"
  <2> SUFFICES ASSUME bus[id[c]].kind = "started" PROVE FALSE
    OBVIOUS
  <2>1. /\ bus[id[c]].run \in Call /\ worker[bus[id[c]].run] = "running"
        /\ id[bus[id[c]].run] = id[c]
    BY <1>1 DEF BusInv
  <2>2. bus[id[c]].run = c
    BY <1>1, <2>1, OneRunPerId DEF Alive
  <2> QED
    BY <1>1, <2>1, <2>2
<1>3. ASSUME NEW d \in Call, worker[d] = "running" PROVE id[d] # id[c]
  <2>1. bus[id[d]] = [kind |-> "started", run |-> d]
    BY <1>3 DEF BusInv
  <2>2. bus[id[d]].kind = "started"
    BY <2>1
  <2> QED
    BY <1>2, <2>2
<1>4. /\ worker' \in [Call -> {"none", "running", "done"}] /\ worker'[c] = "running"
      /\ \A d \in Call \ {c} : worker'[d] = worker[d]
  BY <1>1 DEF RegistryInv, RegistryType
<1>5. /\ bus'[id[c]] = [kind |-> "started", run |-> c]
      /\ \A i \in JobId \ {id[c]} : bus'[i] = bus[i]
      /\ bus' \in [JobId -> [kind : {"none", "started", "terminal"}, run : Call \cup {NoCall}]]
  BY <1>1 DEF BusInv
<1>6. BusFollows
  BY <1>2, <1>5 DEF BusFollows
<1>7. \A d \in Call : id[d] \in JobId
  BY DEF RegistryInv, RegistryType
<1>8. \A d \in Call : worker'[d] = "running" => bus'[id[d]] = [kind |-> "started", run |-> d]
  BY <1>3, <1>4, <1>5, <1>7 DEF BusInv
<1>9. \A i \in JobId : bus'[i].kind = "started" =>
        bus'[i].run \in Call /\ worker'[bus'[i].run] = "running" /\ id[bus'[i].run] = i
  BY <1>1, <1>4, <1>5 DEF BusInv
<1> QED
  BY <1>1, <1>5, <1>6, <1>8, <1>9 DEF BusInv

LEMMA BusFinish ==
  ASSUME RegistryInv, BusInv, NEW c \in Call, NEW outcome \in Over, Finish(c, outcome)
  PROVE  BusInv' /\ BusFollows
<1>1. /\ id[c] \in JobId /\ worker[c] = "running" /\ id' = id
      /\ bus' = [bus EXCEPT ![id[c]] = [kind |-> "terminal", run |-> c]]
      /\ worker' = [worker EXCEPT ![c] = "done"]
  BY DEF RegistryInv, RegistryType, Finish
<1>2. bus[id[c]] = [kind |-> "started", run |-> c]
  BY <1>1 DEF BusInv
<1>3. /\ worker' \in [Call -> {"none", "running", "done"}] /\ worker'[c] = "done"
      /\ \A d \in Call \ {c} : worker'[d] = worker[d]
  BY <1>1 DEF RegistryInv, RegistryType
<1>4. /\ bus'[id[c]] = [kind |-> "terminal", run |-> c]
      /\ \A i \in JobId \ {id[c]} : bus'[i] = bus[i]
      /\ bus' \in [JobId -> [kind : {"none", "started", "terminal"}, run : Call \cup {NoCall}]]
  BY <1>1 DEF BusInv
<1>5. BusFollows
  BY <1>2, <1>4 DEF BusFollows
<1>6. \A d \in Call : id[d] \in JobId
  BY DEF RegistryInv, RegistryType
<1>7. ASSUME NEW d \in Call, worker'[d] = "running" PROVE d # c /\ id[d] # id[c]
  <2>1. d # c /\ worker[d] = "running"
    BY <1>3, <1>7
  <2>2. id[d] # id[c]
    BY <1>1, <2>1, OneRunPerId DEF Alive
  <2> QED
    BY <2>1, <2>2
<1>8. \A d \in Call : worker'[d] = "running" => bus'[id[d]] = [kind |-> "started", run |-> d]
  BY <1>3, <1>4, <1>6, <1>7 DEF BusInv
<1>9. \A i \in JobId : bus'[i].kind = "started" =>
        bus'[i].run \in Call /\ worker'[bus'[i].run] = "running" /\ id[bus'[i].run] = i
  BY <1>1, <1>3, <1>4 DEF BusInv
<1> QED
  BY <1>1, <1>4, <1>5, <1>8, <1>9 DEF BusInv

\* A step that starts or ends no worker; only a call that is new gets its id.
LEMMA BusUntouched ==
  ASSUME RegistryInv, BusInv, UNCHANGED <<worker, bus>>,
         \A c \in Call : id'[c] = id[c] \/ at[c] = "new"
  PROVE  BusInv' /\ BusFollows
<1>1. \A c \in Call : worker[c] = "running" => id'[c] = id[c]
  BY DEF RegistryInv, WorkersAreRegistered
<1> QED
  BY <1>1 DEF BusInv, BusFollows

LEMMA BusNext ==
  ASSUME RegistryInv, BusInv, [Next]_vars
  PROVE  BusInv' /\ BusFollows
<1>1. CASE UNCHANGED vars
  BY <1>1, BusUntouched DEF vars, handler
<1>2. ASSUME NEW c \in Call, Ask(c)
      PROVE  BusInv' /\ BusFollows
  <2>1. PICK i \in JobId, s \in JobSet : Subscribe(c, i, s)
    BY <1>2 DEF Ask, JobId, JobSet
  <2>2. \A d \in Call : id'[d] = id[d] \/ at[d] = "new"
    BY <2>1 DEF Subscribe, RegistryInv, RegistryType
  <2> QED
    BY <2>1, <2>2, BusUntouched DEF Subscribe
<1>3. ASSUME NEW c \in Call, Start(c)
      PROVE  BusInv' /\ BusFollows
  BY <1>3, BusStart
<1>4. ASSUME NEW c \in Call, NEW outcome \in Over, Finish(c, outcome)
      PROVE  BusInv' /\ BusFollows
  BY <1>4, BusFinish
<1>5. ASSUME NEW c \in Call, \/ Register(c) \/ Refuse(c) \/ Progress(c) \/ Forward(c)
                            \/ LagEnds(c) \/ LagRecovers(c) \/ HangUp(c) \/ Oversize(c)
      PROVE  BusInv' /\ BusFollows
  <2>1. UNCHANGED <<id, worker, bus>>
    BY <1>5 DEF Register, Refuse, Progress, Forward, LagEnds, LagRecovers, HangUp, Oversize,
       Quiet, handler
  <2> QED
    BY <2>1, BusUntouched
<1>6. ASSUME NEW i \in JobId, CancelJob(i)
      PROVE  BusInv' /\ BusFollows
  BY <1>6, BusUntouched DEF CancelJob, handler
<1>7. CASE BeginDrain \/ CancelAll \/ Drained
  BY <1>7, BusUntouched DEF BeginDrain, CancelAll, Drained, handler
<1> QED
  BY <1>1, <1>2, <1>3, <1>4, <1>5, <1>6, <1>7 DEF Next

LEMMA BusInvariant == Spec => []BusInv
<1>1. RegistryInv /\ BusInv /\ [Next]_vars => BusInv'
  BY BusNext
<1> QED
  BY <1>1, BusInit, RegistryInvariant, PTL DEF Spec

\* On the bus the runs of a job id never overlap, although clients reuse ids:
\* Started follows the end of the run before, and each end follows its own
\* Started (`publish` in `register_for`, `finish` and `finish_verification`).
THEOREM RunsFollowOneAnother == Spec => RunsDoNotOverlap
<1>1. RegistryInv /\ BusInv /\ [Next]_vars => [BusFollows]_vars
  BY BusNext
<1>2. BusFollows <=> \A i \in JobId : bus'[i] # bus[i] =>
        IF bus'[i].kind = "terminal"
        THEN bus[i] = [kind |-> "started", run |-> bus'[i].run]
        ELSE bus[i].kind # "started"
  BY DEF BusFollows
<1> QED
  BY <1>1, <1>2, BusInvariant, RegistryInvariant, PTL DEF Spec, RunsDoNotOverlap

-----------------------------------------------------------------------------
(***************************************************************************)
(* Captured verifications.  Their ids are drawn fresh, so every event and  *)
(* every entry under such an id is of the one run that has it.  A client   *)
(* that names its own job id has no such promise: run jobs_reused_id shows *)
(* a plain stream that reports the end of another run.                     *)
(***************************************************************************)
\* The calls that asked for job id i.
Asked(r, i) == r \in Call /\ at[r] # "new" /\ id[r] = i

IdsAreDrawn ==
  \A c \in Call : IF c \in Captured THEN id[c] = c ELSE at[c] # "new" => id[c] \in Id

EventsAreAttributed ==
  /\ queue \in [Call -> Seq(Event)]
  /\ \A c \in Call : \A n \in 1 .. Len(queue[c]) : Asked(queue[c][n].run, queue[c][n].job)

EntriesAreAttributed == \A i \in JobId : runs[i] = NoCall \/ Asked(runs[i], i)

\* The result a captured verification's client is told is that of its own run.
CapturedReportTheirRun == \A c \in Captured : result[c] \in {NoCall, c}

StreamInv ==
  /\ IdsAreDrawn /\ EventsAreAttributed /\ EntriesAreAttributed
  /\ result \in [Call -> Call \cup {NoCall}] /\ CapturedReportTheirRun

LEMMA StreamInit == Init => StreamInv
<1> SUFFICES ASSUME Init PROVE StreamInv
  OBVIOUS
<1>1. IdsAreDrawn /\ EntriesAreAttributed /\ CapturedReportTheirRun
  BY CallAssumption DEF Init, IdsAreDrawn, EntriesAreAttributed, CapturedReportTheirRun
<1>2. \A c \in Call : queue[c] = << >> /\ queue[c] \in Seq(Event) /\ Len(queue[c]) = 0
  BY DEF Init
<1>3. EventsAreAttributed
  BY <1>2 DEF Init, EventsAreAttributed
<1> QED
  BY <1>1, <1>3 DEF StreamInv, Init

\* A captured id is asked for by its own call alone.
LEMMA CapturedIdIsItsOwn ==
  ASSUME IdsAreDrawn, NEW c \in Captured, NEW r, Asked(r, c)
  PROVE  r = c
BY CallAssumption DEF IdsAreDrawn, Asked

\* Calls that have asked keep their id.
LEMMA AskedStays ==
  ASSUME RegistryInv, [Next]_vars, NEW r, NEW i, Asked(r, i)
  PROVE  Asked(r, i)'
<1>1. CASE \E c \in Call : Ask(c)
  <2>1. PICK c \in Call, j \in JobId, s \in JobSet : Subscribe(c, j, s)
    BY <1>1 DEF Ask, JobId, JobSet
  <2> QED
    BY <2>1 DEF Subscribe, Asked, RegistryInv, RegistryType
<1>2. CASE \E c \in Call : Register(c) \/ Refuse(c) \/ Start(c) \/ Forward(c)
                          \/ LagEnds(c) \/ LagRecovers(c) \/ HangUp(c) \/ Oversize(c)
  <2>1. PICK c \in Call : Register(c) \/ Refuse(c) \/ Start(c) \/ Forward(c)
                          \/ LagEnds(c) \/ LagRecovers(c) \/ HangUp(c) \/ Oversize(c)
    BY <1>2
  <2>2. id' = id /\ at[c] # "new"
    BY <2>1 DEF Register, Refuse, Start, Forward, LagEnds, LagRecovers, HangUp, Oversize, Quiet
  <2>3. \E there \in {at[c], "registered", "streaming", "ended", "hung up", "oversized"} :
          at' = [at EXCEPT ![c] = there]
    BY <2>1 DEF Register, Refuse, Start, Forward, LagEnds, LagRecovers, HangUp, Oversize
  <2> QED
    BY <2>2, <2>3 DEF Asked, RegistryInv, RegistryType
<1>3. CASE \/ \E c \in Call : Progress(c) \/ \E outcome \in Over : Finish(c, outcome)
           \/ \E j \in JobId : CancelJob(j)
           \/ BeginDrain \/ CancelAll \/ Drained \/ UNCHANGED vars
  <2>1. UNCHANGED <<at, id>>
    BY <1>3 DEF Progress, Finish, CancelJob, BeginDrain, CancelAll, Drained, vars, handler
  <2> QED
    BY <2>1 DEF Asked
<1> QED
  BY <1>1, <1>2, <1>3 DEF Next

\* What a queue holds after an event is sent to it, or taken off it.
LEMMA QueueAfter ==
  ASSUME NEW q \in Seq(Event), NEW e \in Event, NEW P,
         \A n \in 1 .. Len(q) : q[n] \in P, e \in P
  PROVE  /\ Append(q, e) \in Seq(Event)
         /\ \A n \in 1 .. Len(Append(q, e)) : Append(q, e)[n] \in P
OBVIOUS

LEMMA QueueRest ==
  ASSUME NEW q \in Seq(Event), q # << >>, NEW P, \A n \in 1 .. Len(q) : q[n] \in P
  PROVE  /\ Tail(q) \in Seq(Event) /\ Head(q) \in P
         /\ \A n \in 1 .. Len(Tail(q)) : Tail(q)[n] \in P
OBVIOUS

\* The events that can be attributed to the run they name.
Attributed == {e \in Event : Asked(e.run, e.job)}

LEMMA SentIsAttributed ==
  ASSUME EventsAreAttributed, NEW e \in Attributed, Sent(e)
  PROVE  /\ queue' \in [Call -> Seq(Event)]
         /\ \A c \in Call : \A n \in 1 .. Len(queue'[c]) : queue'[c][n] \in Attributed
<1>1. ASSUME NEW c \in Call
      PROVE  /\ queue'[c] \in Seq(Event)
             /\ \A n \in 1 .. Len(queue'[c]) : queue'[c][n] \in Attributed
  <2> DEFINE q == queue[c]
  <2>1. q \in Seq(Event) /\ \A n \in 1 .. Len(q) : q[n] \in Attributed
    BY DEF EventsAreAttributed, Attributed
  <2>2. e \in Event
    BY DEF Attributed
  <2>3. CASE ~ Listening(c)
    BY <2>1, <2>3 DEF Sent
  <2>4. CASE Listening(c) /\ Len(q) = Capacity
    <3>1. queue'[c] = Append(Tail(q), e) /\ q # << >>
      BY <2>1, <2>4, CapacityAssumption DEF Sent
    <3> HIDE DEF q
    <3>2. Tail(q) \in Seq(Event) /\ \A n \in 1 .. Len(Tail(q)) : Tail(q)[n] \in Attributed
      BY <2>1, <3>1, QueueRest
    <3> QED
      BY <2>2, <3>1, <3>2, QueueAfter
  <2>5. CASE Listening(c) /\ Len(q) # Capacity
    <3>1. queue'[c] = Append(q, e)
      BY <2>5 DEF Sent
    <3> HIDE DEF q
    <3> QED
      BY <2>1, <2>2, <3>1, QueueAfter
  <2> QED
    BY <2>3, <2>4, <2>5
<1>2. queue' = [c \in Call |-> queue'[c]]
  BY DEF Sent
<1> QED
  BY <1>1, <1>2

\* Queues shrink, end or stay: what is left in them is what was.
LEMMA LeftIsAttributed ==
  ASSUME EventsAreAttributed, NEW c \in Call,
         \/ queue' = queue
         \/ queue' = [queue EXCEPT ![c] = << >>]
         \/ queue[c] # << >> /\ queue' = [queue EXCEPT ![c] = Tail(@)]
  PROVE  /\ queue' \in [Call -> Seq(Event)]
         /\ \A d \in Call : \A n \in 1 .. Len(queue'[d]) : queue'[d][n] \in Attributed
<1>1. /\ queue \in [Call -> Seq(Event)]
      /\ \A d \in Call : \A n \in 1 .. Len(queue[d]) : queue[d][n] \in Attributed
  BY DEF EventsAreAttributed, Attributed
<1>2. CASE queue' = queue
  BY <1>1, <1>2
<1>3. CASE queue' = [queue EXCEPT ![c] = << >>]
  <2>1. << >> \in Seq(Event) /\ Len(<< >>) = 0
    OBVIOUS
  <2>2. \A d \in Call : queue'[d] = IF d = c THEN << >> ELSE queue[d]
    BY <1>1, <1>3
  <2>3. queue' \in [Call -> Seq(Event)]
    BY <1>1, <1>3, <2>1
  <2> QED
    BY <1>1, <2>1, <2>2, <2>3
<1>4. CASE queue[c] # << >> /\ queue' = [queue EXCEPT ![c] = Tail(@)]
  <2>1. /\ Tail(queue[c]) \in Seq(Event)
        /\ \A n \in 1 .. Len(Tail(queue[c])) : Tail(queue[c])[n] \in Attributed
    BY <1>1, <1>4, QueueRest
  <2>2. \A d \in Call : queue'[d] = IF d = c THEN Tail(queue[c]) ELSE queue[d]
    BY <1>1, <1>4
  <2>3. queue' \in [Call -> Seq(Event)]
    BY <1>1, <1>4, <2>1
  <2> QED
    BY <1>1, <2>1, <2>2, <2>3
<1> QED
  BY <1>2, <1>3, <1>4

\* Every step leaves in the queues events that their runs asked for.
LEMMA QueuesStay ==
  ASSUME RegistryInv, EventsAreAttributed, [Next]_vars
  PROVE  EventsAreAttributed'
<1>1. ASSUME NEW c \in Call, NEW kind \in {"started", "progress", "terminal"},
             at[c] # "new", Sent(EventOf(c, kind))
      PROVE  /\ queue' \in [Call -> Seq(Event)]
             /\ \A d \in Call : \A n \in 1 .. Len(queue'[d]) : queue'[d][n] \in Attributed
  <2>1. EventOf(c, kind) \in Attributed
    BY <1>1 DEF EventOf, Attributed, Event, Asked, RegistryInv, RegistryType
  <2> QED
    BY <1>1, <2>1, SentIsAttributed
<1>2. /\ queue' \in [Call -> Seq(Event)]
      /\ \A d \in Call : \A n \in 1 .. Len(queue'[d]) : queue'[d][n] \in Attributed
  <2>1. CASE \E c \in Call : Start(c)
    BY <1>1, <2>1 DEF Start
  <2>2. CASE \E c \in Call : Progress(c)
    BY <1>1, <2>2 DEF Progress, RegistryInv, WorkersAreRegistered
  <2>3. CASE \E c \in Call : \E outcome \in Over : Finish(c, outcome)
    BY <1>1, <2>3 DEF Finish, RegistryInv, WorkersAreRegistered
  <2>4. CASE \E c \in Call : Refuse(c) \/ LagEnds(c) \/ HangUp(c) \/ Oversize(c)
    BY <2>4, LeftIsAttributed DEF Refuse, LagEnds, HangUp, Oversize
  <2>5. CASE \E c \in Call : Forward(c) \/ LagRecovers(c)
    <3>1. PICK c \in Call : Forward(c) \/ LagRecovers(c)
      BY <2>5
    <3>2. queue \in [Call -> Seq(Event)]
      BY DEF EventsAreAttributed
    <3>3. \/ queue' = queue
          \/ queue' = [queue EXCEPT ![c] = << >>]
          \/ queue[c] # << >> /\ queue' = [queue EXCEPT ![c] = Tail(@)]
      BY <3>1, <3>2 DEF Forward, LagRecovers
    <3> QED
      BY <3>3, LeftIsAttributed
  <2>6. CASE \/ \E c \in Call : Ask(c) \/ Register(c)
             \/ \E i \in JobId : CancelJob(i)
             \/ BeginDrain \/ CancelAll \/ Drained \/ UNCHANGED vars
    <3>1. queue' = queue
      BY <2>6 DEF Ask, Subscribe, Register, CancelJob, BeginDrain, CancelAll, Drained, vars, streams
    <3> QED
      BY <3>1 DEF EventsAreAttributed, Attributed
  <2> QED
    BY <2>1, <2>2, <2>3, <2>4, <2>5, <2>6 DEF Next
<1>3. ASSUME NEW e \in Attributed PROVE e \in Attributed'
  <2>1. e \in Event /\ Asked(e.run, e.job)
    BY DEF Attributed
  <2>2. Asked(e.run, e.job)'
    BY <2>1, AskedStays
  <2> QED
    BY <2>1, <2>2 DEF Attributed
<1>4. \A d \in Call : \A n \in 1 .. Len(queue'[d]) : queue'[d][n] \in Attributed'
  BY <1>2, <1>3
<1> QED
  BY <1>2, <1>4 DEF EventsAreAttributed, Attributed

LEMMA DrawnStay ==
  ASSUME RegistryInv, IdsAreDrawn, [Next]_vars
  PROVE  IdsAreDrawn'
<1>1. CASE \E c \in Call : Ask(c)
  <2>1. PICK c \in Call : Ask(c)
    BY <1>1
  <2>2. CASE c \in Captured
    BY <2>1, <2>2 DEF Ask, Subscribe, IdsAreDrawn, RegistryInv, RegistryType
  <2>3. CASE c \notin Captured
    <3>1. PICK i \in Id, s \in SetName : Subscribe(c, i, s)
      BY <2>1, <2>3 DEF Ask
    <3> QED
      BY <2>3, <3>1 DEF Subscribe, IdsAreDrawn, RegistryInv, RegistryType
  <2> QED
    BY <2>2, <2>3
<1>2. CASE \E c \in Call : Register(c) \/ Refuse(c) \/ Start(c) \/ Forward(c)
                          \/ LagEnds(c) \/ LagRecovers(c) \/ HangUp(c) \/ Oversize(c)
  <2>1. PICK c \in Call : Register(c) \/ Refuse(c) \/ Start(c) \/ Forward(c)
                          \/ LagEnds(c) \/ LagRecovers(c) \/ HangUp(c) \/ Oversize(c)
    BY <1>2
  <2>2. id' = id /\ at[c] # "new" /\ \E there : at' = [at EXCEPT ![c] = there]
    BY <2>1 DEF Register, Refuse, Start, Forward, LagEnds, LagRecovers, HangUp, Oversize, Quiet
  <2>3. \A d \in Call : at[d] = "new" => at'[d] = "new"
    BY <2>2 DEF RegistryInv, RegistryType
  <2> QED
    BY <2>2, <2>3 DEF IdsAreDrawn
<1>3. CASE \/ \E c \in Call : Progress(c) \/ \E outcome \in Over : Finish(c, outcome)
           \/ \E j \in JobId : CancelJob(j)
           \/ BeginDrain \/ CancelAll \/ Drained \/ UNCHANGED vars
  <2>1. UNCHANGED <<at, id>>
    BY <1>3 DEF Progress, Finish, CancelJob, BeginDrain, CancelAll, Drained, vars, handler
  <2> QED
    BY <2>1 DEF IdsAreDrawn
<1> QED
  BY <1>1, <1>2, <1>3 DEF Next

LEMMA EntriesStay ==
  ASSUME RegistryInv, EntriesAreAttributed, [Next]_vars
  PROVE  EntriesAreAttributed'
<1>1. CASE \E c \in Call : Register(c)
  <2>1. PICK c \in Call : Register(c)
    BY <1>1
  <2>2. Asked(c, id[c]) /\ runs' = [runs EXCEPT ![id[c]] = c]
    BY <2>1 DEF Register, Asked
  <2>3. \A i \in JobId : runs'[i] = NoCall \/ Asked(runs'[i], i)
    BY <2>2 DEF EntriesAreAttributed, RegistryInv, RegistryType
  <2> QED
    BY <2>3, AskedStays DEF EntriesAreAttributed
<1>2. CASE runs' = runs
  BY <1>2, AskedStays DEF EntriesAreAttributed
<1>3. (\E c \in Call : Register(c)) \/ runs' = runs
  BY DEF Next, Ask, Subscribe, Refuse, Start, Progress, Finish, Forward, LagEnds, LagRecovers,
     HangUp, Oversize, Quiet, CancelJob, BeginDrain, CancelAll, Drained, vars, registry
<1> QED
  BY <1>1, <1>2, <1>3

LEMMA ResultsStay ==
  ASSUME RegistryInv, StreamInv, [Next]_vars
  PROVE  result' \in [Call -> Call \cup {NoCall}] /\ CapturedReportTheirRun'
<1>1. ASSUME NEW c \in Call, Forward(c)
      PROVE  result' \in [Call -> Call \cup {NoCall}] /\ CapturedReportTheirRun'
  <2> DEFINE e == Head(queue[c])
  <2>1. e \in Event /\ Asked(e.run, e.job)
    <3>1. /\ queue[c] \in Seq(Event) /\ queue[c] # << >>
          /\ \A n \in 1 .. Len(queue[c]) : queue[c][n] \in Attributed
      BY <1>1 DEF Forward, StreamInv, EventsAreAttributed, Attributed
    <3>2. e \in Attributed
      BY <3>1, QueueRest
    <3> QED
      BY <3>2 DEF Attributed
  <2>2. PICK r \in {result[c], e.run} :
          result' = [result EXCEPT ![c] = r] /\ (r = e.run => e.job = id[c] \/ r = result[c])
    BY <1>1 DEF Forward
  <2>3. r \in Call \cup {NoCall}
    BY <2>1, <2>2 DEF Event, StreamInv
  <2>4. c \in Captured => r \in {NoCall, c}
    BY <2>1, <2>2, CapturedIdIsItsOwn DEF StreamInv, IdsAreDrawn, CapturedReportTheirRun
  <2> QED
    BY <2>2, <2>3, <2>4, CallAssumption DEF StreamInv, CapturedReportTheirRun
<1>2. ASSUME NEW c \in Call, LagRecovers(c)
      PROVE  result' \in [Call -> Call \cup {NoCall}] /\ CapturedReportTheirRun'
  <2>1. c \in Captured /\ id[c] = c /\ id[c] \in JobId
    BY <1>2 DEF LagRecovers, StreamInv, IdsAreDrawn, RegistryInv, RegistryType
  <2>2. runs[id[c]] \in {NoCall, c}
    BY <2>1, CapturedIdIsItsOwn DEF StreamInv, EntriesAreAttributed
  <2>3. PICK r \in {result[c], runs[id[c]]} : result' = [result EXCEPT ![c] = r]
    BY <1>2 DEF LagRecovers
  <2>4. r \in {NoCall, c}
    BY <2>1, <2>2, <2>3 DEF StreamInv, CapturedReportTheirRun
  <2> QED
    BY <2>3, <2>4, CallAssumption DEF StreamInv, CapturedReportTheirRun
<1>3. CASE result' = result
  BY <1>3 DEF StreamInv, CapturedReportTheirRun
<1>4. (\E c \in Call : Forward(c) \/ LagRecovers(c)) \/ result' = result
  BY DEF Next, Ask, Subscribe, Register, Refuse, Start, Progress, Finish, LagEnds,
     HangUp, Oversize, CancelJob, BeginDrain, CancelAll, Drained, vars, streams
<1> QED
  BY <1>1, <1>2, <1>3, <1>4

\* The client of a captured verification is told the end of its own run and of
\* no other, from the bus or from the retained result after a lag, whatever
\* jobs run under other ids (`run_verification_job`, D-131, D-135).
THEOREM CapturedStreamsAreTheirOwn == Spec => []CapturedReportTheirRun
<1>1. RegistryInv /\ StreamInv /\ [Next]_vars => StreamInv'
  BY QueuesStay, DrawnStay, EntriesStay, ResultsStay DEF StreamInv
<1>2. StreamInv => CapturedReportTheirRun
  BY DEF StreamInv
<1> QED
  BY <1>1, <1>2, StreamInit, RegistryInvariant, PTL DEF Spec

------------------------------------------------------------------------------
(***************************************************************************)
(* Proofs about Startup, for any number of daemons that start on one       *)
(* socket path with the same options, whatever these are, and any number   *)
(* of edits of the policy file.                                            *)
(*                                                                         *)
(* Until its chmod the socket's own mode guards nothing: access follows    *)
(* from the directory, which a daemon closes before it looks for a socket, *)
(* if it can.  From then on it follows from the socket's mode as well,     *)
(* although other daemons' chown and chmod may still reach that socket.    *)
(***************************************************************************)
Bits == {"group", "other"}

\* Past ChmodDirectory with a socket of its own to make.
PastDirectory ==
  {"chown_directory", "probe", "unlink", "bind", "chown", "chmod_group", "chmod"}

StartupTypeOK ==
  /\ dir \in [bits : SUBSET Bits, gid : {"root", "lr"}]
  /\ sock \in [owner : Daemons \cup {"none", "dead"}, bits : SUBSET Bits, gid : {"root", "lr"}]
  /\ groupMade \in BOOLEAN
  /\ DOMAIN opts = Daemons /\ DOMAIN pc = Daemons /\ DOMAIN read = Daemons
  /\ pc = [d \in Daemons |-> pc[d]] /\ opts = [d \in Daemons |-> opts[d]]
  /\ read \in [Daemons -> [before : Nat, versions : SUBSET Nat]]

\* All daemons of the service have the same options.
SameOptions == \A d, e \in Daemons : opts[d] = opts[e]

\* The access an options record o allows, given whether its group exists.
Allows(o, bits, hasGroup) ==
  \/ o.mode = "all"
  \/ bits = {}
  \/ o.mode = "default" /\ o.group /\ hasGroup /\ bits = {"group"}

Closed(o) == Allows(o, dir.bits, groupMade)

\* Once a daemon that could close it looked for a socket, or has one, the directory is closed.
DirectoryIsClosed ==
  \A d \in Daemons \ unclosed :
    (pc[d] \in PastDirectory \/ sock.owner = d) => Closed(opts[d])

\* The socket of a daemon that is ready has a mode the options allow, whoever set it last.
SocketIsClosed ==
  \A d \in Daemons :
    /\ sock.owner = d => pc[d] \in {"chown", "chmod_group", "chmod", "ready"}
    /\ pc[d] = "chmod_group" => opts[d].mode = "default" /\ opts[d].group /\ groupMade
    /\ sock.owner = d /\ pc[d] = "ready" => Allows(opts[d], sock.bits, groupMade)

PolicyShape ==
  policy = [ancestors |-> policy.ancestors, private |-> policy.private,
            limits |-> policy.limits, directories |-> policy.directories,
            version |-> policy.version, changed |-> policy.changed]

\* What was read since the file was opened lies between the version found then and the
\* present one; once a policy is accepted, there was one version.
DaemonRead(d) ==
  /\ pc[d] = "start" => read[d].versions = {}
  /\ pc[d] = "read" => read[d].before <= policy.version
  /\ pc[d] = "read" => \A n \in read[d].versions : read[d].before <= n /\ n <= policy.version
  /\ pc[d] \notin {"start", "read", "failed"} => \A m, n \in read[d].versions : m = n

ReadIsRecent ==
  /\ policy.version \in Nat /\ policy.changed = policy.version
  /\ PolicyShape
  /\ \A d \in Daemons : DaemonRead(d)

StartupInvariant ==
  StartupTypeOK /\ SameOptions /\ DirectoryIsClosed /\ SocketIsClosed /\ ReadIsRecent

-----------------------------------------------------------------------------
\* ChmodDirectory gives the directory what Closed allows, whatever it was.
LEMMA AccessIsClosed ==
  ASSUME NEW o, NEW made \in BOOLEAN
  PROVE  Allows(o, DirectoryAccess(o, o.group /\ made), made)
<1> DEFINE has == o.group /\ made
<1>1. CASE o.mode = "all"
  BY <1>1 DEF Allows
<1>2. CASE o.mode # "all" /\ o.mode # "default"
  <2>1. SocketBits(o, has) = {}
    BY <1>2 DEF SocketBits
  <2>2. DirectoryAccess(o, has) = {}
    BY <2>1 DEF DirectoryAccess
  <2> QED
    BY <2>2 DEF Allows
<1>3. CASE o.mode = "default" /\ has
  <2>1. SocketBits(o, has) = {"group"}
    BY <1>3 DEF SocketBits
  <2>2. DirectoryAccess(o, has) = {"group"}
    BY <2>1 DEF DirectoryAccess
  <2> QED
    BY <1>3, <2>2 DEF Allows
<1>4. CASE o.mode = "default" /\ ~has
  <2>1. SocketBits(o, has) = {}
    BY <1>4 DEF SocketBits
  <2>2. DirectoryAccess(o, has) = {}
    BY <2>1 DEF DirectoryAccess
  <2> QED
    BY <2>2 DEF Allows
<1> QED
  BY <1>1, <1>2, <1>3, <1>4

LEMMA TypeStep ==
  ASSUME StartupTypeOK, ReadIsRecent, [StartupNext]_startupVars
  PROVE  StartupTypeOK'
<1> USE StartupAssumption DEF NoOwner, NoSocket, Bits
<1>1. ASSUME NEW d \in Daemons, OpenPolicy(d) \/ ReadPolicy(d) \/ AcceptPolicy(d) \/ BuildAuth(d) PROVE StartupTypeOK'
  BY <1>1 DEF OpenPolicy, ReadPolicy, AcceptPolicy, BuildAuth, Advance, Fail, StartupTypeOK,
     ReadIsRecent
<1>2. ASSUME NEW d \in Daemons, ResolveGroup(d) PROVE StartupTypeOK'
  BY <1>2 DEF ResolveGroup, Advance, StartupTypeOK
<1>3. ASSUME NEW d \in Daemons, ChmodDirectory(d) \/ ChownDirectory(d) PROVE StartupTypeOK'
  BY <1>3 DEF ChmodDirectory, ChownDirectory, Advance, StartupTypeOK, DirectoryAccess
<1>4. ASSUME NEW d \in Daemons, Probe(d) \/ RemoveStale(d) \/ Bind(d) PROVE StartupTypeOK'
  BY <1>4 DEF Probe, RemoveStale, Bind, Advance, Fail, StartupTypeOK
<1>5. ASSUME NEW d \in Daemons, ChownSocket(d) \/ ChmodSocket(d) PROVE StartupTypeOK'
  BY <1>5 DEF ChownSocket, ChmodSocket, Advance, Fail, StartupTypeOK, SocketBits
<1>6. ASSUME NEW d \in Daemons, Die(d) PROVE StartupTypeOK'
  BY <1>6 DEF Die, StartupTypeOK
<1>7. CASE EditPolicy
  BY <1>7 DEF EditPolicy, StartupTypeOK
<1>8. CASE UNCHANGED startupVars
  BY <1>8 DEF startupVars, StartupTypeOK
<1> QED
  BY <1>1, <1>2, <1>3, <1>4, <1>5, <1>6, <1>7, <1>8 DEF StartupNext

LEMMA SameStep ==
  ASSUME SameOptions, [StartupNext]_startupVars
  PROVE  opts' = opts /\ SameOptions'
<1>1. opts' = opts
  BY DEF StartupNext, startupVars, OpenPolicy, ReadPolicy, AcceptPolicy, BuildAuth, ResolveGroup,
     ChmodDirectory, ChownDirectory, Probe, RemoveStale, Bind, ChownSocket, ChmodSocket, Die, EditPolicy, Fail
<1> QED
  BY <1>1 DEF SameOptions

LEMMA ClosedStep ==
  ASSUME StartupTypeOK, SameOptions, DirectoryIsClosed, [StartupNext]_startupVars
  PROVE  DirectoryIsClosed'
<1> USE StartupAssumption DEF NoOwner, NoSocket, PastDirectory
<1>1. opts' = opts
  BY SameStep
<1>2. groupMade => groupMade'
  BY DEF StartupNext, startupVars, OpenPolicy, ReadPolicy, AcceptPolicy, BuildAuth, ResolveGroup,
     ChmodDirectory, ChownDirectory, Probe, RemoveStale, Bind, ChownSocket, ChmodSocket, Die, EditPolicy, Fail, StartupTypeOK
<1>3. ASSUME dir'.bits = dir.bits, NEW d \in Daemons, Closed(opts[d]) PROVE Closed(opts[d])'
  BY <1>1, <1>2, <1>3 DEF Closed, Allows
<1>4. ASSUME NEW d \in Daemons, ChmodDirectory(d), unclosed' = unclosed PROVE DirectoryIsClosed'
  <2>1. CASE dir' = [dir EXCEPT !.bits = DirectoryAccess(opts[d], GroupId(d))]
    <3>1. groupMade' = groupMade /\ dir'.bits = DirectoryAccess(opts[d], GroupId(d))
      BY <1>4, <2>1 DEF ChmodDirectory, StartupTypeOK
    <3>2. Allows(opts[d], dir'.bits, groupMade')
      <4>1. Allows(opts[d], DirectoryAccess(opts[d], opts[d].group /\ groupMade), groupMade)
        BY AccessIsClosed DEF StartupTypeOK
      <4> QED
        BY <3>1, <4>1 DEF GroupId
    <3>3. \A e \in Daemons : opts[e] = opts[d]
      BY DEF SameOptions
    <3>4. \A e \in Daemons : Closed(opts[e])'
      BY <1>1, <3>2, <3>3 DEF Closed
    <3> QED
      BY <3>4 DEF DirectoryIsClosed
  <2>2. CASE dir' = dir /\ d \in unclosed
    <3>1. \A e \in Daemons : e # d => pc'[e] = pc[e]
      BY <1>4 DEF ChmodDirectory, Advance, StartupTypeOK
    <3>2. sock' = sock
      BY <1>4 DEF ChmodDirectory
    <3> QED
      BY <1>3, <1>4, <2>2, <3>1, <3>2 DEF DirectoryIsClosed
  <2> QED
    BY <1>4, <2>1, <2>2 DEF ChmodDirectory
<1>14. ASSUME NEW d \in Daemons, ChmodDirectory(d), dir' = dir, unclosed' = unclosed \cup {d}
       PROVE  DirectoryIsClosed'
  <2>1. \A e \in Daemons : e # d => pc'[e] = pc[e]
    BY <1>14 DEF ChmodDirectory, Advance, StartupTypeOK
  <2>2. sock' = sock
    BY <1>14 DEF ChmodDirectory
  <2> QED
    BY <1>3, <1>14, <2>1, <2>2 DEF DirectoryIsClosed
<1>15. ASSUME NEW d \in Daemons, ChmodDirectory(d) PROVE DirectoryIsClosed'
  BY <1>4, <1>14, <1>15 DEF ChmodDirectory
\* Any other step leaves the directory's mode, and brings nobody past ChmodDirectory.
<1>5. ASSUME dir'.bits = dir.bits, unclosed' = unclosed,
             \A d \in Daemons : (pc'[d] \in PastDirectory \/ sock'.owner = d)
                                   => (pc[d] \in PastDirectory \/ sock.owner = d)
      PROVE  DirectoryIsClosed'
  BY <1>3, <1>5 DEF DirectoryIsClosed
<1>6. ASSUME NEW d \in Daemons, OpenPolicy(d) \/ ReadPolicy(d) \/ AcceptPolicy(d) \/ BuildAuth(d)
      PROVE  DirectoryIsClosed'
  BY <1>5, <1>6 DEF OpenPolicy, ReadPolicy, AcceptPolicy, BuildAuth, Fail, Advance, StartupTypeOK
<1>7. ASSUME NEW d \in Daemons, ResolveGroup(d) PROVE DirectoryIsClosed'
  BY <1>5, <1>7 DEF ResolveGroup, Advance, StartupTypeOK
<1>8. ASSUME NEW d \in Daemons, Probe(d) \/ RemoveStale(d) PROVE DirectoryIsClosed'
  BY <1>5, <1>8 DEF Probe, RemoveStale, Fail, Advance, StartupTypeOK
<1>16. ASSUME NEW d \in Daemons, ChownDirectory(d) PROVE DirectoryIsClosed'
  BY <1>5, <1>16 DEF ChownDirectory, Advance, StartupTypeOK
<1>9. ASSUME NEW d \in Daemons, Bind(d) PROVE DirectoryIsClosed'
  BY <1>5, <1>9 DEF Bind, Fail, Advance, StartupTypeOK
<1>10. ASSUME NEW d \in Daemons, ChownSocket(d) PROVE DirectoryIsClosed'
  BY <1>5, <1>10 DEF ChownSocket, Advance, StartupTypeOK
<1>11. ASSUME NEW d \in Daemons, ChmodSocket(d) PROVE DirectoryIsClosed'
  BY <1>5, <1>11 DEF ChmodSocket, Fail, Advance, StartupTypeOK
<1>12. ASSUME NEW d \in Daemons, Die(d) PROVE DirectoryIsClosed'
  BY <1>5, <1>12 DEF Die, StartupTypeOK
<1>13. CASE EditPolicy \/ UNCHANGED startupVars
  BY <1>5, <1>13 DEF EditPolicy, startupVars
<1> QED
  BY <1>6, <1>7, <1>8, <1>9, <1>10, <1>11, <1>12, <1>13, <1>15, <1>16 DEF StartupNext

\* Whatever chmod reaches the socket last, the options of all daemons are the same.
LEMMA SocketBitsAllowed ==
  ASSUME NEW o, NEW made
  PROVE  Allows(o, SocketBits(o, FALSE), made)
<1>1. CASE o.mode = "all"
  BY <1>1 DEF Allows
<1>2. CASE o.mode # "all"
  <2>1. SocketBits(o, FALSE) = {}
    BY <1>2 DEF SocketBits
  <2> QED
    BY <2>1 DEF Allows
<1> QED
  BY <1>1, <1>2

LEMMA SocketStep ==
  ASSUME StartupTypeOK, SameOptions, SocketIsClosed, [StartupNext]_startupVars
  PROVE  SocketIsClosed'
<1> USE StartupAssumption DEF NoOwner, NoSocket
<1>1. opts' = opts
  BY SameStep
<1>2. groupMade => groupMade'
  BY DEF StartupNext, startupVars, OpenPolicy, ReadPolicy, AcceptPolicy, BuildAuth, ResolveGroup,
     ChmodDirectory, ChownDirectory, Probe, RemoveStale, Bind, ChownSocket, ChmodSocket, Die,
     EditPolicy, Fail, StartupTypeOK
\* A step that leaves the socket, and is not on the way from bind to ready.
<1>3. ASSUME sock' = sock,
             \A d \in Daemons : pc'[d] = pc[d]
                               \/ (pc[d] \notin {"chown", "chmod_group", "chmod", "ready"}
                                   /\ pc'[d] # "chmod_group")
      PROVE  SocketIsClosed'
  <2>1. ASSUME NEW d \in Daemons
        PROVE  /\ sock'.owner = d => pc'[d] \in {"chown", "chmod_group", "chmod", "ready"}
               /\ pc'[d] = "chmod_group" => opts'[d].mode = "default" /\ opts'[d].group /\ groupMade'
               /\ sock'.owner = d /\ pc'[d] = "ready" => Allows(opts'[d], sock'.bits, groupMade')
    BY <1>1, <1>2, <1>3 DEF SocketIsClosed, Allows
  <2> QED
    BY <2>1 DEF SocketIsClosed
<1>4. ASSUME NEW d \in Daemons, OpenPolicy(d) \/ ReadPolicy(d) \/ AcceptPolicy(d) \/ BuildAuth(d)
      PROVE  SocketIsClosed'
  BY <1>3, <1>4 DEF OpenPolicy, ReadPolicy, AcceptPolicy, BuildAuth, Fail, Advance, StartupTypeOK
<1>5. ASSUME NEW d \in Daemons, ResolveGroup(d) \/ ChmodDirectory(d) \/ ChownDirectory(d) \/ Probe(d)
      PROVE  SocketIsClosed'
  BY <1>3, <1>5 DEF ResolveGroup, ChmodDirectory, ChownDirectory, Probe, Fail, Advance,
     StartupTypeOK
<1>6. ASSUME NEW d \in Daemons, RemoveStale(d) PROVE SocketIsClosed'
  <2>1. sock'.owner = "none" /\ groupMade' = groupMade
        /\ \A e \in Daemons : pc'[e] = pc[e] \/ pc'[e] = "bind"
    BY <1>6 DEF RemoveStale, Advance, StartupTypeOK
  <2> QED
    BY <1>1, <2>1 DEF SocketIsClosed
<1>7. ASSUME NEW d \in Daemons, Bind(d) PROVE SocketIsClosed'
  <2>1. CASE Fail(d, "bind")
    BY <1>3, <2>1 DEF Fail, Advance, StartupTypeOK
  <2>2. CASE sock.owner = NoOwner /\ sock'.owner = d /\ Advance(d, "bind", "chown")
             /\ groupMade' = groupMade
    <3>1. pc'[d] = "chown" /\ \A e \in Daemons : e # d => pc'[e] = pc[e]
      BY <2>2 DEF Advance, StartupTypeOK
    <3> QED
      BY <1>1, <2>2, <3>1 DEF SocketIsClosed
  <2> QED
    BY <1>7, <2>1, <2>2 DEF Bind
<1>8. ASSUME NEW d \in Daemons, ChownSocket(d) PROVE SocketIsClosed'
  <2>1. /\ sock'.owner = sock.owner /\ sock'.bits = sock.bits /\ groupMade' = groupMade
        /\ pc[d] = "chown" /\ pc'[d] \in {"chmod_group", "chmod"}
        /\ pc'[d] = "chmod_group" => opts[d].mode = "default" /\ opts[d].group /\ groupMade
        /\ \A e \in Daemons : e # d => pc'[e] = pc[e]
    BY <1>8 DEF ChownSocket, GroupId, Advance, StartupTypeOK
  <2> QED
    BY <1>1, <2>1 DEF SocketIsClosed
<1>9. ASSUME NEW d \in Daemons, ChmodSocket(d) PROVE SocketIsClosed'
  <2>1. CASE sock.owner = NoOwner /\ (Fail(d, "chmod_group") \/ Fail(d, "chmod"))
    <3>1. /\ sock' = sock /\ groupMade' = groupMade /\ pc'[d] = "failed"
          /\ \A e \in Daemons : e # d => pc'[e] = pc[e]
      BY <2>1 DEF Fail, Advance, StartupTypeOK
    <3> QED
      BY <1>1, <2>1, <3>1 DEF SocketIsClosed
  <2>2. CASE sock.owner # NoOwner
    <3>1. /\ sock'.owner = sock.owner /\ groupMade' = groupMade /\ pc'[d] = "ready"
          /\ \A e \in Daemons : e # d => pc'[e] = pc[e]
      BY <1>9, <2>2 DEF ChmodSocket, Advance, StartupTypeOK
    <3>2. Allows(opts[d], sock'.bits, groupMade)
      <4>1. CASE Advance(d, "chmod_group", "ready") /\ sock' = [sock EXCEPT !.bits = {"group"}]
        <5>1. sock'.bits = {"group"} /\ pc[d] = "chmod_group"
          BY <4>1 DEF StartupTypeOK, Advance
        <5> QED
          BY <5>1 DEF SocketIsClosed, Allows
      <4>2. CASE sock' = [sock EXCEPT !.bits = SocketBits(opts[d], FALSE)]
        <5>1. sock'.bits = SocketBits(opts[d], FALSE)
          BY <4>2 DEF StartupTypeOK
        <5> QED
          BY <5>1, SocketBitsAllowed
      <4> QED
        BY <1>9, <2>2, <4>1, <4>2 DEF ChmodSocket
    <3>3. \A e \in Daemons : opts[e] = opts[d]
      BY DEF SameOptions
    <3>4. \A e \in Daemons : Allows(opts[e], sock'.bits, groupMade)
      BY <3>2, <3>3
    <3> QED
      BY <1>1, <3>1, <3>4 DEF SocketIsClosed
  <2> QED
    BY <1>9, <2>1, <2>2 DEF ChmodSocket
<1>10. ASSUME NEW d \in Daemons, Die(d) PROVE SocketIsClosed'
  <2>1. /\ groupMade' = groupMade /\ pc'[d] = "failed" /\ sock'.bits = sock.bits
        /\ sock'.owner # d /\ (sock'.owner = sock.owner \/ sock'.owner = "dead")
        /\ \A e \in Daemons : e # d => pc'[e] = pc[e]
    BY <1>10 DEF Die, StartupTypeOK
  <2> QED
    BY <1>1, <2>1 DEF SocketIsClosed
<1>11. CASE EditPolicy \/ UNCHANGED startupVars
  BY <1>3, <1>11 DEF EditPolicy, startupVars
<1> QED
  BY <1>4, <1>5, <1>6, <1>7, <1>8, <1>9, <1>10, <1>11 DEF StartupNext

LEMMA ReadStep ==
  ASSUME StartupTypeOK, ReadIsRecent, [StartupNext]_startupVars
  PROVE  ReadIsRecent'
<1>1. ASSUME policy' = policy, \A e \in Daemons : DaemonRead(e)' PROVE ReadIsRecent'
  BY <1>1 DEF ReadIsRecent, PolicyShape
<1>2. ASSUME NEW d \in Daemons, policy' = policy, pc' = [pc EXCEPT ![d] = pc'[d]],
             \A e \in Daemons : e # d => read'[e] = read[e],
             DaemonRead(d)'
      PROVE  ReadIsRecent'
  <2>1. \A e \in Daemons \ {d} : pc'[e] = pc[e] /\ read'[e] = read[e]
    BY <1>2 DEF StartupTypeOK
  <2>2. \A e \in Daemons \ {d} : DaemonRead(e)'
    BY <1>2, <2>1 DEF DaemonRead, ReadIsRecent
  <2> QED
    BY <1>1, <1>2, <2>2
<1>3. ASSUME NEW d \in Daemons, OpenPolicy(d) PROVE ReadIsRecent'
  <2>1. /\ policy' = policy /\ pc' = [pc EXCEPT ![d] = pc'[d]] /\ pc[d] = "start"
        /\ \A e \in Daemons : e # d => read'[e] = read[e]
    BY <1>3 DEF OpenPolicy, Advance, Fail, StartupTypeOK
  <2>2. read'[d].versions = {}
    <3>1. read[d].versions = {}
      BY <2>1 DEF ReadIsRecent, DaemonRead
    <3>2. CASE read' = read
      BY <3>1, <3>2
    <3>3. CASE read' = [read EXCEPT ![d].before = policy.changed]
      BY <3>1, <3>3 DEF StartupTypeOK
    <3> QED
      BY <1>3, <3>2, <3>3 DEF OpenPolicy, Fail
  <2>3. pc'[d] = "read" => read'[d].before <= policy'.version
    BY <1>3, <2>1 DEF OpenPolicy, Advance, Fail, ReadIsRecent, StartupTypeOK
  <2> QED
    BY <1>2, <2>1, <2>2, <2>3 DEF DaemonRead
<1>4. ASSUME NEW d \in Daemons, ReadPolicy(d) PROVE ReadIsRecent'
  <2>1. /\ policy' = policy /\ pc' = [pc EXCEPT ![d] = pc'[d]] /\ pc[d] = "read" /\ pc'[d] = "read"
        /\ \A e \in Daemons : e # d => read'[e] = read[e]
    BY <1>4 DEF ReadPolicy, Advance, StartupTypeOK
  <2>2. /\ read'[d].before = read[d].before
        /\ read'[d].versions = read[d].versions \cup {policy.version}
    BY <1>4 DEF ReadPolicy, StartupTypeOK
  <2>3. DaemonRead(d) /\ policy.version \in Nat /\ read[d].before \in Nat
    BY DEF ReadIsRecent, StartupTypeOK
  <2>4. DaemonRead(d)'
    BY <2>1, <2>2, <2>3 DEF DaemonRead
  <2> QED
    BY <1>2, <2>1, <2>4
<1>5. ASSUME NEW d \in Daemons, AcceptPolicy(d) PROVE ReadIsRecent'
  <2>1. /\ policy' = policy /\ pc' = [pc EXCEPT ![d] = pc'[d]] /\ pc[d] = "read" /\ read' = read
        /\ pc'[d] = "failed" \/ (pc'[d] = "auth" /\ policy.changed = read[d].before)
    BY <1>5 DEF AcceptPolicy, SamePolicyFile, Advance, Fail, StartupTypeOK
  <2>2. DaemonRead(d) /\ policy.version \in Nat /\ policy.changed = policy.version
    BY DEF ReadIsRecent
  <2>3. read[d].versions \in SUBSET Nat
    BY DEF StartupTypeOK
  <2>4. DaemonRead(d)'
    BY <2>1, <2>2, <2>3 DEF DaemonRead
  <2> QED
    BY <1>2, <2>1, <2>4
<1>6. CASE EditPolicy
  <2>1. policy' = [[policy EXCEPT !.version = @ + 1] EXCEPT !.changed = @ + 1]
        /\ pc' = pc /\ read' = read
    BY <1>6 DEF EditPolicy
  <2>2. PolicyShape /\ policy.version \in Nat /\ policy.changed = policy.version
    BY DEF ReadIsRecent
  <2>3. /\ policy'.version = policy.version + 1 /\ policy'.changed = policy.version + 1
        /\ PolicyShape'
    BY <2>1, <2>2 DEF PolicyShape
  <2>4. ASSUME NEW d \in Daemons PROVE DaemonRead(d)'
    <3>1. DaemonRead(d) /\ read[d] \in [before : Nat, versions : SUBSET Nat]
      BY DEF ReadIsRecent, StartupTypeOK
    <3> QED
      BY <2>1, <2>2, <2>3, <3>1 DEF DaemonRead
  <2> QED
    BY <2>2, <2>3, <2>4 DEF ReadIsRecent
<1>7. CASE UNCHANGED startupVars
  BY <1>7 DEF startupVars, ReadIsRecent, DaemonRead, PolicyShape
<1>8. ASSUME NEW d \in Daemons,
             \/ BuildAuth(d) \/ ResolveGroup(d) \/ ChmodDirectory(d) \/ ChownDirectory(d)
             \/ Probe(d) \/ RemoveStale(d) \/ Bind(d) \/ ChownSocket(d) \/ ChmodSocket(d) \/ Die(d)
      PROVE  ReadIsRecent'
  <2>1. /\ policy' = policy /\ pc' = [pc EXCEPT ![d] = pc'[d]] /\ read' = read
        /\ pc[d] \notin {"start", "read", "failed"} /\ pc'[d] \notin {"start", "read"}
    BY <1>8 DEF BuildAuth, ResolveGroup, ChmodDirectory, ChownDirectory, Probe, RemoveStale, Bind,
       ChownSocket, ChmodSocket, Die, Fail, Advance, StartupTypeOK
  <2>2. DaemonRead(d)
    BY DEF ReadIsRecent
  <2> QED
    BY <1>2, <2>1, <2>2 DEF DaemonRead
<1> QED
  BY <1>3, <1>4, <1>5, <1>6, <1>7, <1>8 DEF StartupNext

-----------------------------------------------------------------------------
LEMMA StartupInitInvariant == StartupInit => StartupInvariant
<1> SUFFICES ASSUME StartupInit PROVE StartupInvariant
  OBVIOUS
<1> USE StartupAssumption
<1>1. StartupTypeOK
  BY DEF StartupInit, StartupTypeOK, NoSocket, Stale, NoOwner, Unread, Bits
<1>2. SameOptions
  BY DEF StartupInit, SameOptions
<1>3. DirectoryIsClosed
  BY DEF StartupInit, DirectoryIsClosed, NoSocket, Stale, NoOwner, PastDirectory
<1>4. ReadIsRecent
  BY DEF StartupInit, ReadIsRecent, PolicyShape, DaemonRead, Unread
<1>5. SocketIsClosed
  BY DEF StartupInit, SocketIsClosed, NoSocket, Stale, NoOwner
<1> QED
  BY <1>1, <1>2, <1>3, <1>4, <1>5 DEF StartupInvariant

\* A directory or socket that is closed admits no user outside the intended ones.
LEMMA ClosedMeansIntended ==
  ASSUME NEW o, NEW node, Allows(o, node.bits, groupMade), NEW u \in Users, May(u, node)
  PROVE  u \in Intended(o)
<1>1. CASE u = "root"
  BY <1>1 DEF Intended
<1>2. CASE o.mode = "all"
  BY <1>2 DEF Intended
<1>3. CASE u # "root" /\ node.bits = {}
  BY <1>3 DEF May
<1>4. CASE u # "root" /\ o.mode = "default" /\ o.group /\ groupMade /\ node.bits = {"group"}
  BY <1>4 DEF May, Intended, Users
<1> QED
  BY <1>1, <1>2, <1>3, <1>4 DEF Allows

\* A set without two different members has at most one.
LEMMA AtMostOne ==
  ASSUME NEW S, \A m, n \in S : m = n
  PROVE  Cardinality(S) <= 1
<1>1. CASE S = {}
  BY <1>1, FS_EmptySet
<1>2. CASE S # {}
  <2>1. PICK m \in S : TRUE
    BY <1>2
  <2>2. S = {m}
    BY <2>1
  <2>3. Cardinality({m}) = 1
    BY FS_Singleton
  <2> QED
    BY <2>2, <2>3
<1> QED
  BY <1>1, <1>2

\* The inductive invariant: types, the directory closed by whoever could close it, the mode of
\* a ready daemon's socket, and what was read of the policy.
THEOREM StartupInvariance == StartupSpec => []StartupInvariant
<1>1. StartupInvariant /\ [StartupNext]_startupVars => StartupInvariant'
  BY TypeStep, SameStep, ClosedStep, SocketStep, ReadStep DEF StartupInvariant
<1> QED
  BY <1>1, StartupInitInvariant, PTL DEF StartupSpec

\* Bind, chown and chmod of any number of daemons on one path, with any umask, and
\* load_inner against any edits: nobody connects whom the options do not name, from bind on if
\* the directory's mode could be set and from chmod on if not, and an accepted policy is one
\* version of the file.
THEOREM StartGuarded == StartupSpec => []StartIsGuarded
<1>1. ASSUME StartupInvariant PROVE StartIsGuarded
  <2>1. OnlyTheIntendedConnect
    <3> SUFFICES ASSUME sock.owner \in Daemons, sock.owner \in unclosed => pc[sock.owner] = "ready",
                        NEW u \in Users, May(u, dir), May(u, sock)
                 PROVE  u \in Intended(opts[sock.owner])
      BY DEF OnlyTheIntendedConnect, Connects
    <3>1. CASE sock.owner \notin unclosed
      <4>1. Allows(opts[sock.owner], dir.bits, groupMade)
        BY <1>1, <3>1 DEF StartupInvariant, DirectoryIsClosed, Closed
      <4> QED
        BY <4>1, ClosedMeansIntended
    <3>2. CASE pc[sock.owner] = "ready"
      <4>1. Allows(opts[sock.owner], sock.bits, groupMade)
        BY <1>1, <3>2 DEF StartupInvariant, SocketIsClosed
      <4> QED
        BY <4>1, ClosedMeansIntended
    <3> QED
      BY <3>1, <3>2
  <2>2. PolicyIsOneVersion
    BY <1>1, AtMostOne DEF StartupInvariant, ReadIsRecent, DaemonRead, PolicyIsOneVersion
  <2> QED
    BY <2>1, <2>2 DEF StartIsGuarded
<1> QED
  BY <1>1, StartupInvariance, PTL

------------------------------------------------------------------------------
(***************************************************************************)
(* Proofs about DrainWatch, for any number of jobs and any limits.         *)
(*                                                                         *)
(* The watch measures silence from the events it has read, which are late. *)
(* The invariant says that it is never behind: a job that still runs has   *)
(* an event waiting, or the watch counts no more ticks than really passed  *)
(* (NotBehind).  An event that waits is an advance over what was seen,     *)
(* since byte counts grow and a phase begins once (Advancing, Growing), so *)
(* reading it resets the count.                                            *)
(***************************************************************************)
WatchEvent ==
  [job : Jobs, is : {"bytes"}, done : Nat] \cup [job : Jobs, is : {"phase"}, name : {"metadata"}]
  \cup [job : Jobs, is : {"ended"}]

WatchTypeOK ==
  /\ active \subseteq Jobs
  /\ done \in [Jobs -> Nat] /\ reported \in [Jobs -> Nat]
  /\ phase \in [Jobs -> {"data", "metadata"}]
  /\ events \in Seq(WatchEvent)
  /\ seen \in [Jobs -> [done : Nat, phase : {"none", "metadata"}]]
  /\ still \in [Jobs -> Nat] /\ silence \in [Jobs -> Nat]
  /\ left \in Nat /\ polled \in BOOLEAN
  /\ mode \in {"serving", "draining", "stopped", "killed"}
  /\ mode = "serving" => events = <<>>

\* What was seen of a job is not ahead of what it reported.
SeenIsPast ==
  \A j \in Jobs : /\ seen[j].done <= reported[j]
                  /\ phase[j] = "data" => seen[j].phase = "none"

\* An event that waits tells something new; an ended job has left.
Advancing ==
  \A k \in DOMAIN events :
     /\ events[k].is = "bytes" => /\ seen[events[k].job].done < events[k].done
                                  /\ events[k].done <= reported[events[k].job]
     /\ events[k].is = "phase" => /\ seen[events[k].job].phase = "none"
                                  /\ phase[events[k].job] = "metadata"
     /\ events[k].is = "ended" => events[k].job \notin active

\* And so does each one after another.
Growing ==
  \A k, l \in DOMAIN events :
     k < l /\ events[k].job = events[l].job =>
        /\ events[k].is = "bytes" /\ events[l].is = "bytes" => events[k].done < events[l].done
        /\ ~ (events[k].is = "phase" /\ events[l].is = "phase")

NotBehind ==
  mode = "draining" =>
    \A j \in active : (\E k \in DOMAIN events : events[k].job = j) \/ still[j] <= silence[j]

\* While a job was not silent for the limit, the deadline is a whole extension away.
TimeIsLeft ==
  mode = "draining" =>
    \A j \in active \ silent : /\ silence[j] < Stall
                               /\ left >= Extend - 1
                               /\ polled => left = Extend

WatchInvariant ==
  /\ WatchTypeOK /\ SeenIsPast /\ Advancing /\ Growing /\ NotBehind /\ TimeIsLeft
  /\ AdvancingIsNotKilled

-----------------------------------------------------------------------------
LEMMA BytesOrNot ==
  ASSUME NEW e \in WatchEvent
  PROVE  /\ e.job \in Jobs
         /\ e.is = "bytes" \/ e.is = "phase" \/ e.is = "ended"
         /\ e.is = "bytes" => e.done \in Nat
         /\ e.is = "phase" => e.name = "metadata"
BY DEF WatchEvent

\* A step in which job j sends e, with what it says of j.
Sends(j, e) ==
  /\ Emit(j, e) /\ e.job = j
  /\ e.is = "bytes" => reported[j] < e.done /\ e.done <= reported'[j]
  /\ e.is = "phase" => phase[j] = "data" /\ phase'[j] = "metadata"
  /\ e.is = "ended" => j \notin active'
Grown ==
  /\ done' \in [Jobs -> Nat]
  /\ reported' \in [Jobs -> Nat] /\ \A i \in Jobs : reported[i] <= reported'[i]
  /\ phase' \in [Jobs -> {"data", "metadata"}]
  /\ \A i \in Jobs : phase[i] = "metadata" => phase'[i] = "metadata"

\* An event joins the queue.
LEMMA Emitted ==
  ASSUME WatchAssumption, WatchInvariant, NEW j \in Jobs, NEW e \in WatchEvent, Sends(j, e), Grown,
         mode \in {"serving", "draining"}, mode' = mode, active' \subseteq active,
         UNCHANGED <<seen, still, left, polled, silent>>
  PROVE  WatchInvariant'
<1>0. WatchTypeOK /\ SeenIsPast /\ Advancing /\ Growing /\ NotBehind /\ TimeIsLeft
  BY DEF WatchInvariant
<1>1. silence' \in [Jobs -> Nat] /\ silence' = [silence EXCEPT ![j] = 0]
  BY <1>0 DEF Sends, Emit, WatchTypeOK
<1>5. AdvancingIsNotKilled'
  BY DEF AdvancingIsNotKilled
<1>6. TimeIsLeft'
  <2>1. ASSUME NEW i \in active' \ silent, mode = "draining"
        PROVE  silence'[i] < Stall /\ left >= Extend - 1 /\ (polled => left = Extend)
    <3>1. i \in Jobs /\ silence[i] \in Nat
      BY <1>0, <2>1 DEF WatchTypeOK
    <3>2. silence[i] < Stall /\ left >= Extend - 1 /\ (polled => left = Extend)
      BY <1>0, <2>1 DEF TimeIsLeft
    <3>3. silence'[i] = silence[i] \/ silence'[i] = 0
      BY <1>0, <1>1, <3>1 DEF WatchTypeOK
    <3> QED
      BY <3>1, <3>2, <3>3 DEF WatchAssumption
  <2> QED
    BY <2>1 DEF TimeIsLeft
<1>2. SeenIsPast'
  <2>1. ASSUME NEW i \in Jobs
        PROVE  seen'[i].done <= reported'[i] /\ (phase'[i] = "data" => seen'[i].phase = "none")
    <3>1. seen[i].done \in Nat /\ reported[i] \in Nat /\ reported'[i] \in Nat
      BY <1>0 DEF WatchTypeOK, Grown
    <3>2. /\ seen[i].done <= reported[i] /\ reported[i] <= reported'[i]
          /\ phase[i] = "data" => seen[i].phase = "none"
          /\ phase'[i] = "data" => phase[i] = "data"
      BY <1>0 DEF WatchTypeOK, SeenIsPast, Grown
    <3> QED
      BY <3>1, <3>2
  <2> QED
    BY <2>1 DEF SeenIsPast
<1>3. CASE mode # "draining"
  <2>1. events' = events
    BY <1>3 DEF Sends, Emit
  <2>2. Advancing'
    <3>1. ASSUME NEW k \in DOMAIN events, events[k].is = "bytes"
          PROVE  events[k].done <= reported'[events[k].job]
      <4>1. events[k] \in WatchEvent
        BY <1>0, <3>1 DEF WatchTypeOK
      <4>2. /\ events[k].job \in Jobs /\ events[k].done \in Nat
            /\ events[k].done <= reported[events[k].job]
        BY <1>0, <4>1, <3>1, BytesOrNot DEF Advancing
      <4>3. /\ reported[events[k].job] <= reported'[events[k].job]
            /\ reported[events[k].job] \in Nat /\ reported'[events[k].job] \in Nat
        BY <1>0, <4>2 DEF Grown, WatchTypeOK
      <4> QED
        BY <4>2, <4>3
    <3>2. ASSUME NEW k \in DOMAIN events PROVE events[k].job \in Jobs
      <4>1. events[k] \in WatchEvent
        BY <1>0, <3>2 DEF WatchTypeOK
      <4> QED
        BY <4>1, BytesOrNot
    <3> QED
      BY <1>0, <2>1, <3>1, <3>2 DEF Advancing, Grown
  <2>3. Growing'
    BY <1>0, <2>1 DEF Growing
  <2> QED
    <3>1. WatchTypeOK'
      BY <1>0, <1>1, <2>1 DEF WatchTypeOK, Grown
    <3>2. NotBehind'
      BY <1>3 DEF NotBehind
    <3> QED
      BY <1>2, <1>5, <1>6, <2>2, <2>3, <3>1, <3>2 DEF WatchInvariant
<1>4. CASE mode = "draining"
  <2>1. events' = Append(events, e)
    BY <1>4 DEF Sends, Emit
  <2>2. /\ events' \in Seq(WatchEvent) /\ Len(events') = Len(events) + 1
        /\ events'[Len(events) + 1] = e
        /\ \A k \in DOMAIN events : k \in DOMAIN events' /\ events'[k] = events[k]
        /\ \A k \in DOMAIN events' : k \in DOMAIN events \/ k = Len(events) + 1
        /\ Len(events) \in Nat /\ DOMAIN events = 1 .. Len(events)
        /\ DOMAIN events' = 1 .. Len(events) + 1
    BY <1>0, <2>1 DEF WatchTypeOK
  <2>3. ASSUME NEW k \in DOMAIN events
        PROVE  /\ events[k].job \in Jobs
               /\ events[k].is = "bytes" => /\ events[k].done \in Nat
                                            /\ seen[events[k].job].done < events[k].done
                                            /\ events[k].done <= reported[events[k].job]
                                            /\ events[k].done <= reported'[events[k].job]
               /\ events[k].is = "phase" => /\ seen[events[k].job].phase = "none"
                                            /\ phase[events[k].job] = "metadata"
                                            /\ phase'[events[k].job] = "metadata"
               /\ events[k].is = "ended" => events[k].job \notin active'
    <3>1. events[k] \in WatchEvent
      BY <1>0, <2>3 DEF WatchTypeOK
    <3>2. events[k].job \in Jobs /\ (events[k].is = "bytes" => events[k].done \in Nat)
      BY <3>1, BytesOrNot
    <3>3. /\ reported[events[k].job] \in Nat /\ reported'[events[k].job] \in Nat
          /\ reported[events[k].job] <= reported'[events[k].job]
          /\ phase[events[k].job] = "metadata" => phase'[events[k].job] = "metadata"
      BY <1>0, <3>2 DEF WatchTypeOK, Grown
    <3>4. /\ events[k].is = "bytes" => /\ seen[events[k].job].done < events[k].done
                                       /\ events[k].done <= reported[events[k].job]
          /\ events[k].is = "phase" => /\ seen[events[k].job].phase = "none"
                                       /\ phase[events[k].job] = "metadata"
          /\ events[k].is = "ended" => events[k].job \notin active
      BY <1>0, <2>3 DEF Advancing
    <3> QED
      BY <3>2, <3>3, <3>4
  <2>4. /\ seen[j].done \in Nat /\ reported[j] \in Nat /\ seen[j].done <= reported[j]
        /\ e.is = "bytes" => /\ e.done \in Nat /\ seen[j].done < e.done
                             /\ reported[j] < e.done /\ e.done <= reported'[j]
        /\ e.is = "phase" => seen[j].phase = "none" /\ phase[j] = "data" /\ phase'[j] = "metadata"
        /\ e.is = "ended" => j \notin active'
        /\ e.job = j
    <3>1. /\ seen[j].done \in Nat /\ reported[j] \in Nat /\ seen[j].done <= reported[j]
          /\ phase[j] = "data" => seen[j].phase = "none"
      BY <1>0 DEF WatchTypeOK, SeenIsPast
    <3>2. e.is = "bytes" => e.done \in Nat
      BY BytesOrNot
    <3>3. /\ e.is = "bytes" => reported[j] < e.done /\ e.done <= reported'[j]
          /\ e.is = "phase" => phase[j] = "data" /\ phase'[j] = "metadata"
          /\ e.is = "ended" => j \notin active'
          /\ e.job = j
      BY DEF Sends
    <3> QED
      BY <3>1, <3>2, <3>3
  <2>5. Advancing'
    <3>1. ASSUME NEW k \in DOMAIN events'
          PROVE  /\ events'[k].is = "bytes" => /\ seen[events'[k].job].done < events'[k].done
                                               /\ events'[k].done <= reported'[events'[k].job]
                 /\ events'[k].is = "phase" => /\ seen[events'[k].job].phase = "none"
                                               /\ phase'[events'[k].job] = "metadata"
                 /\ events'[k].is = "ended" => events'[k].job \notin active'
      <4>1. CASE k \in DOMAIN events
        BY <2>2, <2>3, <4>1
      <4>2. CASE k = Len(events) + 1
        BY <2>2, <2>4, <4>2
      <4> QED
        BY <2>2, <3>1, <4>1, <4>2
    <3> QED
      BY <3>1 DEF Advancing
  <2>6. Growing'
    <3>1. ASSUME NEW k \in DOMAIN events', NEW l \in DOMAIN events', k < l,
                 events'[k].job = events'[l].job
          PROVE  /\ events'[k].is = "bytes" /\ events'[l].is = "bytes"
                       => events'[k].done < events'[l].done
                 /\ ~ (events'[k].is = "phase" /\ events'[l].is = "phase")
      <4>1. k \in DOMAIN events
        BY <2>2, <3>1
      <4>2. CASE l \in DOMAIN events
        BY <1>0, <2>2, <3>1, <4>1, <4>2 DEF Growing
      <4>3. CASE l = Len(events) + 1
        <5>1. events'[l] = e /\ events'[k] = events[k] /\ events[k].job = j
          BY <2>2, <2>4, <3>1, <4>1, <4>3
        <5>2. events[k].is = "bytes" => events[k].done \in Nat /\ events[k].done <= reported[j]
          BY <2>3, <4>1, <5>1
        <5>3. events[k].is = "phase" => phase[j] = "metadata"
          BY <2>3, <4>1, <5>1
        <5> QED
          BY <2>4, <5>1, <5>2, <5>3
      <4> QED
        BY <2>2, <3>1, <4>2, <4>3
    <3> QED
      BY <3>1 DEF Growing
  <2>7. NotBehind'
    <3>1. ASSUME NEW i \in active'
          PROVE  (\E k \in DOMAIN events' : events'[k].job = i) \/ still[i] <= silence'[i]
      <4>1. CASE i = j
        BY <2>2, <2>4, <4>1
      <4>2. CASE i # j
        <5>1. silence'[i] = silence[i] /\ i \in active
          BY <1>0, <1>1, <3>1, <4>2 DEF WatchTypeOK
        <5> QED
          BY <1>0, <1>4, <2>2, <5>1 DEF NotBehind
      <4> QED
        BY <4>1, <4>2
    <3> QED
      BY <3>1 DEF NotBehind
  <2>8. WatchTypeOK'
    BY <1>0, <1>1, <1>4, <2>2 DEF WatchTypeOK, Grown
  <2> QED
    BY <1>2, <1>5, <1>6, <2>5, <2>6, <2>7, <2>8 DEF WatchInvariant
<1> QED
  BY <1>3, <1>4

LEMMA WriteStep ==
  ASSUME WatchAssumption, WatchInvariant, NEW j \in Jobs, Write(j)
  PROVE  WatchInvariant'
<1>0. WatchTypeOK
  BY DEF WatchInvariant
<1>1. /\ done[j] \in Nat /\ reported[j] \in Nat /\ done[j] + 1 \in Nat
      /\ done' = [done EXCEPT ![j] = @ + 1]
      /\ UNCHANGED <<active, phase, seen, still, left, mode, polled, silent>>
      /\ mode \in {"serving", "draining"}
  BY <1>0 DEF WatchTypeOK, Write
<1>2. CASE done[j] + 1 - reported[j] >= Step
  <2> DEFINE e == Bytes(j, done[j] + 1)
  <2>1. e \in WatchEvent /\ e.job = j /\ e.is = "bytes" /\ e.done = done[j] + 1
    BY <1>1 DEF Bytes, WatchEvent
  <2>2. Emit(j, e) /\ reported' = [reported EXCEPT ![j] = done[j] + 1]
    BY <1>2 DEF Write
  <2>3. reported[j] < done[j] + 1
    BY <1>1, <1>2 DEF WatchAssumption
  <2> HIDE DEF e
  <2>4. reported'[j] = done[j] + 1
    BY <1>0, <2>2 DEF WatchTypeOK
  <2>5. Sends(j, e)
    BY <1>1, <2>1, <2>2, <2>3, <2>4 DEF Sends
  <2>6. Grown
    BY <1>0, <1>1, <2>2, <2>3 DEF Grown, WatchTypeOK
  <2> QED
    BY <1>1, <2>1, <2>5, <2>6, Emitted
<1>3. CASE ~ (done[j] + 1 - reported[j] >= Step)
  <2>1. UNCHANGED <<events, silence, reported>>
    BY <1>3 DEF Write
  <2>2. WatchTypeOK'
    BY <1>0, <1>1, <2>1 DEF WatchTypeOK
  <2> QED
    BY <1>1, <2>1, <2>2
       DEF WatchInvariant, SeenIsPast, Advancing, Growing, NotBehind, TimeIsLeft,
           AdvancingIsNotKilled
<1> QED
  BY <1>2, <1>3

LEMMA NextPhaseStep ==
  ASSUME WatchAssumption, WatchInvariant, NEW j \in Jobs, NextPhase(j)
  PROVE  WatchInvariant'
<1>0. WatchTypeOK
  BY DEF WatchInvariant
<1> DEFINE e == Phase(j, "metadata")
<1>1. e \in WatchEvent /\ e.job = j /\ e.is = "phase"
  BY DEF Phase, WatchEvent
<1>2. /\ Emit(j, e) /\ phase[j] = "data" /\ phase' = [phase EXCEPT ![j] = "metadata"]
      /\ UNCHANGED <<active, done, reported, seen, still, left, mode, polled, silent>>
      /\ mode \in {"serving", "draining"}
  BY DEF NextPhase
<1> HIDE DEF e
<1>3. phase'[j] = "metadata"
  BY <1>0, <1>2 DEF WatchTypeOK
<1>4. Sends(j, e)
  BY <1>1, <1>2, <1>3 DEF Sends
<1>5. Grown
  BY <1>0, <1>2 DEF Grown, WatchTypeOK
<1> QED
  BY <1>1, <1>2, <1>4, <1>5, Emitted

LEMMA EndStep ==
  ASSUME WatchAssumption, WatchInvariant, NEW j \in Jobs, End(j)
  PROVE  WatchInvariant'
<1>0. WatchTypeOK
  BY DEF WatchInvariant
<1> DEFINE e == Ended(j)
<1>1. e \in WatchEvent /\ e.job = j /\ e.is = "ended"
  BY DEF Ended, WatchEvent
<1>2. /\ Emit(j, e) /\ active' = active \ {j}
      /\ UNCHANGED <<done, reported, phase, seen, still, left, mode, polled, silent>>
      /\ mode \in {"serving", "draining"}
  BY DEF End
<1> HIDE DEF e
<1>3. Sends(j, e)
  BY <1>1, <1>2 DEF Sends
<1>4. Grown
  BY <1>0, <1>2 DEF Grown, WatchTypeOK
<1> QED
  BY <1>1, <1>2, <1>3, <1>4, Emitted

\* The watch reads an event: of a job that still runs, it is an advance.
LEMMA ReceiveStep ==
  ASSUME WatchInvariant, Receive
  PROVE  WatchInvariant'
<1>0. WatchTypeOK /\ SeenIsPast /\ Advancing /\ Growing /\ NotBehind /\ TimeIsLeft
  BY DEF WatchInvariant
<1> DEFINE e == Head(events)
           j == e.job
<1>1. /\ mode = "draining" /\ events # <<>> /\ events' = Tail(events)
      /\ seen' = [seen EXCEPT ![j] = Observe(@, e)]
      /\ still' = IF Advances(seen[j], e) THEN [still EXCEPT ![j] = 0] ELSE still
      /\ UNCHANGED <<active, done, reported, phase, told, left, mode, wrote, polled, silence,
                     silent>>
  BY DEF Receive, pauses
<1>2. /\ Len(events) \in Nat /\ DOMAIN events = 1 .. Len(events) /\ Len(events) >= 1
      /\ e = events[1] /\ 1 \in DOMAIN events /\ events[1] \in WatchEvent
      /\ events' \in Seq(WatchEvent) /\ DOMAIN events' = 1 .. Len(events) - 1
      /\ \A k \in DOMAIN events' : k + 1 \in DOMAIN events /\ events'[k] = events[k + 1]
      /\ \A k \in DOMAIN events : k # 1 => k - 1 \in DOMAIN events' /\ events'[k - 1] = events[k]
  BY <1>0, <1>1 DEF WatchTypeOK
<1>3. /\ j \in Jobs /\ e.is \in {"bytes", "phase", "ended"}
      /\ e.is = "bytes" => e.done \in Nat
      /\ e.is = "phase" => e.name = "metadata"
  BY <1>2, BytesOrNot
<1>4. /\ e.is = "bytes" => seen[j].done < e.done /\ e.done <= reported[j]
      /\ e.is = "phase" => seen[j].phase = "none" /\ phase[j] = "metadata"
      /\ e.is = "ended" => j \notin active
  BY <1>0, <1>2 DEF Advancing
<1> HIDE DEF e, j
<1>5. /\ seen[j] \in [done : Nat, phase : {"none", "metadata"}]
      /\ seen[j].done \in Nat
      /\ \A i \in Jobs : seen'[i] = IF i = j THEN Observe(seen[j], e) ELSE seen[i]
  BY <1>0, <1>1, <1>3 DEF WatchTypeOK
<1>6. /\ Observe(seen[j], e) \in [done : Nat, phase : {"none", "metadata"}]
      /\ Observe(seen[j], e).done = IF e.is = "bytes" THEN e.done ELSE seen[j].done
      /\ Observe(seen[j], e).phase = IF e.is = "phase" THEN "metadata" ELSE seen[j].phase
  BY <1>3, <1>5 DEF Observe
<1>7. j \in active => still'[j] = 0
  <2>1. j \in active => Advances(seen[j], e)
    BY <1>3, <1>4, <1>5 DEF Advances
  <2> QED
    BY <1>0, <1>1, <1>3, <2>1 DEF WatchTypeOK
<1>8. \A i \in Jobs : i # j => still'[i] = still[i]
  BY <1>0, <1>1 DEF WatchTypeOK
<1>9. WatchTypeOK'
  <2>1. seen' \in [Jobs -> [done : Nat, phase : {"none", "metadata"}]]
    BY <1>0, <1>1, <1>3, <1>6 DEF WatchTypeOK
  <2>2. still' \in [Jobs -> Nat]
    BY <1>0, <1>1, <1>3 DEF WatchTypeOK
  <2> QED
    BY <1>0, <1>1, <1>2, <2>1, <2>2 DEF WatchTypeOK
<1>10. SeenIsPast'
  <2>1. ASSUME NEW i \in Jobs
        PROVE  seen'[i].done <= reported[i] /\ (phase[i] = "data" => seen'[i].phase = "none")
    BY <1>0, <1>3, <1>4, <1>5, <1>6 DEF SeenIsPast
  <2> QED
    BY <1>1, <2>1 DEF SeenIsPast
<1>11. Advancing'
  <2>1. ASSUME NEW k \in DOMAIN events'
        PROVE  /\ events'[k].is = "bytes" => /\ seen'[events'[k].job].done < events'[k].done
                                             /\ events'[k].done <= reported[events'[k].job]
               /\ events'[k].is = "phase" => /\ seen'[events'[k].job].phase = "none"
                                             /\ phase[events'[k].job] = "metadata"
               /\ events'[k].is = "ended" => events'[k].job \notin active
    <3> DEFINE f == events[k + 1]
    <3>1. k + 1 \in DOMAIN events /\ f \in WatchEvent /\ events'[k] = f /\ 1 < k + 1
      BY <1>0, <1>2, <2>1 DEF WatchTypeOK
    <3>2. /\ f.is = "bytes" => seen[f.job].done < f.done /\ f.done <= reported[f.job]
          /\ f.is = "phase" => seen[f.job].phase = "none" /\ phase[f.job] = "metadata"
          /\ f.is = "ended" => f.job \notin active
      BY <1>0, <3>1 DEF Advancing
    <3>3. j = f.job => /\ e.is = "bytes" /\ f.is = "bytes" => e.done < f.done
                       /\ ~ (e.is = "phase" /\ f.is = "phase")
      BY <1>0, <1>2, <3>1 DEF Growing, j
    <3>4. f.job \in Jobs
      BY <3>1, BytesOrNot
    <3> HIDE DEF f
    <3>5. CASE f.job # j
      BY <1>5, <3>1, <3>2, <3>4, <3>5
    <3>6. CASE f.job = j
      <4>1. seen'[f.job] = Observe(seen[j], e)
        BY <1>5, <3>4, <3>6
      <4> QED
        BY <1>6, <3>1, <3>2, <3>3, <3>6, <4>1
    <3> QED
      BY <3>5, <3>6
  <2> QED
    BY <1>1, <2>1 DEF Advancing
<1>12. Growing'
  <2>1. ASSUME NEW k \in DOMAIN events', NEW l \in DOMAIN events', k < l
        PROVE  k + 1 < l + 1
    BY <1>2, <2>1
  <2> QED
    BY <1>0, <1>2, <2>1 DEF Growing
<1>13. NotBehind'
  <2>1. ASSUME NEW i \in active
        PROVE  (\E k \in DOMAIN events' : events'[k].job = i) \/ still'[i] <= silence[i]
    <3>1. i \in Jobs /\ silence[i] \in Nat
      BY <1>0, <2>1 DEF WatchTypeOK
    <3>2. CASE i = j
      BY <1>7, <2>1, <3>1, <3>2
    <3>3. CASE i # j
      <4>1. CASE \E k \in DOMAIN events : events[k].job = i
        <5>1. PICK k \in DOMAIN events : events[k].job = i
          BY <4>1
        <5>2. k # 1
          BY <1>2, <3>3, <5>1 DEF j
        <5> QED
          BY <1>2, <5>1, <5>2
      <4>2. CASE ~ \E k \in DOMAIN events : events[k].job = i
        BY <1>0, <1>1, <1>8, <2>1, <3>1, <3>3, <4>2 DEF NotBehind
      <4> QED
        BY <4>1, <4>2
    <3> QED
      BY <3>2, <3>3
  <2> QED
    BY <1>1, <2>1 DEF NotBehind
<1>14. TimeIsLeft' /\ AdvancingIsNotKilled'
  BY <1>0, <1>1 DEF TimeIsLeft, AdvancingIsNotKilled
<1> QED
  BY <1>9, <1>10, <1>11, <1>12, <1>13, <1>14 DEF WatchInvariant

LEMMA PollStep ==
  ASSUME WatchAssumption, WatchInvariant, Poll
  PROVE  WatchInvariant'
<1>0. WatchTypeOK /\ SeenIsPast /\ Advancing /\ Growing /\ NotBehind /\ TimeIsLeft
  BY DEF WatchInvariant
<1>1. /\ mode = "draining" /\ events = <<>> /\ polled' = TRUE
      /\ left' = IF ShouldExtend(still) THEN Extend ELSE left
      /\ UNCHANGED <<active, done, reported, phase, events, seen, still, mode, silence, silent>>
  BY DEF Poll, pauses
<1>2. WatchTypeOK'
  BY <1>0, <1>1 DEF WatchTypeOK, WatchAssumption
<1>3. ASSUME NEW j \in active \ silent
      PROVE  silence[j] < Stall /\ left' >= Extend - 1 /\ left' = Extend
  <2>1. still[j] <= silence[j] /\ silence[j] < Stall
    BY <1>0, <1>1, <1>3 DEF NotBehind, TimeIsLeft
  <2>2. still[j] \in Nat /\ silence[j] \in Nat
    BY <1>0, <1>3 DEF WatchTypeOK
  <2>3. ShouldExtend(still)
    BY <1>3, <2>1, <2>2 DEF ShouldExtend, WatchAssumption
  <2> QED
    BY <1>1, <2>1, <2>3 DEF WatchAssumption
<1>4. TimeIsLeft'
  BY <1>1, <1>3 DEF TimeIsLeft
<1> QED
  BY <1>0, <1>1, <1>2, <1>4
     DEF WatchInvariant, SeenIsPast, Advancing, Growing, NotBehind, AdvancingIsNotKilled

LEMMA TickStep ==
  ASSUME WatchAssumption, WatchInvariant, Tick
  PROVE  WatchInvariant'
<1>0. WatchTypeOK /\ SeenIsPast /\ Advancing /\ Growing /\ NotBehind /\ TimeIsLeft
  BY DEF WatchInvariant
<1>1. /\ mode = "draining" /\ polled /\ left > 0 /\ left' = left - 1 /\ polled' = FALSE
      /\ still' = [j \in Jobs |-> Capped(still[j])]
      /\ silence' = [j \in Jobs |-> Capped(silence[j])]
      /\ silent' = silent \cup {j \in active : silence'[j] = Stall}
      /\ UNCHANGED <<active, done, reported, phase, events, seen, mode>>
  BY DEF Tick
<1>2. \A n \in Nat : /\ Capped(n) \in Nat /\ (n < Stall => Capped(n) = n + 1)
                     /\ \A m \in Nat : m <= n => Capped(m) <= Capped(n)
  BY DEF Capped, WatchAssumption
<1>3. WatchTypeOK'
  <2>1. left' \in Nat
    BY <1>0, <1>1 DEF WatchTypeOK
  <2>2. still' \in [Jobs -> Nat] /\ silence' \in [Jobs -> Nat]
    BY <1>0, <1>1, <1>2 DEF WatchTypeOK
  <2> QED
    BY <1>0, <1>1, <2>1, <2>2 DEF WatchTypeOK
<1>4. NotBehind'
  <2>1. ASSUME NEW j \in active, still[j] <= silence[j] PROVE still'[j] <= silence'[j]
    BY <1>0, <1>1, <1>2, <2>1 DEF WatchTypeOK
  <2> QED
    BY <1>0, <1>1, <2>1 DEF NotBehind
<1>5. TimeIsLeft'
  <2>1. ASSUME NEW j \in active \ silent'
        PROVE  silence'[j] < Stall /\ left' >= Extend - 1
    <3>1. j \in active \ silent /\ silence'[j] # Stall
      BY <1>1, <2>1
    <3>2. silence[j] < Stall /\ left = Extend
      BY <1>0, <1>1, <3>1 DEF TimeIsLeft
    <3>3. silence[j] \in Nat /\ silence'[j] = Capped(silence[j])
      BY <1>0, <1>1, <3>1 DEF WatchTypeOK
    <3> QED
      BY <1>1, <1>2, <3>1, <3>2, <3>3 DEF WatchAssumption
  <2> QED
    BY <1>1, <2>1 DEF TimeIsLeft
<1>6. SeenIsPast' /\ Advancing' /\ Growing' /\ AdvancingIsNotKilled'
  BY <1>0, <1>1 DEF SeenIsPast, Advancing, Growing, AdvancingIsNotKilled
<1> QED
  BY <1>3, <1>4, <1>5, <1>6 DEF WatchInvariant

LEMMA OtherStep ==
  ASSUME WatchAssumption, WatchInvariant,
         Signal \/ SignalAgain \/ Exit \/ Kill \/ UNCHANGED watchVars
  PROVE  WatchInvariant'
<1>0. WatchTypeOK /\ SeenIsPast /\ Advancing /\ Growing /\ NotBehind /\ TimeIsLeft
  BY DEF WatchInvariant
<1> USE DEF SeenIsPast, Advancing, Growing
<1>1. CASE Signal
  <2>1. /\ mode = "serving" /\ mode' = "draining" /\ left' = Extend /\ polled' = FALSE
        /\ still' = [j \in Jobs |-> 0] /\ silence' = [j \in Jobs |-> 0]
        /\ UNCHANGED <<active, done, reported, phase, events, seen>>
    BY <1>1 DEF Signal
  <2>2. WatchTypeOK'
    BY <1>0, <2>1 DEF WatchTypeOK, WatchAssumption
  <2>3. NotBehind'
    BY <1>0, <2>1 DEF NotBehind, WatchTypeOK
  <2>4. TimeIsLeft'
    BY <1>0, <2>1 DEF TimeIsLeft, WatchTypeOK, WatchAssumption
  <2> QED
    BY <1>0, <2>1, <2>2, <2>3, <2>4 DEF WatchInvariant, AdvancingIsNotKilled
<1>2. CASE Exit
  <2>1. /\ mode' = "stopped"
        /\ UNCHANGED <<active, done, reported, phase, events, seen, still, left, polled, silence,
                       silent>>
    BY <1>2 DEF Exit, pauses
  <2>2. WatchTypeOK'
    BY <1>0, <2>1 DEF WatchTypeOK
  <2> QED
    BY <1>0, <2>1, <2>2 DEF WatchInvariant, NotBehind, TimeIsLeft, AdvancingIsNotKilled
<1>3. CASE Kill
  <2>1. /\ mode = "draining" /\ left = 0 /\ mode' = "killed"
        /\ UNCHANGED <<active, done, reported, phase, events, seen, still, left, polled, silence,
                       silent>>
    BY <1>3 DEF Kill, pauses
  <2>2. WatchTypeOK'
    BY <1>0, <2>1 DEF WatchTypeOK
  <2>3. active \subseteq silent
    BY <1>0, <2>1 DEF TimeIsLeft, WatchAssumption
  <2> QED
    BY <1>0, <2>1, <2>2, <2>3 DEF WatchInvariant, NotBehind, TimeIsLeft, AdvancingIsNotKilled
<1>4. CASE SignalAgain \/ UNCHANGED watchVars
  <2>1. UNCHANGED <<active, done, reported, phase, events, seen, still, left, mode, polled,
                    silence, silent>>
    BY <1>4 DEF SignalAgain, pauses, watchVars
  <2>2. WatchTypeOK'
    BY <1>0, <2>1 DEF WatchTypeOK
  <2> QED
    BY <1>0, <2>1, <2>2 DEF WatchInvariant, NotBehind, TimeIsLeft, AdvancingIsNotKilled
<1> QED
  BY <1>1, <1>2, <1>3, <1>4

\* The inductive invariant of a stop: the watch is never behind a job that reports.
THEOREM WatchInvariance == WatchAssumption => (WatchSpec => []WatchInvariant)
<1>1. ASSUME WatchAssumption, WatchInit PROVE WatchInvariant
  <2>1. /\ active = Jobs /\ done = [j \in Jobs |-> 0] /\ reported = [j \in Jobs |-> 0]
        /\ phase = [j \in Jobs |-> "data"] /\ events = <<>> /\ left = Extend
        /\ seen = [j \in Jobs |-> [done |-> 0, phase |-> "none"]] /\ mode = "serving"
        /\ still = [j \in Jobs |-> 0] /\ silence = [j \in Jobs |-> 0] /\ polled = FALSE
    BY <1>1 DEF WatchInit
  <2>2. WatchTypeOK
    <3>1. events \in Seq(WatchEvent) /\ left \in Nat
      BY <1>1, <2>1 DEF WatchAssumption
    <3>2. /\ done \in [Jobs -> Nat] /\ reported \in [Jobs -> Nat]
          /\ still \in [Jobs -> Nat] /\ silence \in [Jobs -> Nat]
      BY <2>1
    <3>3. seen \in [Jobs -> [done : Nat, phase : {"none", "metadata"}]]
      BY <2>1
    <3> QED
      BY <2>1, <3>1, <3>2, <3>3 DEF WatchTypeOK
  <2>3. SeenIsPast /\ Advancing /\ Growing
    BY <2>1 DEF SeenIsPast, Advancing, Growing
  <2> QED
    BY <2>1, <2>2, <2>3 DEF WatchInvariant, NotBehind, TimeIsLeft, AdvancingIsNotKilled
<1>2. ASSUME WatchAssumption
      PROVE  WatchInvariant /\ [WatchNext]_watchVars => WatchInvariant'
  BY <1>2, WriteStep, NextPhaseStep, EndStep, ReceiveStep, PollStep, TickStep, OtherStep
     DEF WatchNext
<1>3. CASE WatchAssumption
  BY <1>1, <1>2, <1>3, PTL DEF WatchSpec
<1> QED
  BY <1>3

\* drain_on_signal: a stop cuts off a job only if all jobs left had sent no event for
\* STALL_LIMIT, for any number of jobs, however late the watch reads their events.
THEOREM AdvancingIsSpared == WatchAssumption => (WatchSpec => []AdvancingIsNotKilled)
<1>1. WatchInvariant => AdvancingIsNotKilled
  BY DEF WatchInvariant
<1> QED
  BY <1>1, WatchInvariance, PTL
==============================================================================
