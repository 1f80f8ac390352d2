----------------------------- MODULE ServiceProofs ------------------------------
(***************************************************************************)
(* What the daemon's handlers and tasks promise together, for any number   *)
(* of requests, permits, results and slots: nothing is lost or handed out  *)
(* twice, results stay with their owner, and the process waits for work.   *)
(*                                                                         *)
(* The balance is a matter of who holds what at each step.  It is          *)
(* inductive once two things are known besides: which requests can be at   *)
(* which step (OpsFit), and that the registry entry of a task under way is *)
(* still its own, without a result (RunsOwnEntries), so that finishing it  *)
(* cannot drop the reservation of another result.                          *)
(***************************************************************************)
EXTENDS Service, FiniteSetTheorems, TLAPS

Labels == {"start", "done", "permit", "reserve", "request", "register", "slot", "work",
           "ok", "failed", "result", "history", "streaming", "owner", "polkit", "cancel",
           "blocking"}
Phases == {"serving", "draining", "stopped", "dropping", "exited"}
Ids == {IdOf(c) : c \in Calls}

ServiceType ==
    /\ req \in Scenarios
    /\ pc \in [Calls -> Labels]
    /\ jobs \in [Ids -> [run : Calls \cup {None}, set : {SetOf(c) : c \in Calls} \cup {None},
                         state : {"absent", "running", "ok", "failed", "cancelled"},
                         cancel : BOOLEAN, result : Calls \cup {None}]]
    /\ permits \in Nat /\ results \in Nat /\ slots \in Nat
    /\ asleep \subseteq Calls
    /\ phase \in Phases

\* Where a request can be depends on what it asks for.
OpsFit ==
    \A c \in Calls :
        /\ pc[c] \in {"permit", "reserve", "request"} => req[c].op = "captured"
        /\ pc[c] \in {"history", "streaming"} => req[c].op = "history"
        /\ pc[c] = "slot" => req[c].op \in {"verify", "captured"}

UnderWay == {"slot", "work", "ok", "failed"}

RunsOwnEntries ==
    \A c \in Calls : pc[c] \in UnderWay =>
        /\ Running(IdOf(c)) /\ jobs[IdOf(c)].run = c /\ jobs[IdOf(c)].result = None

\* An entry's result is that of the run it stands for.
ResultsAreOfRuns == \A i \in Ids : jobs[i].result \in {None, jobs[i].run}

ServiceInv ==
    /\ ServiceType /\ OpsFit /\ RunsOwnEntries /\ ResultsAreOfRuns
    /\ ResourcesAreAccounted

Retained == {i \in DOMAIN jobs : jobs[i].result # None}

-------------------------------------------------------------------------------
LEMMA IdsAreFinite ==
    IsFiniteSet(Ids) /\ \A S \in SUBSET Ids : IsFiniteSet(S) /\ Cardinality(S) \in Nat
<1> DEFINE f == [c \in Calls |-> IdOf(c)]
<1>1. f \in Surjection(Calls, Ids)
  BY DEF Surjection, Ids
<1>2. IsFiniteSet(Ids)
  BY <1>1, ServiceAssumption, FS_Surjection
<1> QED
  BY <1>2, FS_Subset, FS_CardinalityType

LEMMA CallsAreFinite ==
    \A S \in SUBSET Calls : IsFiniteSet(S) /\ Cardinality(S) \in Nat
BY ServiceAssumption, FS_Subset, FS_CardinalityType

\* Two sets that differ in one element at most.
LEMMA OneChanged ==
    ASSUME NEW S, NEW T, NEW x, IsFiniteSet(S), \A y : y # x => (y \in S <=> y \in T)
    PROVE  /\ x \in S /\ x \notin T => Cardinality(T) = Cardinality(S) - 1
           /\ x \notin S /\ x \in T => Cardinality(T) = Cardinality(S) + 1
           /\ (x \in S <=> x \in T) => T = S
<1>1. CASE x \in S /\ x \notin T
  <2>1. T = S \ {x}
    BY <1>1
  <2> QED
    BY <2>1, <1>1, FS_RemoveElement
<1>2. CASE x \notin S /\ x \in T
  <2>1. T = S \cup {x}
    BY <1>2
  <2> QED
    BY <2>1, <1>2, FS_AddElement
<1>3. CASE x \in S <=> x \in T
  <2>1. T = S
    BY <1>3
  <2> QED
    BY <2>1, <1>3
<1> QED
  BY <1>1, <1>2, <1>3

\* When call c moves, only c can enter or leave the sets of holders.
LEMMA HoldersChange ==
    ASSUME ServiceType, NEW c \in Calls, NEW there \in Labels, Goes(c, there), req' = req
    PROVE  /\ pc' \in [Calls -> Labels] /\ pc'[c] = there
           /\ \A d \in Calls \ {c} : pc'[d] = pc[d]
           /\ IsFiniteSet(WithPermit) /\ IsFiniteSet(Reserving) /\ IsFiniteSet(InSlot)
           /\ \A y : y # c => /\ y \in WithPermit <=> y \in WithPermit'
                              /\ y \in Reserving <=> y \in Reserving'
                              /\ y \in InSlot <=> y \in InSlot'
<1>1. pc' \in [Calls -> Labels] /\ pc'[c] = there /\ \A d \in Calls \ {c} : pc'[d] = pc[d]
  BY DEF ServiceType, Goes
<1>2. WithPermit \in SUBSET Calls /\ Reserving \in SUBSET Calls /\ InSlot \in SUBSET Calls
  BY DEF WithPermit, Reserving, InSlot
<1>3. IsFiniteSet(WithPermit) /\ IsFiniteSet(Reserving) /\ IsFiniteSet(InSlot)
  BY <1>2, CallsAreFinite
<1>4. \A y : y # c => /\ y \in WithPermit <=> y \in WithPermit'
                      /\ y \in Reserving <=> y \in Reserving'
                      /\ y \in InSlot <=> y \in InSlot'
  BY <1>1 DEF WithPermit, Reserving, InSlot
<1> QED
  BY <1>1, <1>3, <1>4

\* The balance after a step of call c, from c's own place in it.
LEMMA Balance ==
    ASSUME ServiceType, ServiceType', Balanced, NEW c \in Calls, NEW there \in Labels,
           Goes(c, there), req' = req,
           permits' = permits + (IF c \in WithPermit THEN 1 ELSE 0)
                              - (IF c \in WithPermit' THEN 1 ELSE 0),
           slots' = slots + (IF c \in InSlot THEN 1 ELSE 0) - (IF c \in InSlot' THEN 1 ELSE 0),
           results' - Cardinality(Retained')
             = results - Cardinality(Retained) + (IF c \in Reserving' THEN 1 ELSE 0)
                                               - (IF c \in Reserving THEN 1 ELSE 0),
           results' <= MaxResults
    PROVE  Balanced'
<1>1. /\ IsFiniteSet(WithPermit) /\ IsFiniteSet(Reserving) /\ IsFiniteSet(InSlot)
      /\ \A y : y # c => /\ y \in WithPermit <=> y \in WithPermit'
                         /\ y \in Reserving <=> y \in Reserving'
                         /\ y \in InSlot <=> y \in InSlot'
  BY HoldersChange
<1>2. Cardinality(WithPermit') = Cardinality(WithPermit) + (IF c \in WithPermit' THEN 1 ELSE 0)
                                   - (IF c \in WithPermit THEN 1 ELSE 0)
      /\ Cardinality(WithPermit) \in Nat
  BY <1>1, OneChanged, FS_CardinalityType
<1>3. Cardinality(Reserving') = Cardinality(Reserving) + (IF c \in Reserving' THEN 1 ELSE 0)
                                   - (IF c \in Reserving THEN 1 ELSE 0)
      /\ Cardinality(Reserving) \in Nat
  BY <1>1, OneChanged, FS_CardinalityType
<1>4. Cardinality(InSlot') = Cardinality(InSlot) + (IF c \in InSlot' THEN 1 ELSE 0)
                                   - (IF c \in InSlot THEN 1 ELSE 0)
      /\ Cardinality(InSlot) \in Nat
  <2>1. IsFiniteSet(InSlot) /\ \A y : y # c => (y \in InSlot <=> y \in InSlot')
    BY <1>1
  <2>2. Cardinality(InSlot) \in Nat
    BY <2>1, FS_CardinalityType
  <2>3. /\ c \in InSlot /\ c \notin InSlot' => Cardinality(InSlot') = Cardinality(InSlot) - 1
        /\ c \notin InSlot /\ c \in InSlot' => Cardinality(InSlot') = Cardinality(InSlot) + 1
        /\ (c \in InSlot <=> c \in InSlot') => InSlot' = InSlot
    BY <2>1, OneChanged
  <2> QED
    BY <2>2, <2>3
<1>5. Cardinality(Retained) \in Nat /\ Cardinality(Retained') \in Nat
  <2>1. Ids' = Ids
    BY DEF Ids, IdOf
  <2>2. DOMAIN jobs = Ids /\ DOMAIN jobs' = Ids
    BY <2>1 DEF ServiceType
  <2>3. Retained \in SUBSET Ids /\ Retained' \in SUBSET Ids
    BY <2>2 DEF Retained
  <2> QED
    BY <2>3, IdsAreFinite
<1>6. /\ permits \in Nat /\ results \in Nat /\ slots \in Nat
      /\ permits' \in Nat /\ results' \in Nat /\ slots' \in Nat
  BY DEF ServiceType
<1>7. /\ permits + Cardinality(WithPermit) = MaxOperations
      /\ results = Cardinality(Reserving) + Cardinality(Retained)
      /\ slots + Cardinality(InSlot) = MaxSlots
  BY DEF Balanced, Retained
<1>8. /\ permits' + Cardinality(WithPermit') = MaxOperations
      /\ slots' + Cardinality(InSlot') = MaxSlots
  BY <1>2, <1>4, <1>6, <1>7
<1>9. results' = Cardinality(Reserving') + Cardinality(Retained')
  BY <1>3, <1>5, <1>6, <1>7
<1> QED
  BY <1>8, <1>9 DEF Balanced, Retained

\* A reservation that is held is counted.
LEMMA ReservationsCount ==
    ASSUME ServiceType, Balanced
    PROVE  /\ \A c \in Reserving : results >= 1
           /\ \A i \in Retained : results >= 1
<1>1. Reserving \in SUBSET Calls /\ Retained \in SUBSET Ids
  BY DEF Reserving, Retained, ServiceType
<1>2. /\ IsFiniteSet(Reserving) /\ Cardinality(Reserving) \in Nat
      /\ IsFiniteSet(Retained) /\ Cardinality(Retained) \in Nat
  BY <1>1, CallsAreFinite, IdsAreFinite
<1>3. (Reserving # {} => Cardinality(Reserving) # 0) /\ (Retained # {} => Cardinality(Retained) # 0)
  BY <1>2, FS_EmptySet
<1>4. results = Cardinality(Reserving) + Cardinality(Retained)
  BY DEF Balanced, Retained
<1> QED
  BY <1>2, <1>3, <1>4

\* A step of call c that leaves the registry and the phase alone.
LEMMA QuietStep ==
    ASSUME ServiceInv, NEW c \in Calls, NEW there \in Labels, Goes(c, there),
           UNCHANGED <<req, jobs, read, phase>>,
           there \in {"permit", "reserve", "request"} => req[c].op = "captured",
           there \in {"history", "streaming"} => req[c].op = "history",
           there = "slot" => req[c].op \in {"verify", "captured"},
           there \in UnderWay => pc[c] \in UnderWay,
           asleep' \subseteq Calls,
           permits' \in Nat, results' \in Nat, slots' \in Nat, results' <= MaxResults,
           permits' = permits + (IF c \in WithPermit THEN 1 ELSE 0)
                              - (IF c \in WithPermit' THEN 1 ELSE 0),
           slots' = slots + (IF c \in InSlot THEN 1 ELSE 0) - (IF c \in InSlot' THEN 1 ELSE 0),
           results' = results + (IF c \in Reserving' THEN 1 ELSE 0)
                              - (IF c \in Reserving THEN 1 ELSE 0)
    PROVE  ServiceInv'
<1>1. /\ pc' \in [Calls -> Labels] /\ pc'[c] = there
      /\ \A d \in Calls \ {c} : pc'[d] = pc[d]
  BY HoldersChange DEF ServiceInv
<1>2. ServiceType'
  <2>1. Ids' = Ids /\ {SetOf(d) : d \in Calls}' = {SetOf(d) : d \in Calls}
    BY DEF Ids, IdOf, SetOf
  <2> QED
    BY <1>1, <2>1 DEF ServiceInv, ServiceType
<1>3. OpsFit'
  BY <1>1 DEF ServiceInv, OpsFit
<1>4. RunsOwnEntries'
  BY <1>1 DEF ServiceInv, RunsOwnEntries, IdOf, Running
<1>5. ResultsAreOfRuns'
  BY DEF ServiceInv, ResultsAreOfRuns, Ids, IdOf
<1>6. Balanced'
  <2>1. Retained' = Retained
    BY DEF Retained
  <2>2. ServiceType /\ Balanced
    BY DEF ServiceInv, ResourcesAreAccounted
  <2>3. Cardinality(Retained) \in Nat
    <3>1. Retained \in SUBSET Ids
      BY <2>2 DEF Retained, ServiceType
    <3> QED
      BY <3>1, IdsAreFinite
  <2>4. results \in Nat
    BY <2>2 DEF ServiceType
  <2>5. results' - Cardinality(Retained')
          = results - Cardinality(Retained) + (IF c \in Reserving' THEN 1 ELSE 0)
                                            - (IF c \in Reserving THEN 1 ELSE 0)
    BY <2>1, <2>3, <2>4
  <2> QED
    BY <1>2, <2>2, <2>5, Balance
<1>7. ResultsStayWithTheirOwner'
  BY DEF ServiceInv, ResourcesAreAccounted, ResultsStayWithTheirOwner
<1> QED
  BY <1>2, <1>3, <1>4, <1>5, <1>6, <1>7 DEF ServiceInv, ResourcesAreAccounted

-------------------------------------------------------------------------------
LEMMA InvInit == Init => ServiceInv
<1> SUFFICES ASSUME Init PROVE ServiceInv
  OBVIOUS
<1>1. pc \in [Calls -> Labels] /\ \A c \in Calls : pc[c] = "start"
  BY DEF Init, Labels
<1>2. \A i \in Ids : jobs[i] = NoJob
  BY DEF Init, Ids
<1>3. ServiceType
  BY <1>1, ServiceAssumption DEF Init, ServiceType, Ids, NoJob, Phases
<1>4. OpsFit /\ RunsOwnEntries
  BY <1>1 DEF OpsFit, RunsOwnEntries, UnderWay
<1>5. ResultsAreOfRuns
  BY <1>2 DEF ResultsAreOfRuns, NoJob
<1>6. WithPermit = {} /\ Reserving = {} /\ InSlot = {}
  BY <1>1 DEF WithPermit, Reserving, InSlot
<1>7. Retained = {}
  BY <1>2, <1>3 DEF ServiceType, NoJob, Retained
<1>8. Cardinality(WithPermit) = 0 /\ Cardinality(Reserving) = 0 /\ Cardinality(InSlot) = 0
      /\ Cardinality(Retained) = 0
  BY <1>6, <1>7, FS_EmptySet
<1>9. Balanced
  <2>1. permits = MaxOperations /\ results = 0 /\ slots = MaxSlots
    BY DEF Init
  <2>2. MaxOperations \in Nat /\ MaxResults \in Nat /\ MaxSlots \in Nat
    BY ServiceAssumption
  <2> QED
    BY <1>8, <2>1, <2>2 DEF Balanced, Retained
<1>10. ResultsStayWithTheirOwner
  BY DEF Init, ResultsStayWithTheirOwner
<1> QED
  BY <1>3, <1>4, <1>5, <1>9, <1>10 DEF ServiceInv, ResourcesAreAccounted

\* What every step starts from.
LEMMA Before ==
    ASSUME ServiceInv
    PROVE  /\ permits \in Nat /\ results \in Nat /\ slots \in Nat
           /\ results <= MaxResults /\ asleep \subseteq Calls
           /\ pc \in [Calls -> Labels]
           /\ \A c \in Reserving : results >= 1
           /\ \A c \in Calls : /\ pc[c] \in {"permit", "reserve", "request"} => req[c].op = "captured"
                               /\ pc[c] \in {"history", "streaming"} => req[c].op = "history"
                               /\ pc[c] = "slot" => req[c].op \in {"verify", "captured"}
<1>1. ServiceType /\ Balanced
  BY DEF ServiceInv, ResourcesAreAccounted
<1>2. \A c \in Reserving : results >= 1
  BY <1>1, ReservationsCount
<1> QED
  BY <1>1, <1>2 DEF ServiceInv, ServiceType, Balanced, OpsFit

\* The place of call c among the holders, before and after it goes there.
LEMMA Places ==
    ASSUME ServiceInv, NEW c \in Calls, NEW there \in Labels, Goes(c, there), req' = req
    PROVE  /\ c \in WithPermit <=> \/ pc[c] \in {"reserve", "request", "streaming"}
                                   \/ /\ req[c].op = "captured"
                                      /\ pc[c] \in {"register", "slot", "work", "ok", "failed"}
           /\ c \in WithPermit' <=> \/ there \in {"reserve", "request", "streaming"}
                                    \/ /\ req[c].op = "captured"
                                       /\ there \in {"register", "slot", "work", "ok", "failed"}
           /\ c \in Reserving <=> /\ req[c].op = "captured"
                                  /\ pc[c] \in {"request", "register", "slot", "work", "ok"}
           /\ c \in Reserving' <=> /\ req[c].op = "captured"
                                   /\ there \in {"request", "register", "slot", "work", "ok"}
           /\ c \in InSlot <=> req[c].op \in {"verify", "captured"} /\ pc[c] = "work"
           /\ c \in InSlot' <=> req[c].op \in {"verify", "captured"} /\ there = "work"
<1>1. pc'[c] = there
  BY HoldersChange DEF ServiceInv
<1> QED
  BY <1>1 DEF WithPermit, Reserving, InSlot

LEMMA AuthorizeKeeps ==
    ASSUME ServiceInv, NEW c \in Calls, Authorize(c)
    PROVE  ServiceInv'
<1>1. PICK there \in {FirstStep(req[c].op), "done"} : pc[c] = "start" /\ Goes(c, there)
  BY DEF Authorize, Moves
<1>2. /\ there \in {"permit", "result", "history", "owner", "blocking", "register", "done"}
      /\ there = "permit" => req[c].op = "captured"
      /\ there = "history" => req[c].op = "history"
      /\ there = "register" => req[c].op # "captured"
  BY <1>1 DEF FirstStep
<1>3. there \in Labels
  BY <1>2 DEF Labels
<1>4. c \notin WithPermit /\ c \notin WithPermit' /\ c \notin Reserving /\ c \notin Reserving'
      /\ c \notin InSlot /\ c \notin InSlot'
  BY <1>1, <1>2, <1>3, Places DEF Authorize
<1> QED
  BY <1>1, <1>2, <1>3, <1>4, Before, QuietStep DEF Authorize, UnderWay, Serving

LEMMA TakePermitKeeps ==
    ASSUME ServiceInv, NEW c \in Calls, TakePermit(c)
    PROVE  ServiceInv'
<1>1. PICK there \in {"done", "reserve"} :
        /\ Goes(c, there)
        /\ there = "done" => permits' = permits
        /\ there = "reserve" => permits > 0 /\ permits' = permits - 1
  BY Before DEF TakePermit
<1>2. there \in Labels
  BY DEF Labels
<1>3. /\ c \notin WithPermit /\ c \notin Reserving /\ c \notin InSlot
      /\ c \notin Reserving' /\ c \notin InSlot' /\ (c \in WithPermit' <=> there = "reserve")
  BY <1>1, <1>2, Places DEF TakePermit
<1>4. permits' \in Nat /\ permits' = permits - (IF c \in WithPermit' THEN 1 ELSE 0)
  BY <1>1, <1>3, Before
<1> QED
  BY <1>1, <1>2, <1>3, <1>4, Before, QuietStep DEF TakePermit, UnderWay

LEMMA ReserveKeeps ==
    ASSUME ServiceInv, NEW c \in Calls, Reserve(c)
    PROVE  ServiceInv'
<1>1. PICK there \in {"done", "request"} :
        /\ Goes(c, there)
        /\ there = "done" => permits' = permits + 1 /\ results' = results
        /\ there = "request" => results < MaxResults /\ results' = results + 1 /\ permits' = permits
  BY Before, ServiceAssumption DEF Reserve
<1>2. there \in Labels
  BY DEF Labels
<1>3. /\ c \in WithPermit /\ c \notin Reserving /\ c \notin InSlot /\ c \notin InSlot'
      /\ (c \in WithPermit' <=> there = "request") /\ (c \in Reserving' <=> there = "request")
  BY <1>1, <1>2, Places, Before DEF Reserve
<1>4. /\ permits' \in Nat /\ permits' = permits + 1 - (IF c \in WithPermit' THEN 1 ELSE 0)
      /\ results' \in Nat /\ results' = results + (IF c \in Reserving' THEN 1 ELSE 0)
      /\ results' <= MaxResults
  BY <1>1, <1>3, Before, ServiceAssumption
<1> QED
  BY <1>1, <1>2, <1>3, <1>4, Before, QuietStep DEF Reserve, UnderWay

LEMMA RequestFailsKeeps ==
    ASSUME ServiceInv, NEW c \in Calls, RequestFails(c)
    PROVE  ServiceInv'
<1>1. Goes(c, "done") /\ pc[c] = "request" /\ "done" \in Labels
  BY DEF RequestFails, Moves, Labels
<1>2. /\ c \in WithPermit /\ c \in Reserving /\ c \notin InSlot
      /\ c \notin WithPermit' /\ c \notin Reserving' /\ c \notin InSlot'
  BY <1>1, Places, Before DEF RequestFails
<1>3. permits' \in Nat /\ results' \in Nat /\ results' <= MaxResults
  BY <1>2, Before, ServiceAssumption DEF RequestFails
<1> QED
  BY <1>1, <1>2, <1>3, Before, QuietStep DEF RequestFails, UnderWay

LEMMA RequestReadyKeeps ==
    ASSUME ServiceInv, NEW c \in Calls, RequestReady(c)
    PROVE  ServiceInv'
<1>1. Goes(c, "register") /\ pc[c] = "request" /\ "register" \in Labels
  BY DEF RequestReady, Moves, Labels
<1>2. /\ c \in WithPermit /\ c \in Reserving /\ c \notin InSlot
      /\ c \in WithPermit' /\ c \in Reserving' /\ c \notin InSlot'
  BY <1>1, Places, Before DEF RequestReady
<1> QED
  BY <1>1, <1>2, Before, QuietStep DEF RequestReady, UnderWay

LEMMA RegisterRefusedKeeps ==
    ASSUME ServiceInv, NEW c \in Calls, RegisterRefused(c)
    PROVE  ServiceInv'
<1>1. Goes(c, "done") /\ pc[c] = "register" /\ "done" \in Labels
  BY DEF RegisterRefused, Labels
<1>2. /\ (c \in WithPermit <=> req[c].op = "captured") /\ (c \in Reserving <=> req[c].op = "captured")
      /\ c \notin InSlot /\ c \notin WithPermit' /\ c \notin Reserving' /\ c \notin InSlot'
  BY <1>1, Places DEF RegisterRefused
<1>3. /\ permits' \in Nat /\ permits' = permits + (IF c \in WithPermit THEN 1 ELSE 0)
      /\ results' \in Nat /\ results' = results - (IF c \in Reserving THEN 1 ELSE 0)
      /\ results' <= MaxResults
  BY <1>2, Before, ServiceAssumption DEF RegisterRefused, Release
<1> QED
  BY <1>1, <1>2, <1>3, Before, QuietStep DEF RegisterRefused, UnderWay

LEMMA AcquireKeeps ==
    ASSUME ServiceInv, NEW c \in Calls, Acquire(c)
    PROVE  ServiceInv'
<1>1. CASE slots = 0
  <2>1. asleep' \subseteq Calls /\ UNCHANGED <<req, pc, jobs, permits, results, slots, read, phase>>
    BY <1>1, Before DEF Acquire
  <2>2. /\ WithPermit' = WithPermit /\ Reserving' = Reserving /\ InSlot' = InSlot
        /\ Ids' = Ids /\ {SetOf(d) : d \in Calls}' = {SetOf(d) : d \in Calls}
    BY <2>1 DEF WithPermit, Reserving, InSlot, Ids, IdOf, SetOf
  <2>3. ServiceType'
    BY <2>1, <2>2 DEF ServiceInv, ServiceType
  <2>4. OpsFit' /\ RunsOwnEntries' /\ ResultsAreOfRuns'
    BY <2>1, <2>2 DEF ServiceInv, OpsFit, RunsOwnEntries, ResultsAreOfRuns, IdOf, Running
  <2>5. Balanced' /\ ResultsStayWithTheirOwner'
    BY <2>1, <2>2 DEF ServiceInv, ResourcesAreAccounted, Balanced, ResultsStayWithTheirOwner
  <2> QED
    BY <2>3, <2>4, <2>5 DEF ServiceInv, ResourcesAreAccounted
<1>2. CASE slots # 0
  <2>1. Goes(c, "work") /\ pc[c] = "slot" /\ "work" \in Labels /\ asleep' = asleep
        /\ UNCHANGED <<req, jobs, permits, results, read, phase>>
    BY <1>2 DEF Acquire, Labels
  <2>2. /\ (c \in WithPermit <=> c \in WithPermit') /\ (c \in Reserving <=> c \in Reserving')
        /\ c \notin InSlot /\ c \in InSlot'
    BY <2>1, Places, Before
  <2>3. slots' \in Nat /\ slots' = slots - 1
    BY <1>2, Before DEF Acquire
  <2>4. pc[c] \in UnderWay
    BY <2>1, Before DEF UnderWay
  <2> QED
    BY <2>1, <2>2, <2>3, <2>4, Before, QuietStep DEF UnderWay
<1> QED
  BY <1>1, <1>2

LEMMA WorkEndsKeeps ==
    ASSUME ServiceInv, NEW c \in Calls, WorkEnds(c)
    PROVE  ServiceInv'
<1>1. PICK outcome \in {"ok", "failed"} :
        /\ Goes(c, outcome)
        /\ results' = IF req[c].op = "captured" /\ outcome = "failed" THEN results - 1 ELSE results
  BY DEF WorkEnds
<1>2. /\ outcome \in Labels /\ outcome \in UnderWay /\ pc[c] \in UnderWay
      /\ pc[c] = "work" /\ UNCHANGED <<req, jobs, permits, read, phase>>
  BY Before DEF WorkEnds, Labels, UnderWay
<1>3. /\ (c \in WithPermit <=> c \in WithPermit')
      /\ (c \in Reserving <=> req[c].op = "captured")
      /\ (c \in Reserving' <=> req[c].op = "captured" /\ outcome = "ok")
      /\ (c \in InSlot <=> req[c].op \in {"verify", "captured"}) /\ c \notin InSlot'
  BY <1>1, <1>2, Places
<1>4. /\ results' \in Nat /\ results' <= MaxResults
      /\ results' = results + (IF c \in Reserving' THEN 1 ELSE 0) - (IF c \in Reserving THEN 1 ELSE 0)
  BY <1>1, <1>3, Before, ServiceAssumption
<1>5. /\ slots' \in Nat /\ slots' = slots + (IF c \in InSlot THEN 1 ELSE 0)
      /\ asleep' \subseteq Calls
  BY <1>3, Before DEF WorkEnds, SlotDropped
<1>6. permits' = permits + (IF c \in WithPermit THEN 1 ELSE 0) - (IF c \in WithPermit' THEN 1 ELSE 0)
  BY <1>2, <1>3, Before
<1>7. slots' = slots + (IF c \in InSlot THEN 1 ELSE 0) - (IF c \in InSlot' THEN 1 ELSE 0)
  BY <1>3, <1>5, Before
<1> QED
  BY <1>1, <1>2, <1>4, <1>5, <1>6, <1>7, Before, QuietStep

LEMMA ListHistoryKeeps ==
    ASSUME ServiceInv, NEW c \in Calls, ListHistory(c)
    PROVE  ServiceInv'
<1>1. PICK there \in {"done", "streaming"} :
        /\ Goes(c, there)
        /\ there = "done" => permits' = permits
        /\ there = "streaming" => permits > 0 /\ permits' = permits - 1
  BY Before DEF ListHistory
<1>2. there \in Labels /\ req[c].op = "history"
  BY Before DEF Labels, ListHistory
<1>3. /\ c \notin WithPermit /\ c \notin Reserving /\ c \notin InSlot
      /\ c \notin Reserving' /\ c \notin InSlot' /\ (c \in WithPermit' <=> there = "streaming")
  BY <1>1, <1>2, Places DEF ListHistory
<1>4. permits' \in Nat /\ permits' = permits - (IF c \in WithPermit' THEN 1 ELSE 0)
  BY <1>1, <1>3, Before
<1> QED
  BY <1>1, <1>2, <1>3, <1>4, Before, QuietStep DEF ListHistory, UnderWay

LEMMA HistoryEndsKeeps ==
    ASSUME ServiceInv, NEW c \in Calls, HistoryEnds(c)
    PROVE  ServiceInv'
<1>1. Goes(c, "done") /\ pc[c] = "streaming" /\ "done" \in Labels /\ req[c].op = "history"
  BY Before DEF HistoryEnds, Moves, Labels
<1>2. /\ c \in WithPermit /\ c \notin Reserving /\ c \notin InSlot
      /\ c \notin WithPermit' /\ c \notin Reserving' /\ c \notin InSlot'
  BY <1>1, Places DEF HistoryEnds
<1> QED
  BY <1>1, <1>2, Before, QuietStep DEF HistoryEnds, UnderWay

\* Steps of a request that holds nothing before and after.
LEMMA FreeStep ==
    ASSUME ServiceInv, NEW c \in Calls, NEW there \in {"done", "polkit", "cancel"},
           pc[c] \in {"owner", "polkit", "cancel", "result", "blocking"}, Goes(c, there),
           UNCHANGED <<req, jobs, permits, results, slots, asleep, read, phase>>
    PROVE  ServiceInv'
<1>1. there \in Labels
  BY DEF Labels
<1>2. /\ c \notin WithPermit /\ c \notin Reserving /\ c \notin InSlot
      /\ c \notin WithPermit' /\ c \notin Reserving' /\ c \notin InSlot'
  BY <1>1, Places
<1> QED
  BY <1>1, <1>2, Before, QuietStep DEF UnderWay

LEMMA RequestsThatHoldNothing ==
    ASSUME ServiceInv, NEW c \in Calls, ReadOwner(c) \/ AskAdministrator(c) \/ DirectEnds(c)
    PROVE  ServiceInv'
<1>1. /\ pc[c] \in {"owner", "polkit", "blocking"}
      /\ UNCHANGED <<req, jobs, permits, results, slots, asleep, read, phase>>
  BY DEF ReadOwner, AskAdministrator, DirectEnds, Moves
<1>2. PICK there \in {"done", "polkit", "cancel"} : Goes(c, there)
  BY DEF ReadOwner, AskAdministrator, DirectEnds, Moves
<1> QED
  BY <1>1, <1>2, FreeStep

\* A result goes to the user whose run the entry stands for, or to root.
LEMMA ReadResultKeeps ==
    ASSUME ServiceInv, NEW c \in Calls, ReadResult(c)
    PROVE  ServiceInv'
<1>1. Goes(c, "done") /\ pc[c] = "result" /\ "done" \in Labels
      /\ UNCHANGED <<req, jobs, permits, results, slots, asleep, phase>>
  BY DEF ReadResult, Moves, Labels
<1>2. /\ c \notin WithPermit /\ c \notin Reserving /\ c \notin InSlot
      /\ c \notin WithPermit' /\ c \notin Reserving' /\ c \notin InSlot'
  BY <1>1, Places
<1>3. /\ pc' \in [Calls -> Labels] /\ pc'[c] = "done"
      /\ \A d \in Calls \ {c} : pc'[d] = pc[d]
  BY <1>1, HoldersChange DEF ServiceInv
<1>4. Ids' = Ids /\ {SetOf(d) : d \in Calls}' = {SetOf(d) : d \in Calls} /\ Retained' = Retained
  BY <1>1 DEF Ids, IdOf, SetOf, Retained
<1>5. ServiceType'
  BY <1>1, <1>3, <1>4 DEF ServiceInv, ServiceType
<1>6. OpsFit' /\ RunsOwnEntries' /\ ResultsAreOfRuns'
  BY <1>1, <1>3, <1>4 DEF ServiceInv, OpsFit, RunsOwnEntries, ResultsAreOfRuns, IdOf, Running,
     UnderWay
<1>7. Balanced'
  <2>1. ServiceType /\ Balanced
    BY DEF ServiceInv, ResourcesAreAccounted
  <2>2. Cardinality(Retained) \in Nat
    <3>1. Retained \in SUBSET Ids
      BY <2>1 DEF Retained, ServiceType
    <3> QED
      BY <3>1, IdsAreFinite
  <2> QED
    BY <1>1, <1>2, <1>4, <1>5, <2>1, <2>2, Before, Balance
<1>8. ResultsStayWithTheirOwner'
  <2>1. ASSUME NEW r \in read' \ read
        PROVE  r[1] \in {Root, req[r[2]].uid}
    <3>1. /\ r = <<req[c].uid, jobs[IdOf(c)].result>> /\ May(c, IdOf(c))
          /\ jobs[IdOf(c)].result # None
      BY DEF ReadResult
    <3>2. jobs[IdOf(c)].result = jobs[IdOf(c)].run
      BY <3>1 DEF ServiceInv, ResultsAreOfRuns, Ids
    <3> QED
      BY <3>1, <3>2 DEF May
  <2> QED
    BY <1>1, <2>1 DEF ServiceInv, ResourcesAreAccounted, ResultsStayWithTheirOwner
<1> QED
  BY <1>5, <1>6, <1>7, <1>8 DEF ServiceInv, ResourcesAreAccounted

\* Only one entry changes: its result joins or leaves the retained ones.
LEMMA RetainedChange ==
    ASSUME ServiceType, NEW i \in Ids, DOMAIN jobs' = DOMAIN jobs,
           \A j \in Ids \ {i} : jobs'[j] = jobs[j]
    PROVE  /\ Cardinality(Retained) \in Nat /\ Cardinality(Retained') \in Nat
           /\ Cardinality(Retained') = Cardinality(Retained)
                + (IF jobs'[i].result # None THEN 1 ELSE 0)
                - (IF jobs[i].result # None THEN 1 ELSE 0)
<1>1. DOMAIN jobs = Ids
  BY DEF ServiceType
<1>2. Retained \in SUBSET Ids /\ Retained' \in SUBSET Ids
  BY <1>1 DEF Retained
<1>3. IsFiniteSet(Retained) /\ Cardinality(Retained) \in Nat /\ Cardinality(Retained') \in Nat
  BY <1>2, IdsAreFinite
<1>4. (i \in Retained <=> jobs[i].result # None) /\ (i \in Retained' <=> jobs'[i].result # None)
  BY <1>1 DEF Retained
<1>5. \A y : y # i => (y \in Retained <=> y \in Retained')
  BY <1>1 DEF Retained
<1>6. /\ i \in Retained /\ i \notin Retained' => Cardinality(Retained') = Cardinality(Retained) - 1
      /\ i \notin Retained /\ i \in Retained' => Cardinality(Retained') = Cardinality(Retained) + 1
      /\ (i \in Retained <=> i \in Retained') => Retained' = Retained
  BY <1>3, <1>5, OneChanged
<1> QED
  BY <1>3, <1>4, <1>6

\* Registering over a finished entry drops the result it kept, and its reservation.
LEMMA RegisterKeeps ==
    ASSUME ServiceInv, NEW c \in Calls, Register(c)
    PROVE  ServiceInv'
<1> DEFINE i == IdOf(c)
           there == IF req[c].op \in {"verify", "captured"} THEN "slot" ELSE "work"
           entry == [run |-> c, set |-> SetOf(c), state |-> "running", cancel |-> FALSE,
                     result |-> None]
<1>1. /\ there \in Labels /\ Goes(c, there) /\ pc[c] = "register"
      /\ there \in {"slot", "work"} /\ (there = "slot" <=> req[c].op \in {"verify", "captured"})
      /\ UNCHANGED <<req, permits, slots, asleep, read, phase>>
  BY DEF Register, Labels, Alive
<1>2. i \in Ids /\ ~Running(i)
  BY DEF Register, Ids
<1>3. ServiceType /\ Balanced
  BY DEF ServiceInv, ResourcesAreAccounted
<1>4. /\ jobs' = [jobs EXCEPT ![i] = entry]
      /\ results' = IF jobs[i].result # None THEN results - 1 ELSE results
  BY DEF Register
<1>5. /\ DOMAIN jobs = Ids /\ DOMAIN jobs' = Ids /\ jobs'[i] = entry
      /\ \A j \in Ids \ {i} : jobs'[j] = jobs[j]
  BY <1>2, <1>3, <1>4 DEF ServiceType
<1>6. /\ pc' \in [Calls -> Labels] /\ pc'[c] = there
      /\ \A d \in Calls \ {c} : pc'[d] = pc[d]
  BY <1>1, <1>3, HoldersChange
<1>7. /\ (c \in WithPermit <=> c \in WithPermit') /\ (c \in Reserving <=> c \in Reserving')
      /\ c \notin InSlot /\ c \notin InSlot'
  BY <1>1, Places
<1>8. Ids' = Ids /\ {SetOf(d) : d \in Calls}' = {SetOf(d) : d \in Calls}
  BY <1>1 DEF Ids, IdOf, SetOf
<1>9. results' \in Nat /\ results' <= MaxResults
  <2>1. jobs[i].result # None => results >= 1
    BY <1>2, <1>3, <1>5, ReservationsCount DEF Retained
  <2> QED
    BY <1>4, <2>1, Before, ServiceAssumption
<1>10. ServiceType'
  <2>1. entry \in [run : Calls \cup {None}, set : {SetOf(d) : d \in Calls} \cup {None},
                   state : {"absent", "running", "ok", "failed", "cancelled"},
                   cancel : BOOLEAN, result : Calls \cup {None}]
    OBVIOUS
  <2>2. jobs' \in [Ids -> [run : Calls \cup {None}, set : {SetOf(d) : d \in Calls} \cup {None},
                   state : {"absent", "running", "ok", "failed", "cancelled"},
                   cancel : BOOLEAN, result : Calls \cup {None}]]
    BY <1>2, <1>3, <1>4, <2>1 DEF ServiceType
  <2> QED
    BY <1>1, <1>3, <1>6, <1>8, <1>9, <2>2 DEF ServiceType
<1>11. OpsFit'
  BY <1>1, <1>6 DEF ServiceInv, OpsFit
<1>12. RunsOwnEntries'
  <2> SUFFICES ASSUME NEW d \in Calls, pc'[d] \in UnderWay
               PROVE  /\ jobs'[IdOf(d)].state = "running" /\ jobs'[IdOf(d)].run = d
                      /\ jobs'[IdOf(d)].result = None
    BY <1>1 DEF RunsOwnEntries, Running, IdOf
  <2>1. CASE d = c
    BY <1>5, <2>1
  <2>2. CASE d # c
    <3>1. Running(IdOf(d)) /\ jobs[IdOf(d)].run = d /\ jobs[IdOf(d)].result = None
      BY <1>6, <2>2 DEF ServiceInv, RunsOwnEntries
    <3>2. IdOf(d) # i /\ IdOf(d) \in Ids
      BY <1>2, <3>1 DEF Ids
    <3> QED
      BY <1>5, <3>1, <3>2 DEF Running
  <2> QED
    BY <2>1, <2>2
<1>13. ResultsAreOfRuns'
  BY <1>5, <1>8 DEF ServiceInv, ResultsAreOfRuns
<1>14. Balanced'
  <2>1. /\ Cardinality(Retained) \in Nat /\ Cardinality(Retained') \in Nat
        /\ Cardinality(Retained') = Cardinality(Retained)
             - (IF jobs[i].result # None THEN 1 ELSE 0)
    <3>1. jobs'[i].result = None
      BY <1>5
    <3> HIDE DEF i, entry, there
    <3> QED
      BY <1>2, <1>3, <1>5, <3>1, RetainedChange
  <2>2. results' - Cardinality(Retained') = results - Cardinality(Retained)
    BY <1>4, <2>1, Before
  <2>3. results' - Cardinality(Retained')
          = results - Cardinality(Retained) + (IF c \in Reserving' THEN 1 ELSE 0)
                                            - (IF c \in Reserving THEN 1 ELSE 0)
    BY <1>7, <2>1, <2>2, Before
  <2> HIDE DEF there
  <2> QED
    BY <1>1, <1>3, <1>7, <1>9, <1>10, <2>3, Before, Balance
<1>15. ResultsStayWithTheirOwner'
  BY <1>1 DEF ServiceInv, ResourcesAreAccounted, ResultsStayWithTheirOwner
<1> QED
  BY <1>10, <1>11, <1>12, <1>13, <1>14, <1>15 DEF ServiceInv, ResourcesAreAccounted

\* The entry a task finishes is its own: no other result is dropped with it.
LEMMA FinishKeeps ==
    ASSUME ServiceInv, NEW c \in Calls, Finish(c)
    PROVE  ServiceInv'
<1> DEFINE i == IdOf(c)
           kept == req[c].op = "captured" /\ pc[c] = "ok"
           record == [run : Calls \cup {None}, set : {SetOf(d) : d \in Calls} \cup {None},
                      state : {"absent", "running", "ok", "failed", "cancelled"},
                      cancel : BOOLEAN, result : Calls \cup {None}]
<1>1. /\ Goes(c, "done") /\ "done" \in Labels /\ pc[c] \in {"ok", "failed"}
      /\ UNCHANGED <<req, results, slots, asleep, read, phase>>
      /\ permits' = IF req[c].op = "captured" THEN permits + 1 ELSE permits
  BY DEF Finish, Labels
<1>2. i \in Ids /\ jobs[i].run = c /\ jobs[i].result = None
  BY <1>1 DEF ServiceInv, RunsOwnEntries, UnderWay, Ids
<1>3. ServiceType /\ Balanced
  BY DEF ServiceInv, ResourcesAreAccounted
<1>4. PICK after \in {"ok", "failed", "cancelled"} :
        jobs' = [jobs EXCEPT ![i].state = after, ![i].result = IF kept THEN c ELSE None]
  BY <1>1 DEF Finish, JobOutcome
<1>5. /\ DOMAIN jobs = Ids /\ DOMAIN jobs' = Ids
      /\ \A j \in Ids \ {i} : jobs'[j] = jobs[j]
      /\ jobs'[i].run = c /\ jobs'[i].result = IF kept THEN c ELSE None
      /\ jobs' \in [Ids -> record]
  <2>1. jobs \in [Ids -> record]
    BY <1>3 DEF ServiceType
  <2>2. jobs[i] \in record
    BY <1>2, <2>1
  <2>3. /\ DOMAIN jobs = Ids /\ DOMAIN jobs' = Ids
        /\ \A j \in Ids \ {i} : jobs'[j] = jobs[j]
        /\ jobs'[i] = [jobs[i] EXCEPT !.state = after, !.result = IF kept THEN c ELSE None]
    <3> HIDE DEF i, kept, record
    <3> QED
      BY <1>2, <1>4, <2>1
  <2>4. /\ jobs'[i].run = jobs[i].run /\ jobs'[i].result = (IF kept THEN c ELSE None)
        /\ jobs'[i] \in record
    <3> HIDE DEF i, kept
    <3> QED
      BY <2>2, <2>3
  <2>5. jobs' \in [Ids -> record]
    <3>1. \A j \in Ids : jobs'[j] \in record
      BY <2>1, <2>3, <2>4
    <3>2. jobs' = [j \in Ids |-> jobs'[j]]
      BY <1>4, <2>1, <2>3
    <3> HIDE DEF record
    <3> QED
      BY <3>1, <3>2
  <2> QED
    BY <1>2, <2>3, <2>4, <2>5
<1>6. /\ pc' \in [Calls -> Labels] /\ pc'[c] = "done"
      /\ \A d \in Calls \ {c} : pc'[d] = pc[d]
  BY <1>1, <1>3, HoldersChange
<1>7. /\ (c \in WithPermit <=> req[c].op = "captured") /\ c \notin WithPermit'
      /\ (c \in Reserving <=> kept) /\ c \notin Reserving'
      /\ c \notin InSlot /\ c \notin InSlot'
  BY <1>1, Places
<1>8. Ids' = Ids /\ {SetOf(d) : d \in Calls}' = {SetOf(d) : d \in Calls}
  BY <1>1 DEF Ids, IdOf, SetOf
<1>9. permits' \in Nat /\ permits' = permits + (IF c \in WithPermit THEN 1 ELSE 0)
  BY <1>1, <1>7, Before
<1>10. ServiceType'
  BY <1>1, <1>3, <1>5, <1>6, <1>8, <1>9 DEF ServiceType
<1>11. OpsFit'
  BY <1>1, <1>6 DEF ServiceInv, OpsFit
<1>12. RunsOwnEntries'
  <2> SUFFICES ASSUME NEW d \in Calls, pc'[d] \in UnderWay
               PROVE  /\ jobs'[IdOf(d)].state = "running" /\ jobs'[IdOf(d)].run = d
                      /\ jobs'[IdOf(d)].result = None
    BY <1>1 DEF RunsOwnEntries, Running, IdOf
  <2>1. d # c
    BY <1>6 DEF UnderWay
  <2>2. Running(IdOf(d)) /\ jobs[IdOf(d)].run = d /\ jobs[IdOf(d)].result = None
    BY <1>6, <2>1 DEF ServiceInv, RunsOwnEntries
  <2>3. IdOf(d) # i /\ IdOf(d) \in Ids
    BY <1>2, <2>1, <2>2 DEF Ids
  <2> QED
    BY <1>5, <2>2, <2>3 DEF Running
<1>13. ResultsAreOfRuns'
  BY <1>2, <1>5, <1>8 DEF ServiceInv, ResultsAreOfRuns
<1>14. Balanced'
  <2>1. c # None
    BY ServiceAssumption
  <2>2. (jobs'[i].result # None <=> kept) /\ jobs[i].result = None
    BY <1>2, <1>5, <2>1
  <2>3. /\ Cardinality(Retained) \in Nat /\ Cardinality(Retained') \in Nat
        /\ Cardinality(Retained') = Cardinality(Retained) + (IF kept THEN 1 ELSE 0)
    <3> HIDE DEF i, kept, record
    <3> QED
      BY <1>2, <1>3, <1>5, <2>2, RetainedChange
  <2>4. results' - Cardinality(Retained')
          = results - Cardinality(Retained) + (IF c \in Reserving' THEN 1 ELSE 0)
                                            - (IF c \in Reserving THEN 1 ELSE 0)
    <3> HIDE DEF kept
    <3> QED
      BY <1>1, <1>7, <2>3, Before
  <2> QED
    BY <1>1, <1>3, <1>7, <1>9, <1>10, <2>4, Before, Balance
<1>15. ResultsStayWithTheirOwner'
  BY <1>1 DEF ServiceInv, ResourcesAreAccounted, ResultsStayWithTheirOwner
<1> QED
  BY <1>10, <1>11, <1>12, <1>13, <1>14, <1>15 DEF ServiceInv, ResourcesAreAccounted

\* Cancelling marks the entry and leaves its run and its result alone.
LEMMA CancelKeeps ==
    ASSUME ServiceInv, NEW c \in Calls, Cancel(c)
    PROVE  ServiceInv'
<1> DEFINE i == IdOf(c)
           record == [run : Calls \cup {None}, set : {SetOf(d) : d \in Calls} \cup {None},
                      state : {"absent", "running", "ok", "failed", "cancelled"},
                      cancel : BOOLEAN, result : Calls \cup {None}]
<1>1. /\ Goes(c, "done") /\ "done" \in Labels /\ pc[c] = "cancel"
      /\ UNCHANGED <<req, permits, results, slots, asleep, read, phase>>
      /\ jobs' = [jobs EXCEPT ![i].cancel = TRUE]
  BY DEF Cancel, Moves, Labels
<1>2. ServiceType /\ Balanced /\ i \in Ids
  BY DEF ServiceInv, ResourcesAreAccounted, Ids
<1>3. jobs \in [Ids -> record] /\ jobs[i] \in record
  BY <1>2 DEF ServiceType
<1>4. /\ DOMAIN jobs = Ids /\ DOMAIN jobs' = Ids
      /\ \A j \in Ids \ {i} : jobs'[j] = jobs[j]
      /\ jobs'[i] = [jobs[i] EXCEPT !.cancel = TRUE]
  <2> HIDE DEF i, record
  <2> QED
    BY <1>1, <1>2, <1>3
<1>5. /\ jobs'[i].run = jobs[i].run /\ jobs'[i].result = jobs[i].result
      /\ jobs'[i].state = jobs[i].state /\ jobs'[i] \in record
  <2> HIDE DEF i
  <2> QED
    BY <1>3, <1>4
<1>6. jobs' \in [Ids -> record]
  <2>1. \A j \in Ids : jobs'[j] \in record
    BY <1>3, <1>4, <1>5
  <2>2. jobs' = [j \in Ids |-> jobs'[j]]
    BY <1>1, <1>3, <1>4
  <2> HIDE DEF record
  <2> QED
    BY <2>1, <2>2
<1>7. \A j \in Ids : /\ jobs'[j].run = jobs[j].run /\ jobs'[j].result = jobs[j].result
                     /\ jobs'[j].state = jobs[j].state
  BY <1>4, <1>5
<1>8. /\ pc' \in [Calls -> Labels] /\ pc'[c] = "done"
      /\ \A d \in Calls \ {c} : pc'[d] = pc[d]
  BY <1>1, <1>2, HoldersChange
<1>9. /\ c \notin WithPermit /\ c \notin Reserving /\ c \notin InSlot
      /\ c \notin WithPermit' /\ c \notin Reserving' /\ c \notin InSlot'
  BY <1>1, Places
<1>10. Ids' = Ids /\ {SetOf(d) : d \in Calls}' = {SetOf(d) : d \in Calls}
  BY <1>1 DEF Ids, IdOf, SetOf
<1>11. ServiceType'
  BY <1>1, <1>2, <1>6, <1>8, <1>10 DEF ServiceType
<1>12. OpsFit' /\ ResultsAreOfRuns' /\ ResultsStayWithTheirOwner'
  BY <1>1, <1>7, <1>8, <1>10 DEF ServiceInv, ResourcesAreAccounted, OpsFit, ResultsAreOfRuns,
     ResultsStayWithTheirOwner
<1>13. RunsOwnEntries'
  <2> SUFFICES ASSUME NEW d \in Calls, pc'[d] \in UnderWay
               PROVE  /\ jobs'[IdOf(d)].state = "running" /\ jobs'[IdOf(d)].run = d
                      /\ jobs'[IdOf(d)].result = None
    BY <1>1 DEF RunsOwnEntries, Running, IdOf
  <2>1. Running(IdOf(d)) /\ jobs[IdOf(d)].run = d /\ jobs[IdOf(d)].result = None
    BY <1>8 DEF ServiceInv, RunsOwnEntries, UnderWay
  <2> QED
    BY <1>7, <2>1 DEF Running, Ids
<1>14. Balanced'
  <2>1. Retained' = Retained
    BY <1>4, <1>7 DEF Retained
  <2>2. Cardinality(Retained) \in Nat
    <3>1. Retained \in SUBSET Ids
      BY <1>4 DEF Retained
    <3> QED
      BY <3>1, IdsAreFinite
  <2> HIDE DEF i, record
  <2> QED
    BY <1>1, <1>2, <1>9, <1>11, <2>1, <2>2, Before, Balance
<1> QED
  BY <1>11, <1>12, <1>13, <1>14 DEF ServiceInv, ResourcesAreAccounted

\* The phase moves alone.
LEMMA PhaseKeeps ==
    ASSUME ServiceInv, UNCHANGED <<req, pc, jobs, permits, results, slots, asleep, read>>,
           phase' \in Phases
    PROVE  ServiceInv'
<1>1. /\ WithPermit' = WithPermit /\ Reserving' = Reserving /\ InSlot' = InSlot
      /\ Ids' = Ids /\ {SetOf(d) : d \in Calls}' = {SetOf(d) : d \in Calls}
  BY DEF WithPermit, Reserving, InSlot, Ids, IdOf, SetOf
<1>2. ServiceType'
  BY <1>1 DEF ServiceInv, ServiceType
<1>3. OpsFit' /\ RunsOwnEntries' /\ ResultsAreOfRuns'
  BY <1>1 DEF ServiceInv, OpsFit, RunsOwnEntries, ResultsAreOfRuns, IdOf, Running
<1>4. Balanced' /\ ResultsStayWithTheirOwner'
  BY <1>1 DEF ServiceInv, ResourcesAreAccounted, Balanced, ResultsStayWithTheirOwner
<1> QED
  BY <1>2, <1>3, <1>4 DEF ServiceInv, ResourcesAreAccounted

LEMMA NextKeeps == ServiceInv /\ [Next]_vars => ServiceInv'
<1> SUFFICES ASSUME ServiceInv, [Next]_vars PROVE ServiceInv'
  OBVIOUS
<1>1. ASSUME NEW c \in Calls, Authorize(c) PROVE ServiceInv'
  BY <1>1, AuthorizeKeeps
<1>2. ASSUME NEW c \in Calls, Handler(c) PROVE ServiceInv'
  BY <1>2, TakePermitKeeps, ReserveKeeps, RequestFailsKeeps, RequestReadyKeeps, RegisterKeeps,
     RegisterRefusedKeeps, ReadResultKeeps, ListHistoryKeeps, HistoryEndsKeeps,
     RequestsThatHoldNothing, CancelKeeps DEF Handler
<1>3. ASSUME NEW c \in Calls, Task(c) PROVE ServiceInv'
  BY <1>3, AcquireKeeps, WorkEndsKeeps, FinishKeeps, RequestsThatHoldNothing DEF Task
<1>4. CASE Signal \/ Drained \/ StopServing \/ Exit
  <2>1. /\ UNCHANGED <<req, pc, jobs, permits, results, slots, asleep, read>>
        /\ phase' \in Phases
    BY <1>4 DEF Signal, Drained, StopServing, Exit, Phases
  <2> QED
    BY <2>1, PhaseKeeps
<1>5. CASE UNCHANGED vars
  <2>1. /\ UNCHANGED <<req, pc, jobs, permits, results, slots, asleep, read>>
        /\ phase' \in Phases
    BY <1>5 DEF vars, ServiceInv, ServiceType
  <2> QED
    BY <2>1, PhaseKeeps
<1> QED
  BY <1>1, <1>2, <1>3, <1>4, <1>5 DEF Next

-------------------------------------------------------------------------------
(***************************************************************************)
(* The inductive invariant, for any number of requests and any limits.     *)
(***************************************************************************)
THEOREM ServiceInvariant == Spec => []ServiceInv
BY InvInit, NextKeeps, PTL DEF Spec

(***************************************************************************)
(* Permits, reservations and slots are never lost or handed out twice on   *)
(* any path of a handler or a task (history permits, Reservation and       *)
(* VerificationSlots of the daemon), and a captured result reaches nobody  *)
(* but the user whose run produced it and root (snapshot_owned).           *)
(***************************************************************************)
THEOREM NothingIsLostOrShared == Spec => []ResourcesAreAccounted
<1>1. ServiceInv => ResourcesAreAccounted
  BY DEF ServiceInv
<1> QED
  BY <1>1, ServiceInvariant, PTL
===============================================================================
