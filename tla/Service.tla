------------------------------- MODULE Service -------------------------------
(***************************************************************************)
(* The daemon's request handlers around the job registry: authorisation,   *)
(* the permits of captured verifications, the budget of retained results,  *)
(* the slots of running verifications, the ownership of jobs and results,  *)
(* and the end of the process after a drain.  Streams and events are in    *)
(* Jobs; here a job is its registry entry and the blocking task behind it. *)
(*                                                                         *)
(* A call is one request.  Its steps are the points where other requests   *)
(* can run: an await, a lock taken again, a blocking task.                 *)
(***************************************************************************)
EXTENDS Naturals, FiniteSets

CONSTANTS
    Calls,
    Scenarios,      \* which request each call makes: op, uid, id
    MaxOperations,  \* permits of the verification history
    MaxResults,     \* retained captured results
    MaxSlots,       \* verifications that read at once
    None

ASSUME ServiceAssumption ==
    /\ MaxOperations \in Nat \ {0} /\ MaxResults \in Nat \ {0} /\ MaxSlots \in Nat \ {0}
    /\ IsFiniteSet(Calls) /\ None \notin Calls
    /\ \A s \in Scenarios : DOMAIN s = Calls

VARIABLES
    req,        \* req[c]: the request
    pc,         \* pc[c]: where the handler or its blocking task stands
    jobs,       \* the registry: id -> entry
    permits, results, slots,    \* free permits, reserved results, free slots
    asleep,     \* tasks waiting on the condition variable of the slots
    read,       \* <<uid, run>> of every captured result handed out
    phase       \* "serving", "draining", "stopped", "dropping", "exited"

vars == <<req, pc, jobs, permits, results, slots, asleep, read, phase>>

Root == 0
NoJob == [run |-> None, set |-> None, state |-> "absent", cancel |-> FALSE, result |-> None]

\* A verification's id is generated and is its own set; others name theirs.
IdOf(c) == IF req[c].op \in {"verify", "captured"} THEN c ELSE req[c].id
SetOf(c) == IF req[c].op \in {"verify", "captured"} THEN c ELSE req[c].op

Init ==
    /\ req \in Scenarios
    /\ pc = [c \in Calls |-> "start"]
    /\ jobs = [i \in {IdOf(c) : c \in Calls} |-> NoJob]
    /\ permits = MaxOperations /\ results = 0 /\ slots = MaxSlots
    /\ asleep = {} /\ read = {}
    /\ phase = "serving"

Goes(c, there) == pc' = [pc EXCEPT ![c] = there]
Moves(c, here, there) == pc[c] = here /\ Goes(c, there)
Running(i) == jobs[i].state = "running"

\* Requests are taken until the server stops; a handler runs until the runtime
\* is dropped, a blocking task that has started runs to its end.
Serving == phase \in {"serving", "draining"}
Alive == phase \in {"serving", "draining", "stopped"}

(***************************************************************************)
(* Authorisation: every handler asks first, and polkit may ask the user.   *)
(***************************************************************************)
FirstStep(op) ==
    CASE op = "captured" -> "permit"
      [] op \in {"result", "history"} -> op
      [] op = "cancel" -> "owner"
      [] op = "direct" -> "blocking"
      [] OTHER -> "register"

Authorize(c) ==
    /\ Serving
    /\ \/ Moves(c, "start", FirstStep(req[c].op))
       \/ Moves(c, "start", "done")
    /\ UNCHANGED <<req, jobs, permits, results, slots, asleep, read, phase>>

(***************************************************************************)
(* verify_image_with_history: permit, reservation, request, job.           *)
(***************************************************************************)
TakePermit(c) ==
    /\ Alive /\ pc[c] = "permit"
    /\ IF permits = 0 THEN Goes(c, "done") /\ UNCHANGED permits
       ELSE Goes(c, "reserve") /\ permits' = permits - 1
    /\ UNCHANGED <<req, jobs, results, slots, asleep, read, phase>>

\* The permit is dropped with the handler when the budget is full.
Reserve(c) ==
    /\ Alive /\ pc[c] = "reserve"
    /\ IF results >= MaxResults
       THEN Goes(c, "done") /\ permits' = permits + 1 /\ UNCHANGED results
       ELSE Goes(c, "request") /\ results' = results + 1 /\ UNCHANGED permits
    /\ UNCHANGED <<req, jobs, slots, asleep, read, phase>>

\* Mutation of RequestFails: only the permit is given back.
KeepReservation(c) ==
    /\ Alive /\ Moves(c, "request", "done")
    /\ permits' = permits + 1
    /\ UNCHANGED <<req, jobs, results, slots, asleep, read, phase>>

\* The passphrase or key files cannot be opened: both guards are dropped.
RequestFails(c) ==
    /\ Alive /\ Moves(c, "request", "done")
    /\ permits' = permits + 1 /\ results' = results - 1
    /\ UNCHANGED <<req, jobs, slots, asleep, read, phase>>

RequestReady(c) ==
    /\ Alive /\ Moves(c, "request", "register")
    /\ UNCHANGED <<req, jobs, permits, results, slots, asleep, read, phase>>

\* Give back what a captured verification holds besides its slot.
Release(c) ==
    IF req[c].op = "captured"
    THEN permits' = permits + 1 /\ results' = results - 1
    ELSE UNCHANGED <<permits, results>>

\* register_for, under the registry's lock: refused while draining, while the
\* id is active, or while another job of the set is.  Then the task is started.
Register(c) ==
    LET i == IdOf(c) IN
    /\ Alive /\ pc[c] = "register"
    /\ phase = "serving" /\ ~Running(i)
    /\ \A j \in DOMAIN jobs : Running(j) => jobs[j].set # SetOf(c)
    /\ jobs' = [jobs EXCEPT ![i] = [run |-> c, set |-> SetOf(c), state |-> "running",
                                    cancel |-> FALSE, result |-> None]]
    /\ results' = IF jobs[i].result # None THEN results - 1 ELSE results
    /\ Goes(c, IF req[c].op \in {"verify", "captured"} THEN "slot" ELSE "work")
    /\ UNCHANGED <<req, permits, slots, asleep, read, phase>>

RegisterRefused(c) ==
    LET i == IdOf(c) IN
    /\ Alive /\ pc[c] = "register"
    /\ \/ phase # "serving" \/ Running(i)
       \/ \E j \in DOMAIN jobs : Running(j) /\ jobs[j].set = SetOf(c)
    /\ Goes(c, "done")
    /\ Release(c)
    /\ UNCHANGED <<req, jobs, slots, asleep, read, phase>>

(***************************************************************************)
(* Slots: a mutex and a condition variable, notify_one at every release.   *)
(***************************************************************************)
Acquire(c) ==
    /\ pc[c] = "slot" /\ c \notin asleep
    /\ IF slots = 0
       THEN asleep' = asleep \cup {c} /\ UNCHANGED <<pc, slots>>
       ELSE slots' = slots - 1 /\ Goes(c, "work") /\ UNCHANGED asleep
    /\ UNCHANGED <<req, jobs, permits, results, read, phase>>

\* Mutation of SlotDropped: the slot is free again, but nobody is woken.
DropQuietly(c) ==
    /\ slots' = slots + 1
    /\ UNCHANGED asleep

SlotDropped(c) ==
    /\ slots' = slots + 1
    /\ IF asleep = {} THEN UNCHANGED asleep
       ELSE \E w \in asleep : asleep' = asleep \ {w}

\* The task's closure ends, by returning, by an error or by a panic that is
\* caught around it: what it holds is dropped before the outcome is recorded.
WorkEnds(c) ==
    /\ pc[c] = "work"
    /\ \E outcome \in {"ok", "failed"} :
         /\ Goes(c, outcome)
         /\ results' = IF req[c].op = "captured" /\ outcome = "failed"
                       THEN results - 1 ELSE results
    /\ IF req[c].op \in {"verify", "captured"} THEN SlotDropped(c)
       ELSE UNCHANGED <<slots, asleep>>
    /\ UNCHANGED <<req, jobs, permits, read, phase>>

\* job_outcome: only a verification that passed and whose receipt is confirmed
\* in the ledger is a finished job.
JobOutcome(attempt, recording) ==
    CASE attempt = "cancelled" -> "cancelled"
      [] attempt = "verified" /\ recording = "recorded" -> "ok"
      [] OTHER -> "failed"

\* finish, finish_verification: the entry becomes terminal and keeps the
\* captured result, with its reservation, for as long as it stands.
Finish(c) ==
    LET i == IdOf(c) captured == req[c].op = "captured" IN
    /\ pc[c] \in {"ok", "failed"}
    /\ \E attempt \in {"verified", "incomplete", "cancelled"},
          recording \in {"recorded", "not_recorded", "unconfirmed"} :
         jobs' = [jobs EXCEPT
            ![i].state = IF captured /\ pc[c] = "ok" THEN JobOutcome(attempt, recording) ELSE pc[c],
            ![i].result = IF captured /\ pc[c] = "ok" THEN c ELSE None]
    /\ permits' = IF captured THEN permits + 1 ELSE permits
    /\ Goes(c, "done")
    /\ UNCHANGED <<req, results, slots, asleep, read, phase>>

(***************************************************************************)
(* Results and history.                                                    *)
(***************************************************************************)
May(c, i) == req[c].uid \in {Root, req[jobs[i].run].uid}

\* snapshot_owned reads the owner and the result under one lock; a permit is
\* held while the answer is built.
ReadResult(c) ==
    LET i == IdOf(c) IN
    /\ Alive /\ Moves(c, "result", "done")
    /\ read' = IF jobs[i].state # "absent" /\ May(c, i) /\ jobs[i].result # None /\ permits > 0
               THEN read \cup {<<req[c].uid, jobs[i].result>>} ELSE read
    /\ UNCHANGED <<req, jobs, permits, results, slots, asleep, phase>>

ListHistory(c) ==
    /\ Alive /\ pc[c] = "history"
    /\ IF permits = 0 THEN Goes(c, "done") /\ UNCHANGED permits
       ELSE Goes(c, "streaming") /\ permits' = permits - 1
    /\ UNCHANGED <<req, jobs, results, slots, asleep, read, phase>>

\* The last receipt is sent, loading fails, or the client hangs up.
HistoryEnds(c) ==
    /\ Alive /\ Moves(c, "streaming", "done")
    /\ permits' = permits + 1
    /\ UNCHANGED <<req, jobs, results, slots, asleep, read, phase>>

(***************************************************************************)
(* cancel_job: the owner is read, an administrator may be asked, and then  *)
(* whatever run the id stands for is cancelled.                            *)
(***************************************************************************)
ReadOwner(c) ==
    LET i == IdOf(c) IN
    /\ Alive /\ pc[c] = "owner"
    /\ Goes(c, IF jobs[i].state = "absent" THEN "done"
               ELSE IF May(c, i) THEN "cancel" ELSE "polkit")
    /\ UNCHANGED <<req, jobs, permits, results, slots, asleep, read, phase>>

AskAdministrator(c) ==
    /\ Alive
    /\ Moves(c, "polkit", "cancel") \/ Moves(c, "polkit", "done")
    /\ UNCHANGED <<req, jobs, permits, results, slots, asleep, read, phase>>

Cancel(c) ==
    LET i == IdOf(c) IN
    /\ Alive /\ Moves(c, "cancel", "done")
    /\ jobs' = [jobs EXCEPT ![i].cancel = TRUE]
    /\ UNCHANGED <<req, permits, results, slots, asleep, read, phase>>

(***************************************************************************)
(* rebuild_catalog, apply_retention, set_schedule: blocking tasks that are *)
(* not in the registry.                                                    *)
(***************************************************************************)
DirectEnds(c) ==
    /\ Moves(c, "blocking", "done")
    /\ UNCHANGED <<req, jobs, permits, results, slots, asleep, read, phase>>

(***************************************************************************)
(* The end of the process.                                                 *)
(***************************************************************************)
Signal ==
    /\ phase = "serving" /\ phase' = "draining"
    /\ UNCHANGED <<req, pc, jobs, permits, results, slots, asleep, read>>

Drained ==
    /\ phase = "draining" /\ \A i \in DOMAIN jobs : ~Running(i)
    /\ phase' = "stopped"
    /\ UNCHANGED <<req, pc, jobs, permits, results, slots, asleep, read>>

\* The server ends with its last connection or five seconds after the drain,
\* whichever is first; handlers that still wait are dropped with what they hold.
StopServing ==
    /\ phase = "stopped" /\ phase' = "dropping"
    /\ UNCHANGED <<req, pc, jobs, permits, results, slots, asleep, read>>

\* Steps of a blocking task: the runtime waits for it when it is dropped.
Blocking(c) == pc[c] \in {"blocking", "slot", "work", "ok", "failed"}

\* run returns: dropping the runtime waits for the blocking tasks.
Exit ==
    /\ phase = "dropping" /\ \A c \in Calls : ~Blocking(c)
    /\ phase' = "exited"
    /\ UNCHANGED <<req, pc, jobs, permits, results, slots, asleep, read>>

Task(c) == \/ Acquire(c) \/ WorkEnds(c) \/ Finish(c) \/ DirectEnds(c)

Handler(c) ==
    \/ TakePermit(c) \/ Reserve(c) \/ RequestFails(c) \/ RequestReady(c)
    \/ Register(c) \/ RegisterRefused(c) \/ ReadResult(c) \/ ListHistory(c)
    \/ HistoryEnds(c) \/ ReadOwner(c) \/ AskAdministrator(c) \/ Cancel(c)

Next ==
    \/ \E c \in Calls : Authorize(c) \/ Handler(c) \/ Task(c)
    \/ Signal \/ Drained \/ StopServing \/ Exit

Fairness == \A c \in Calls : WF_vars(Handler(c)) /\ WF_vars(Task(c))

Spec == Init /\ [][Next]_vars /\ Fairness

(***************************************************************************)
(* Properties.                                                             *)
(***************************************************************************)
\* The calls that hold a permit, a reservation, a slot.
WithPermit == {c \in Calls : \/ pc[c] \in {"reserve", "request", "streaming"}
                             \/ req[c].op = "captured" /\ pc[c] \in
                                  {"register", "slot", "work", "ok", "failed"}}
Reserving == {c \in Calls : req[c].op = "captured" /\
                            pc[c] \in {"request", "register", "slot", "work", "ok"}}
InSlot == {c \in Calls : req[c].op \in {"verify", "captured"} /\ pc[c] = "work"}

\* Permits, reservations and slots are neither lost nor handed out twice, on any
\* path through a handler or a task, an error or a panic included: what is not
\* free is held by a call that is under way or, for a reservation, by a result
\* the registry retains.
Balanced ==
    /\ permits + Cardinality(WithPermit) = MaxOperations
    /\ results = Cardinality(Reserving) + Cardinality({i \in DOMAIN jobs : jobs[i].result # None})
    /\ results <= MaxResults
    /\ slots + Cardinality(InSlot) = MaxSlots

\* A captured result is handed out only to the user whose run produced it, or to
\* root, although ids can be reused and requests interleave.
ResultsStayWithTheirOwner ==
    \A r \in read : r[1] \in {Root, req[r[2]].uid}

\* Nothing a captured verification needs is lost or shared: permits,
\* reservations and slots, and the result itself.
ResourcesAreAccounted == Balanced /\ ResultsStayWithTheirOwner

\* Every verification that became a job ends, for there are finitely many: a task
\* asleep on the slots is woken when one is freed, however the releases and the
\* arrivals interleave.
VerificationsEnd ==
    []<>(\A c \in Calls : pc[c] \notin {"slot", "work", "ok", "failed"})
=============================================================================
