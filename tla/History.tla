------------------------------ MODULE History ------------------------------
(***************************************************************************)
(* The host-local ledger of verification receipts                          *)
(* (crates/lr-engine/src/verify/history.rs): recorders and readers that    *)
(* serialise on one lock file, a receipt published by write, fsync, link,  *)
(* unlink and directory fsync, and processes or machines that stop between *)
(* any two of these calls.                                                 *)
(*                                                                         *)
(* A directory entry is the temporary or the final name of a receipt id,   *)
(* for the inode that an attempt created.  Ids are random in the code;     *)
(* here they come from a small set, so that they may collide.              *)
(***************************************************************************)
EXTENDS Naturals, FiniteSets

CONSTANTS
    Recorders,            \* processes that record and load
    ReceiptIds,              \* receipt ids
    MaxAttempts,     \* bound on recording attempts
    MaxEntries,      \* VerificationHistoryOptions::max_entries
    ReceiptBytes,    \* serialized length of a receipt
    MaxLedgerBytes,  \* max_total_ledger_bytes
    MaxCrashes       \* bound on power failures

Nobody == 0

ASSUME HistoryAssumption ==
    /\ Nobody \notin Recorders /\ ReceiptIds # {}
    /\ MaxAttempts \in Nat /\ MaxEntries \in Nat \ {0} /\ MaxCrashes \in Nat
    /\ ReceiptBytes \in Nat \ {0} /\ MaxLedgerBytes \in Nat \ {0}

Attempt == 1..MaxAttempts

VARIABLES
    ledger,       \* directory entries processes see
    durable,   \* entries as of the last directory fsync
    body,      \* content of an attempt's inode: absent, empty, part or full
    synced,    \* attempts whose file was fsynced
    holder,    \* process holding the ledger lock
    proc,      \* process -> [step, attempt]
    receipt,        \* attempt -> receipt id
    outcome,   \* attempt -> RecordingOutcome
    started,   \* attempts so far
    history,   \* the last answer of load_verification_history
    crashes

historyVars == <<ledger, durable, body, synced, holder, proc, receipt, outcome, started, history,
                 crashes>>

Idle == [step |-> "idle", attempt |-> Nobody]
Entry(kind, a) == [kind |-> kind, id |-> receipt[a], attempt |-> a]

HistoryInit ==
    /\ ledger = {} /\ durable = {} /\ synced = {} /\ holder = Nobody
    /\ body = [a \in Attempt |-> "absent"]
    /\ proc = [p \in Recorders |-> Idle]
    /\ receipt = [a \in Attempt |-> CHOOSE i \in ReceiptIds : TRUE]
    /\ outcome = [a \in Attempt |-> "none"]
    /\ started = 0 /\ crashes = 0
    /\ history = [status |-> "none", receipts |-> {}]

-----------------------------------------------------------------------------
(***************************************************************************)
(* scan_entries: what a scan finds, whatever the order of the entries.     *)
(***************************************************************************)
Links(a) == Cardinality({e \in ledger : e.attempt = a})
TotalBytes == Cardinality({e \in ledger : body[e.attempt] = "full"}) * ReceiptBytes

\* validate_private_regular refuses an inode with two names; the quotas count debris too
ScanOk == /\ \A e \in ledger : Links(e.attempt) = 1
          /\ Cardinality(ledger) <= MaxEntries
          /\ TotalBytes <= MaxLedgerBytes

Receipts == {e \in ledger : e.kind = "final"}
\* ObservationSeed: every field once, none missing, none unknown, at most max_members members
ObservationParses(a) == body[a] = "full"
\* ReceiptSeed is as strict about the receipt around it, so nothing cut short passes
Parses(a) == ObservationParses(a)
\* read_receipt and validate_receipt: the whole ledger is refused for one bad receipt
LoadOk == ScanOk /\ \A e \in Receipts : Parses(e.attempt)

-----------------------------------------------------------------------------
(***************************************************************************)
(* record_with_id.  End leaves the critical section with an outcome; the   *)
(* lock guard is dropped on every return.                                  *)
(***************************************************************************)
At(step, a) == [step |-> step, attempt |-> a]
Goto(p, step) == proc' = [proc EXCEPT ![p] = At(step, proc[p].attempt)]
End(p, result) ==
    /\ outcome' = [outcome EXCEPT ![proc[p].attempt] = result]
    /\ proc' = [proc EXCEPT ![p] = Idle]
    /\ holder' = IF holder = p THEN Nobody ELSE holder

NotRecorded(p) == End(p, "not_recorded")
Unconfirmed(p) == End(p, "unconfirmed")

\* record_verification_attempt: a new attempt with an id drawn at random
Draw(p, i) ==
    /\ proc[p] = Idle /\ started < MaxAttempts
    /\ started' = started + 1
    /\ receipt' = [receipt EXCEPT ![started + 1] = i]

\* PinnedHistory::open: a directory that is private, below trusted ancestors and on a supported
\* file system; anything else ends the call
Opened(p) == proc' = [proc EXCEPT ![p] = At("lock", started + 1)] /\ UNCHANGED outcome
OpenRefused ==
    outcome' = [outcome EXCEPT ![started + 1] = "not_recorded"] /\ UNCHANGED proc

\* Invalid options, too many members, an invalid attempt or a clock before 1970 are refused like a
\* directory that is not trusted, all before anything is touched.
Record(p, i) ==
    /\ Draw(p, i)
    /\ OpenRefused \/ Opened(p)
    /\ UNCHANGED <<ledger, durable, body, synced, holder, history, crashes>>

\* PinnedHistory::lock never waits: a second holder is Busy
Lock(p) ==
    /\ proc[p].step = "lock"
    /\ IF holder = Nobody
       THEN holder' = p /\ Goto(p, "scan") /\ UNCHANGED outcome
       ELSE NotRecorded(p)
    /\ UNCHANGED <<ledger, durable, body, synced, receipt, started, history, crashes>>

Scan(p) ==
    /\ proc[p].step = "scan"
    /\ IF ~ScanOk \/ Cardinality(ledger) >= MaxEntries \/ TotalBytes + ReceiptBytes > MaxLedgerBytes
       THEN NotRecorded(p)
       ELSE Goto(p, "create") /\ UNCHANGED <<outcome, holder>>
    /\ UNCHANGED <<ledger, durable, body, synced, receipt, started, history, crashes>>

\* create_new of the temporary name, which debris of the same id refuses
Create(p) ==
    LET a == proc[p].attempt IN
    /\ proc[p].step = "create"
    /\ \/ NotRecorded(p) /\ UNCHANGED <<ledger, body>>
       \/ /\ ~\E e \in ledger : e.kind = "temp" /\ e.id = receipt[a]
          /\ ledger' = ledger \cup {Entry("temp", a)}
          /\ body' = [body EXCEPT ![a] = "empty"]
          /\ Goto(p, "write") /\ UNCHANGED <<outcome, holder>>
    /\ UNCHANGED <<durable, synced, receipt, started, history, crashes>>

\* BoundedFileWriter never writes more than the counted length; it stops at the first error, and
\* what it wrote stays
BoundedWrite(a, written) == body' = [body EXCEPT ![a] = written]

Write(p) ==
    LET a == proc[p].attempt IN
    /\ proc[p].step = "write"
    /\ \/ NotRecorded(p) /\ BoundedWrite(a, "part")
       \/ Goto(p, "sync") /\ BoundedWrite(a, "full") /\ UNCHANGED <<outcome, holder>>
    /\ UNCHANGED <<ledger, durable, synced, receipt, started, history, crashes>>

SyncFile(p) ==
    /\ proc[p].step = "sync"
    /\ \/ NotRecorded(p) /\ UNCHANGED synced
       \/ /\ synced' = synced \cup {proc[p].attempt}
          /\ Goto(p, "link") /\ UNCHANGED <<outcome, holder>>
    /\ UNCHANGED <<ledger, durable, body, receipt, started, history, crashes>>

\* hard_link never replaces; an unclear error may or may not have made the name
Link(p) ==
    LET a == proc[p].attempt
        taken == \E e \in ledger : e.kind = "final" /\ e.id = receipt[a]
    IN  /\ proc[p].step = "link"
        /\ \/ taken /\ NotRecorded(p) /\ UNCHANGED ledger
           \/ ~taken /\ Unconfirmed(p) /\ ledger' \in {ledger, ledger \cup {Entry("final", a)}}
           \/ /\ ~taken
              /\ ledger' = ledger \cup {Entry("final", a)}
              /\ Goto(p, "unlink") /\ UNCHANGED <<outcome, holder>>
        /\ UNCHANGED <<durable, body, synced, receipt, started, history, crashes>>

Unlink(p) ==
    /\ proc[p].step = "unlink"
    /\ \/ Unconfirmed(p) /\ UNCHANGED ledger
       \/ /\ ledger' = ledger \ {Entry("temp", proc[p].attempt)}
          /\ Goto(p, "dirsync") /\ UNCHANGED <<outcome, holder>>
    /\ UNCHANGED <<durable, body, synced, receipt, started, history, crashes>>

\* Mutant: the directory is not flushed.
SyncDirectorySkipped(p) ==
    /\ proc[p].step = "dirsync"
    /\ End(p, "recorded")
    /\ UNCHANGED <<ledger, durable, body, synced, receipt, started, history, crashes>>

SyncDirectory(p) ==
    /\ proc[p].step = "dirsync"
    /\ \/ Unconfirmed(p) /\ UNCHANGED durable
       \/ End(p, "recorded") /\ durable' = ledger
    /\ UNCHANGED <<ledger, body, synced, receipt, started, history, crashes>>

\* load_verification_history: the lock, a scan that parses every receipt, the sorted index
Load(p) ==
    /\ proc[p] = Idle
    /\ started > 0                               \* the lock file is made by the first record
    /\ history' = IF holder = Nobody /\ LoadOk
                  THEN [status |-> "ok", receipts |-> {e.attempt : e \in Receipts}]
                  ELSE [status |-> "unknown", receipts |-> {}]
    /\ UNCHANGED <<ledger, durable, body, synced, holder, proc, receipt, outcome, started, crashes>>

-----------------------------------------------------------------------------
(***************************************************************************)
(* Faults (external): a killed process frees its lock; a power failure     *)
(* keeps what was fsynced and any part of the rest.                        *)
(***************************************************************************)
Kill(p) ==
    /\ proc[p] # Idle
    /\ End(p, "killed")
    /\ UNCHANGED <<ledger, durable, body, synced, receipt, started, history, crashes>>

Crash ==
    /\ crashes < MaxCrashes /\ crashes' = crashes + 1
    /\ \E kept \in SUBSET ((ledger \cup durable) \ (ledger \cap durable)) :
            ledger' = (ledger \cap durable) \cup kept
    /\ durable' = ledger'
    /\ \E lost \in SUBSET {a \in Attempt \ synced : body[a] # "absent"} :
            body' = [a \in Attempt |-> IF a \in lost THEN "part" ELSE body[a]]
    /\ outcome' = [a \in Attempt |-> IF \E p \in Recorders : proc[p].attempt = a
                                     THEN "killed" ELSE outcome[a]]
    /\ proc' = [p \in Recorders |-> Idle] /\ holder' = Nobody
    /\ UNCHANGED <<synced, receipt, started, history>>

HistoryNext ==
    \/ \E p \in Recorders :
          \/ \E i \in ReceiptIds : Record(p, i)
          \/ Lock(p) \/ Scan(p) \/ Create(p) \/ Write(p) \/ SyncFile(p)
          \/ Link(p) \/ Unlink(p) \/ SyncDirectory(p) \/ Load(p) \/ Kill(p)
    \/ Crash

HistorySpec == HistoryInit /\ [][HistoryNext]_historyVars

-----------------------------------------------------------------------------
(***************************************************************************)
(* Properties.                                                             *)
(***************************************************************************)
\* A receipt reported as Recorded is in the ledger, whole and under its own final name, from
\* then on: through later recorders, colliding ids, killed processes and power failures.
RecordedSurvives ==
    \A a \in Attempt : outcome[a] = "recorded" => Entry("final", a) \in ledger /\ body[a] = "full"

\* NotRecorded means what it says: no receipt of that attempt is or will be in the ledger.
NotRecordedIsAbsent ==
    \A a \in Attempt : outcome[a] = "not_recorded" => Entry("final", a) \notin ledger

\* The only thing that can make the whole ledger unreadable is a publication interrupted
\* between link and unlink: no quota refusal, collision, failed write or lost block does it.
OnlyHalfPublicationBlocks ==
    holder = Nobody /\ ~LoadOk => \E e \in ledger : Links(e.attempt) = 2

\* Debris is counted before a receipt is added, so that the directory never outgrows its quotas
\* by more than the second name of one interrupted publication.
LedgerIsBounded ==
    /\ Cardinality(ledger) <= MaxEntries + 1
    /\ TotalBytes <= MaxLedgerBytes + ReceiptBytes

\* A history that loads is the whole history: it names every receipt that was confirmed, and
\* nothing a recorder was told is not recorded.  A missing receipt is never read as success.
LoadIsWhole ==
    [][history' # history /\ history'.status = "ok" =>
        \A a \in Attempt : /\ outcome[a] = "recorded" => a \in history'.receipts
                           /\ outcome[a] = "not_recorded" => a \notin history'.receipts
      ]_historyVars

\* What the ledger promises its readers and its recorders: all of the above.
LedgerIsTrue ==
    /\ [](/\ RecordedSurvives /\ NotRecordedIsAbsent
          /\ OnlyHalfPublicationBlocks /\ LedgerIsBounded)
    /\ LoadIsWhole
=============================================================================
