---------------------------- MODULE HistoryProofs ----------------------------
(***************************************************************************)
(* Proofs about History and Capture: what the ledger of verifications      *)
(* keeps, what the verification vouches for that it records, and that the  *)
(* ledger accepts whatever an attempt leaves behind.                       *)
(*                                                                         *)
(* About History, for every set of recorders and of receipt ids, every     *)
(* quota, and any number of attempts and power failures.                   *)
(*                                                                         *)
(* The invariant says what the ledger's directory holds at each step of a  *)
(* recorder (NamesFollowStep), that a recorder past the lock is alone      *)
(* there (LockIsExclusive), and that the quotas bound the receipts' inodes *)
(* rather than their names (RoomIsLeft), of which at most one has two      *)
(* (OneHalfPublication).  The directory fsynced last is part of the        *)
(* current one, so that a power failure takes no confirmed name away.      *)
(***************************************************************************)
EXTENDS History, Capture, SequenceTheorems, FiniteSetTheorems, FunctionTheorems, TLAPS

EntryKinds == {"temp", "final"}
Steps == {"idle", "lock", "scan", "create", "write", "sync", "link", "unlink", "dirsync"}
Critical == {"scan", "create", "write", "sync", "link", "unlink", "dirsync"}
Bodies == {"absent", "empty", "part", "full"}
Outcomes == {"none", "recorded", "not_recorded", "unconfirmed", "killed"}

Places == [step : Steps, attempt : 0 .. MaxAttempts]
Entries == [kind : EntryKinds, id : ReceiptIds, attempt : Attempt]
Listed(kind, a) == Entry(kind, a) \in ledger
Doubled(a) == Listed("temp", a) /\ Listed("final", a)
Inodes(S) == {e.attempt : e \in S}
FullInodes == {a \in Inodes(ledger) : body[a] = "full"}

\* The parts of Record and Write are read together with them.
USE DEF Draw, Opened, OpenRefused, BoundedWrite

LedgerTypeOK ==
  /\ ledger \subseteq Entries
  /\ IsFiniteSet(ledger)
  /\ durable \subseteq ledger
  /\ body \in [Attempt -> Bodies]
  /\ synced \subseteq Attempt
  /\ holder \in Recorders \cup {Nobody}
  /\ proc \in [Recorders -> Places]
  /\ receipt \in [Attempt -> ReceiptIds]
  /\ outcome \in [Attempt -> Outcomes]
  /\ started \in 0 .. MaxAttempts
  /\ crashes \in Nat

\* The recorder past the lock is the one that holds it.
LockIsExclusive == \A p \in Recorders : proc[p].step \in Critical <=> holder = p

\* A recorder works on an attempt of its own that has no outcome yet.
AttemptsAreApart ==
  /\ \A p \in Recorders :
        /\ proc[p].step = "idle" <=> proc[p].attempt = Nobody
        /\ proc[p].attempt <= started
        /\ proc[p].attempt # Nobody => outcome[proc[p].attempt] = "none"
  /\ \A p, q \in Recorders :
        proc[p].attempt = proc[q].attempt /\ proc[p].attempt # Nobody => p = q
  /\ \A a \in Attempt : a > started => outcome[a] = "none"

\* An entry is a name of its attempt's receipt.
EntriesAreNamed == \A e \in ledger : e.attempt <= started /\ e = Entry(e.kind, e.attempt)

\* The names of an attempt under way, by the step its recorder is at; none is durable.
NamesAt(p) ==
  LET a == proc[p].attempt
      s == proc[p].step
  IN  a # Nobody =>
        /\ \A e \in durable : e.attempt # a
        /\ Listed("temp", a) <=> s \in {"write", "sync", "link", "unlink"}
        /\ Listed("final", a) <=> s \in {"unlink", "dirsync"}
        /\ s \in {"sync", "link", "unlink", "dirsync"} => body[a] = "full"
        /\ s \in {"link", "unlink", "dirsync"} => a \in synced
NamesFollowStep == \A p \in Recorders : NamesAt(p)

FinalsAreWhole ==
  \A e \in ledger : e.kind = "final" => body[e.attempt] = "full" /\ e.attempt \in synced

OutcomesAreTrue ==
  \A a \in Attempt : /\ outcome[a] = "recorded" => Entry("final", a) \in durable
                     /\ outcome[a] = "not_recorded" => ~ Listed("final", a)

\* One publication at most is half done, and none once a scan has passed.
OneHalfPublication ==
  /\ \A a, b \in Attempt : Doubled(a) /\ Doubled(b) => a = b
  /\ \A p \in Recorders : proc[p].step \in {"create", "write", "sync", "link", "dirsync"}
                            => \A a \in Attempt : ~ Doubled(a)

\* The quotas hold of the inodes, with room for one more between the scan and
\* the write.
RoomIsLeft ==
  /\ Cardinality(Inodes(ledger)) <= MaxEntries
  /\ Cardinality(FullInodes) * ReceiptBytes <= MaxLedgerBytes
  /\ \A p \in Recorders :
        /\ proc[p].step = "create" => Cardinality(Inodes(ledger)) < MaxEntries
        /\ proc[p].step \in {"create", "write"} =>
              (Cardinality(FullInodes) + 1) * ReceiptBytes <= MaxLedgerBytes

LedgerInvariant ==
  /\ LedgerTypeOK /\ LockIsExclusive /\ AttemptsAreApart /\ EntriesAreNamed
  /\ NamesFollowStep /\ FinalsAreWhole /\ OutcomesAreTrue /\ OneHalfPublication
  /\ RoomIsLeft

\* A step of a recorder that is under way.
RecorderStep(p) ==
  \/ Lock(p) \/ Scan(p) \/ Create(p) \/ Write(p) \/ SyncFile(p) \/ Link(p) \/ Unlink(p)
  \/ SyncDirectory(p) \/ Kill(p)

-----------------------------------------------------------------------------
LEMMA PlaceType ==
  ASSUME NEW s \in Steps, NEW a \in 0 .. MaxAttempts
  PROVE  At(s, a) \in Places /\ At(s, a).step = s /\ At(s, a).attempt = a
BY DEF Places, At

LEMMA IdleType == Idle \in Places /\ Idle.step = "idle" /\ Idle.attempt = Nobody
BY HistoryAssumption DEF Places, Idle, Steps, Nobody

LEMMA EntryType ==
  ASSUME LedgerTypeOK, NEW kind \in EntryKinds, NEW a \in Attempt
  PROVE  /\ Entry(kind, a) \in Entries
         /\ Entry(kind, a).kind = kind /\ Entry(kind, a).attempt = a
BY DEF LedgerTypeOK, Entry, Entries

\* Where a recorder is, without its step's fields.
LEMMA PlaceOf ==
  ASSUME LedgerTypeOK, NEW p \in Recorders
  PROVE  /\ proc[p] \in Places /\ proc[p].step \in Steps /\ proc[p].attempt \in 0 .. MaxAttempts
         /\ \A s \in Steps : At(s, proc[p].attempt) \in Places
BY PlaceType DEF LedgerTypeOK, Places

\* What an action leaves to type: the directory and the recorder's place.
LEMMA TypeStep ==
  ASSUME LedgerTypeOK, [HistoryNext]_historyVars, NamesFollowStep, AttemptsAreApart
  PROVE  LedgerTypeOK'
<1> USE HistoryAssumption DEF Attempt, Nobody
<1>1. ASSUME NEW p \in Recorders, NEW result \in Outcomes, End(p, result)
      PROVE  /\ proc' \in [Recorders -> Places] /\ outcome' \in [Attempt -> Outcomes]
             /\ holder' \in Recorders \cup {Nobody}
  BY <1>1, IdleType DEF End, LedgerTypeOK
<1>2. ASSUME NEW p \in Recorders, NEW s \in Steps, Goto(p, s)
      PROVE  proc' \in [Recorders -> Places]
  BY <1>2, PlaceOf DEF Goto, LedgerTypeOK
<1>3. ASSUME NEW p \in Recorders, NEW i \in ReceiptIds, Record(p, i)
      PROVE  LedgerTypeOK'
  <2>1. started + 1 \in Attempt
    BY <1>3 DEF Record, LedgerTypeOK
  <2>2. At("lock", started + 1) \in Places
    BY <2>1, PlaceType DEF Steps
  <2>3. proc' \in [Recorders -> Places]
    BY <1>3, <2>2 DEF Record, LedgerTypeOK
  <2> QED
    BY <1>3, <2>1, <2>3 DEF Record, LedgerTypeOK, Outcomes
<1>4. ASSUME NEW p \in Recorders, Lock(p) PROVE LedgerTypeOK'
  BY <1>4, <1>1, <1>2 DEF Lock, NotRecorded, LedgerTypeOK, Outcomes, Steps
<1>5. ASSUME NEW p \in Recorders, Scan(p) PROVE LedgerTypeOK'
  BY <1>5, <1>1, <1>2 DEF Scan, NotRecorded, LedgerTypeOK, Outcomes, Steps
<1>6. ASSUME NEW p \in Recorders, Create(p) PROVE LedgerTypeOK'
  <2>1. proc[p].attempt \in Attempt
    BY <1>6, PlaceOf DEF Create, AttemptsAreApart
  <2>2. Entry("temp", proc[p].attempt) \in Entries
    BY <2>1, EntryType DEF EntryKinds
  <2> DEFINE more == ledger \cup {Entry("temp", proc[p].attempt)}
  <2>3. ledger' \in {ledger, more} /\ durable' = durable
    BY <1>6 DEF Create
  <2>4. IsFiniteSet(more)
    BY FS_AddElement DEF LedgerTypeOK
  <2>5. ledger' \subseteq Entries /\ IsFiniteSet(ledger') /\ durable' \subseteq ledger'
    BY <2>2, <2>3, <2>4 DEF LedgerTypeOK
  <2> QED
    BY <1>6, <1>1, <1>2, <2>5 DEF Create, NotRecorded, LedgerTypeOK, Outcomes, Steps, Bodies
<1>7. ASSUME NEW p \in Recorders, Write(p) PROVE LedgerTypeOK'
  BY <1>7, <1>1, <1>2 DEF Write, NotRecorded, LedgerTypeOK, Outcomes, Steps, Bodies
<1>8. ASSUME NEW p \in Recorders, SyncFile(p) PROVE LedgerTypeOK'
  <2>1. proc[p].attempt \in Attempt
    BY <1>8, PlaceOf DEF SyncFile, AttemptsAreApart
  <2> QED
    BY <1>8, <1>1, <1>2, <2>1 DEF SyncFile, NotRecorded, LedgerTypeOK, Outcomes, Steps
<1>9. ASSUME NEW p \in Recorders, Link(p) PROVE LedgerTypeOK'
  <2>1. proc[p].attempt \in Attempt
    BY <1>9, PlaceOf DEF Link, AttemptsAreApart
  <2>2. Entry("final", proc[p].attempt) \in Entries
    BY <2>1, EntryType DEF EntryKinds
  <2>3. ledger' \subseteq Entries /\ IsFiniteSet(ledger') /\ durable' \subseteq ledger'
    BY <1>9, <2>2, FS_AddElement DEF Link, LedgerTypeOK
  <2> QED
    BY <1>9, <1>1, <1>2, <2>3
    DEF Link, NotRecorded, Unconfirmed, LedgerTypeOK, Outcomes, Steps
<1>10. ASSUME NEW p \in Recorders, Unlink(p) PROVE LedgerTypeOK'
  <2>1. proc[p].attempt \in Attempt
    BY <1>10, PlaceOf DEF Unlink, AttemptsAreApart
  <2>2. Entry("temp", proc[p].attempt) \notin durable
    BY <1>10, <2>1, EntryType DEF NamesFollowStep, NamesAt, EntryKinds
  <2>3. ledger' \subseteq Entries /\ IsFiniteSet(ledger') /\ durable' \subseteq ledger'
    BY <1>10, <2>2, FS_RemoveElement DEF Unlink, LedgerTypeOK
  <2> QED
    BY <1>10, <1>1, <1>2, <2>3 DEF Unlink, Unconfirmed, LedgerTypeOK, Outcomes, Steps
<1>11. ASSUME NEW p \in Recorders, SyncDirectory(p) PROVE LedgerTypeOK'
  BY <1>11, <1>1 DEF SyncDirectory, Unconfirmed, LedgerTypeOK, Outcomes
<1>12. ASSUME NEW p \in Recorders, Load(p) PROVE LedgerTypeOK'
  BY <1>12 DEF Load, LedgerTypeOK
<1>13. ASSUME NEW p \in Recorders, Kill(p) PROVE LedgerTypeOK'
  BY <1>13, <1>1 DEF Kill, LedgerTypeOK, Outcomes
<1>14. CASE Crash
  <2>1. ledger' \subseteq ledger /\ durable' = ledger'
    BY <1>14 DEF Crash, LedgerTypeOK
  <2>2. IsFiniteSet(ledger')
    BY <2>1, FS_Subset DEF LedgerTypeOK
  <2>3. body' \in [Attempt -> Bodies]
    BY <1>14 DEF Crash, LedgerTypeOK, Bodies
  <2>4. outcome' \in [Attempt -> Outcomes] /\ proc' \in [Recorders -> Places]
    BY <1>14, IdleType DEF Crash, LedgerTypeOK, Outcomes
  <2> QED
    BY <1>14, <2>1, <2>2, <2>3, <2>4 DEF Crash, LedgerTypeOK
<1>15. CASE UNCHANGED historyVars
  BY <1>15 DEF historyVars, LedgerTypeOK
<1> QED
  BY <1>3, <1>4, <1>5, <1>6, <1>7, <1>8, <1>9, <1>10, <1>11, <1>12, <1>13, <1>14, <1>15
  DEF HistoryNext

LEMMA LockStep ==
  ASSUME LedgerTypeOK, LockIsExclusive, [HistoryNext]_historyVars
  PROVE  LockIsExclusive'
<1> USE HistoryAssumption DEF Attempt, Nobody
<1>1. ASSUME NEW p \in Recorders, NEW i \in ReceiptIds, Record(p, i) PROVE LockIsExclusive'
  BY <1>1 DEF LedgerTypeOK, LockIsExclusive, Steps, Critical, Record, At, Idle
<1>2. ASSUME NEW p \in Recorders, Lock(p) PROVE LockIsExclusive'
  BY <1>2 DEF LedgerTypeOK, LockIsExclusive, Steps, Critical, Lock, Goto, At, NotRecorded, End, Idle
<1>3. ASSUME NEW p \in Recorders, Scan(p) PROVE LockIsExclusive'
  BY <1>3 DEF LedgerTypeOK, LockIsExclusive, Steps, Critical, Scan, Goto, At, NotRecorded, End, Idle
<1>4. ASSUME NEW p \in Recorders, Create(p) PROVE LockIsExclusive'
  BY <1>4 DEF LedgerTypeOK, LockIsExclusive, Steps, Critical, Create, Goto, At, NotRecorded, End,
     Idle
<1>5. ASSUME NEW p \in Recorders, Write(p) PROVE LockIsExclusive'
  BY <1>5 DEF LedgerTypeOK, LockIsExclusive, Steps, Critical, Write, Goto, At, NotRecorded, End,
     Idle
<1>6. ASSUME NEW p \in Recorders, SyncFile(p) PROVE LockIsExclusive'
  BY <1>6 DEF LedgerTypeOK, LockIsExclusive, Steps, Critical, SyncFile, Goto, At, NotRecorded,
     End, Idle
<1>7. ASSUME NEW p \in Recorders, Link(p) PROVE LockIsExclusive'
  BY <1>7 DEF LedgerTypeOK, LockIsExclusive, Steps, Critical, Link, Goto, At, NotRecorded,
     Unconfirmed, End, Idle
<1>8. ASSUME NEW p \in Recorders, Unlink(p) PROVE LockIsExclusive'
  BY <1>8 DEF LedgerTypeOK, LockIsExclusive, Steps, Critical, Unlink, Goto, At, Unconfirmed, End,
     Idle
<1>9. ASSUME NEW p \in Recorders, SyncDirectory(p) PROVE LockIsExclusive'
  BY <1>9 DEF LedgerTypeOK, LockIsExclusive, Steps, Critical, SyncDirectory, Unconfirmed, End, Idle
<1>10. ASSUME NEW p \in Recorders, Load(p) PROVE LockIsExclusive'
  BY <1>10 DEF LedgerTypeOK, LockIsExclusive, Steps, Critical, Load
<1>11. ASSUME NEW p \in Recorders, Kill(p) PROVE LockIsExclusive'
  BY <1>11 DEF LedgerTypeOK, LockIsExclusive, Steps, Critical, Kill, End, Idle
<1>12. CASE Crash
  BY <1>12 DEF LedgerTypeOK, LockIsExclusive, Steps, Critical, Crash, Idle
<1>13. CASE UNCHANGED historyVars
  BY <1>13 DEF LedgerTypeOK, LockIsExclusive, Steps, Critical, historyVars
<1> QED
  BY <1>1, <1>2, <1>3, <1>4, <1>5, <1>6, <1>7, <1>8, <1>9, <1>10, <1>11, <1>12, <1>13
     DEF HistoryNext

\* Leaving with an outcome frees the recorder; a step inside keeps its attempt.
LEMMA EndApart ==
  ASSUME LedgerTypeOK, AttemptsAreApart, NEW p \in Recorders, NEW result, End(p, result),
         proc[p] # Idle, started' = started
  PROVE  AttemptsAreApart'
<1> USE HistoryAssumption DEF Attempt, Nobody
<1>1. \A q \in Recorders : proc'[q] = IF q = p THEN Idle ELSE proc[q]
  BY DEF End, LedgerTypeOK
<1>2. \A q \in Recorders : proc[q].attempt \in 0 .. MaxAttempts
  BY PlaceOf
<1>3. \A a \in Attempt : a # proc[p].attempt => outcome'[a] = outcome[a]
  BY DEF End, LedgerTypeOK
<1>4. \A q \in Recorders :
        /\ proc'[q].step = "idle" <=> proc'[q].attempt = Nobody
        /\ proc'[q].attempt <= started'
  BY <1>1, <1>2, IdleType DEF AttemptsAreApart, LedgerTypeOK
<1>5. \A q \in Recorders : proc'[q].attempt # Nobody => outcome'[proc'[q].attempt] = "none"
  BY <1>1, <1>2, <1>3, IdleType DEF AttemptsAreApart
<1>6. \A q, r \in Recorders :
        proc'[q].attempt = proc'[r].attempt /\ proc'[q].attempt # Nobody => q = r
  BY <1>1, IdleType DEF AttemptsAreApart
<1>7. proc[p].attempt <= started
  BY DEF AttemptsAreApart
<1>8. \A a \in Attempt : a > started' => outcome'[a] = "none"
  BY <1>2, <1>3, <1>7 DEF AttemptsAreApart, LedgerTypeOK
<1> QED
  BY <1>4, <1>5, <1>6, <1>8 DEF AttemptsAreApart

LEMMA GotoApart ==
  ASSUME LedgerTypeOK, AttemptsAreApart, NEW p \in Recorders, NEW s \in Steps, Goto(p, s),
         s # "idle", proc[p].step # "idle", started' = started, outcome' = outcome
  PROVE  AttemptsAreApart'
<1> USE HistoryAssumption DEF Attempt, Nobody
<1>1. \A q \in Recorders : /\ proc'[q].attempt = proc[q].attempt
                            /\ proc'[q].step = IF q = p THEN s ELSE proc[q].step
  BY PlaceOf, PlaceType DEF Goto, LedgerTypeOK
<1> QED
  BY <1>1 DEF AttemptsAreApart

LEMMA ApartStep ==
  ASSUME LedgerTypeOK, AttemptsAreApart, [HistoryNext]_historyVars
  PROVE  AttemptsAreApart'
<1> USE HistoryAssumption DEF Attempt, Nobody
<1>1. ASSUME NEW p \in Recorders, NEW i \in ReceiptIds, Record(p, i) PROVE AttemptsAreApart'
  <2>1. started + 1 \in Attempt /\ started' = started + 1
    BY <1>1 DEF Record, LedgerTypeOK
  <2>2. \A q \in Recorders : proc[q].attempt \in 0 .. MaxAttempts /\ proc[q].attempt <= started
    BY PlaceOf DEF AttemptsAreApart
  <2>3. CASE UNCHANGED proc /\ outcome' = [outcome EXCEPT ![started + 1] = "not_recorded"]
    <3>1. \A a \in Attempt : a # started + 1 => outcome'[a] = outcome[a]
      BY <2>3 DEF LedgerTypeOK
    <3> QED
      BY <2>1, <2>2, <2>3, <3>1 DEF AttemptsAreApart, LedgerTypeOK
  <2>4. CASE proc' = [proc EXCEPT ![p] = At("lock", started + 1)] /\ UNCHANGED outcome
    <3>1. \A q \in Recorders : q # p => proc'[q] = proc[q]
      BY <2>4 DEF LedgerTypeOK
    <3>2. proc'[p].attempt = started + 1 /\ proc'[p].step = "lock"
      BY <2>1, <2>4, PlaceType DEF LedgerTypeOK, Steps
    <3>3. outcome'[started + 1] = "none"
      BY <2>1, <2>4 DEF AttemptsAreApart, LedgerTypeOK
    <3> QED
      BY <2>1, <2>2, <2>4, <3>1, <3>2, <3>3 DEF AttemptsAreApart, LedgerTypeOK
  <2> QED
    BY <1>1, <2>3, <2>4 DEF Record
<1>2. ASSUME NEW p \in Recorders, RecorderStep(p) PROVE AttemptsAreApart'
  <2>1. proc[p] # Idle /\ started' = started
    BY <1>2, IdleType
    DEF RecorderStep, Lock, Scan, Create, Write, SyncFile, Link, Unlink, SyncDirectory, Kill
  <2>2. \/ \E result : End(p, result)
        \/ /\ proc[p].step # "idle" /\ outcome' = outcome
           /\ \E s \in Steps : s # "idle" /\ Goto(p, s)
    BY <1>2
    DEF RecorderStep, Lock, Scan, Create, Write, SyncFile, Link, Unlink, SyncDirectory, Kill,
        NotRecorded, Unconfirmed, Steps
  <2> QED
    BY <2>1, <2>2, EndApart, GotoApart
<1>3. ASSUME NEW p \in Recorders, Load(p) PROVE AttemptsAreApart'
  BY <1>3 DEF Load, AttemptsAreApart
<1>4. CASE Crash
  <2>1. \A q \in Recorders : proc'[q] = Idle
    BY <1>4 DEF Crash
  <2>2. \A a \in Attempt : a > started => outcome'[a] = outcome[a]
    BY <1>4 DEF Crash, AttemptsAreApart, LedgerTypeOK
  <2> QED
    BY <1>4, <2>1, <2>2, IdleType DEF Crash, AttemptsAreApart, LedgerTypeOK
<1>5. CASE UNCHANGED historyVars
  BY <1>5 DEF historyVars, AttemptsAreApart
<1> QED
  BY <1>1, <1>2, <1>3, <1>4, <1>5 DEF HistoryNext, RecorderStep

\* A step leaves the receipts, the names and the files of other attempts alone.
LEMMA OthersKept ==
  ASSUME LedgerTypeOK, AttemptsAreApart, NEW p \in Recorders, RecorderStep(p)
  PROVE  /\ proc[p].attempt \in Attempt
         /\ receipt' = receipt /\ started' = started
         /\ \A q \in Recorders : q # p => proc'[q] = proc[q]
         /\ \A b \in Attempt : b # proc[p].attempt =>
               /\ body'[b] = body[b] /\ outcome'[b] = outcome[b]
               /\ b \in synced' <=> b \in synced
         /\ \A e \in ledger' : e \in ledger \/ e.attempt = proc[p].attempt
         /\ \A e \in ledger : e.attempt # proc[p].attempt => e \in ledger'
<1> USE HistoryAssumption DEF Attempt, Nobody
<1> DEFINE a == proc[p].attempt
<1>1. a \in Attempt
  <2>1. proc[p].step # "idle"
    BY PlaceOf, IdleType
    DEF RecorderStep, Lock, Scan, Create, Write, SyncFile, Link, Unlink, SyncDirectory, Kill,
        Places, Idle, AttemptsAreApart
  <2> QED
    BY <2>1, PlaceOf DEF AttemptsAreApart
<1>2. receipt' = receipt /\ started' = started
  BY DEF RecorderStep, Lock, Scan, Create, Write, SyncFile, Link, Unlink, SyncDirectory, Kill
<1>3. \/ \E result : End(p, result)
      \/ outcome' = outcome /\ \E s \in Steps : Goto(p, s)
  BY DEF RecorderStep, Lock, Scan, Create, Write, SyncFile, Link, Unlink, SyncDirectory, Kill,
         NotRecorded, Unconfirmed, Steps
<1>4. /\ \A q \in Recorders : q # p => proc'[q] = proc[q]
      /\ \A b \in Attempt : b # a => outcome'[b] = outcome[b]
  BY <1>3 DEF End, Goto, LedgerTypeOK
<1>5. \A b \in Attempt : b # a => body'[b] = body[b] /\ (b \in synced' <=> b \in synced)
  BY DEF RecorderStep, Lock, Scan, Create, Write, SyncFile, Link, Unlink, SyncDirectory, Kill,
         LedgerTypeOK
<1>6. ledger' \in {ledger, ledger \cup {Entry("temp", a)}, ledger \cup {Entry("final", a)},
                   ledger \ {Entry("temp", a)}}
  BY DEF RecorderStep, Lock, Scan, Create, Write, SyncFile, Link, Unlink, SyncDirectory, Kill
<1>7. Entry("temp", a).attempt = a /\ Entry("final", a).attempt = a
  BY DEF Entry
<1> QED
  BY <1>1, <1>2, <1>4, <1>5, <1>6, <1>7

\* The names of a receipt that exists do not change.
LEMMA EntryKept ==
  ASSUME LedgerTypeOK, AttemptsAreApart, [HistoryNext]_historyVars, NEW kind,
         NEW a \in Attempt, a <= started
  PROVE  Entry(kind, a)' = Entry(kind, a)
<1>1. receipt'[a] = receipt[a]
  <2>1. ASSUME NEW p \in Recorders, NEW i \in ReceiptIds, Record(p, i)
        PROVE  receipt'[a] = receipt[a]
    BY <2>1 DEF Record, LedgerTypeOK, Attempt
  <2>2. CASE UNCHANGED historyVars
    BY <2>2 DEF historyVars
  <2>3. ASSUME NEW p \in Recorders, RecorderStep(p) \/ Load(p) PROVE receipt' = receipt
    BY <2>3, OthersKept DEF Load
  <2>4. CASE Crash
    BY <2>4 DEF Crash
  <2> QED
    BY <2>1, <2>2, <2>3, <2>4 DEF HistoryNext, RecorderStep
<1> QED
  BY <1>1 DEF Entry

LEMMA NamedStep ==
  ASSUME LedgerTypeOK, AttemptsAreApart, EntriesAreNamed, [HistoryNext]_historyVars
  PROVE  EntriesAreNamed'
<1> USE HistoryAssumption DEF Attempt, Nobody
<1> SUFFICES ASSUME NEW e \in ledger' PROVE e.attempt <= started' /\ e = Entry(e.kind, e.attempt)'
  BY DEF EntriesAreNamed
<1>1. CASE e \in ledger
  <2>1. e.attempt \in Attempt /\ e.attempt <= started /\ e = Entry(e.kind, e.attempt)
    BY <1>1 DEF EntriesAreNamed, LedgerTypeOK, Entries
  <2>2. Entry(e.kind, e.attempt)' = Entry(e.kind, e.attempt)
    BY <2>1, EntryKept
  <2>3. started' \in {started, started + 1}
    BY OthersKept DEF HistoryNext, RecorderStep, Record, Load, Crash, historyVars
  <2> QED
    BY <2>1, <2>2, <2>3 DEF LedgerTypeOK
<1>2. CASE e \notin ledger
  <2>1. PICK p \in Recorders : Create(p) \/ Link(p)
    BY <1>2 DEF HistoryNext, Record, Lock, Scan, Write, SyncFile, Unlink, SyncDirectory, Load,
                Kill, Crash, historyVars, LedgerTypeOK
  <2>2. proc[p].attempt <= started /\ started' = started /\ receipt' = receipt
    BY <2>1, OthersKept DEF AttemptsAreApart, RecorderStep
  <2>3. e \in {Entry("temp", proc[p].attempt), Entry("final", proc[p].attempt)}
    BY <1>2, <2>1 DEF Create, Link
  <2> QED
    BY <2>2, <2>3 DEF Entry
<1> QED
  BY <1>1, <1>2

\* The names of an attempt that no recorder of this step works on.
LEMMA NamesOfOthers ==
  ASSUME LedgerTypeOK, LockIsExclusive, AttemptsAreApart, EntriesAreNamed, NamesFollowStep,
         NEW p \in Recorders, RecorderStep(p), NEW q \in Recorders, q # p
  PROVE  NamesAt(q)'
<1> USE HistoryAssumption DEF Attempt, Nobody
<1> DEFINE b == proc[q].attempt
<1> SUFFICES ASSUME b # Nobody PROVE NamesAt(q)'
  BY OthersKept DEF NamesAt
<1>1. b \in Attempt /\ b # proc[p].attempt /\ NamesAt(q)
  BY PlaceOf DEF AttemptsAreApart, NamesFollowStep
<1>2. proc'[q] = proc[q] /\ body'[b] = body[b] /\ (b \in synced' <=> b \in synced)
  BY <1>1, OthersKept
<1>3. \A kind \in EntryKinds : Entry(kind, b)' = Entry(kind, b) /\ Entry(kind, b).attempt = b
  BY OthersKept DEF Entry
<1>4. \A kind \in EntryKinds : Listed(kind, b)' <=> Listed(kind, b)
  BY <1>1, <1>3, OthersKept DEF Listed
<1>5. \A e \in durable' : e.attempt # b
  <2>1. CASE SyncDirectory(p)
    <3>1. proc[q].step = "lock"
      BY <2>1, <1>1, PlaceOf DEF SyncDirectory, LockIsExclusive, Critical, AttemptsAreApart, Steps
    <3>2. ~ Listed("temp", b) /\ ~ Listed("final", b)
      BY <1>1, <3>1 DEF NamesAt
    <3>3. \A e \in ledger : e.attempt # b
      BY <3>2 DEF EntriesAreNamed, LedgerTypeOK, Entries, EntryKinds, Listed
    <3> QED
      BY <2>1, <3>3 DEF SyncDirectory, LedgerTypeOK
  <2>2. CASE durable' = durable
    BY <2>2, <1>1 DEF NamesAt
  <2> QED
    BY <2>1, <2>2
    DEF RecorderStep, Lock, Scan, Create, Write, SyncFile, Link, Unlink, Kill
<1> QED
  BY <1>1, <1>2, <1>4, <1>5 DEF NamesAt, EntryKinds

LEMMA OwnNames ==
  ASSUME LedgerTypeOK, LockIsExclusive, AttemptsAreApart, EntriesAreNamed, NamesFollowStep,
         NEW p \in Recorders, RecorderStep(p)
  PROVE  NamesAt(p)'
<1> USE HistoryAssumption DEF Attempt, Nobody
<1> PICK a \in Attempt : a = proc[p].attempt
  BY OthersKept
<1>1. /\ a = proc[p].attempt /\ receipt' = receipt /\ NamesAt(p)
      /\ Entry("temp", a)' = Entry("temp", a) /\ Entry("final", a)' = Entry("final", a)
      /\ Entry("temp", a) # Entry("final", a)
      /\ proc[p].step \in Steps /\ a # Nobody
  BY OthersKept, PlaceOf DEF NamesFollowStep, Entry
<1>2. ASSUME NEW result, End(p, result) PROVE NamesAt(p)'
  BY <1>2, IdleType DEF End, NamesAt, LedgerTypeOK
<1>3. ASSUME NEW s \in Steps, Goto(p, s)
      PROVE  proc'[p].step = s /\ proc'[p].attempt = a
  BY <1>3, PlaceOf, PlaceType DEF Goto, LedgerTypeOK
<1>4. ASSUME Lock(p) \/ Scan(p), Goto(p, "scan") \/ Goto(p, "create") PROVE NamesAt(p)'
  BY <1>4, <1>3, <1>1 DEF Lock, Scan, NamesAt, Listed, Steps
<1>5. ASSUME Create(p), Goto(p, "write"), ledger' = ledger \cup {Entry("temp", a)}
      PROVE  NamesAt(p)'
  BY <1>5, <1>3, <1>1 DEF Create, NamesAt, Listed, Steps
<1>6. ASSUME Write(p), Goto(p, "sync"), body' = [body EXCEPT ![a] = "full"] PROVE NamesAt(p)'
  BY <1>6, <1>3, <1>1 DEF Write, NamesAt, Listed, Steps, LedgerTypeOK
<1>7. ASSUME SyncFile(p), Goto(p, "link"), synced' = synced \cup {a} PROVE NamesAt(p)'
  BY <1>7, <1>3, <1>1 DEF SyncFile, NamesAt, Listed, Steps
<1>8. ASSUME Link(p), Goto(p, "unlink"), ledger' = ledger \cup {Entry("final", a)}
      PROVE  NamesAt(p)'
  BY <1>8, <1>3, <1>1 DEF Link, NamesAt, Listed, Steps
<1>9. ASSUME Unlink(p), Goto(p, "dirsync"), ledger' = ledger \ {Entry("temp", a)}
      PROVE  NamesAt(p)'
  BY <1>9, <1>3, <1>1 DEF Unlink, NamesAt, Listed, Steps
<1>10. CASE \E result : End(p, result)
  BY <1>10, <1>2
<1>11. CASE ~ \E result : End(p, result)
  BY <1>11, <1>4, <1>5, <1>6, <1>7, <1>8, <1>9
  DEF RecorderStep, Lock, Scan, Create, Write, SyncFile, Link, Unlink, SyncDirectory, Kill,
      NotRecorded, Unconfirmed
<1> QED
  BY <1>10, <1>11

LEMMA NamesStep ==
  ASSUME LedgerTypeOK, LockIsExclusive, AttemptsAreApart, EntriesAreNamed, NamesFollowStep,
         [HistoryNext]_historyVars
  PROVE  NamesFollowStep'
<1> USE HistoryAssumption DEF Attempt, Nobody
<1>1. ASSUME NEW p \in Recorders, RecorderStep(p) PROVE NamesFollowStep'
  BY <1>1, OwnNames, NamesOfOthers DEF NamesFollowStep
<1>2. ASSUME NEW p \in Recorders, NEW i \in ReceiptIds, Record(p, i) PROVE NamesFollowStep'
  <2> SUFFICES ASSUME NEW q \in Recorders PROVE NamesAt(q)'
    BY DEF NamesFollowStep
  <2>1. /\ ledger' = ledger /\ durable' = durable /\ body' = body /\ synced' = synced
        /\ started + 1 \in Attempt
    BY <1>2 DEF Record, LedgerTypeOK
  <2>2. CASE proc'[q] = proc[q]
    <3> PICK b \in 0 .. MaxAttempts : b = proc[q].attempt
      BY PlaceOf
    <3>1. b = proc[q].attempt /\ b <= started
      BY DEF AttemptsAreApart
    <3>2. \A kind : b # Nobody => Entry(kind, b)' = Entry(kind, b)
      BY <3>1, EntryKept
    <3> QED
      BY <2>1, <2>2, <3>1, <3>2 DEF NamesFollowStep, NamesAt, Listed
  <2>3. CASE q = p /\ proc' = [proc EXCEPT ![p] = At("lock", started + 1)]
    <3> PICK b \in Attempt : b = started + 1
      BY <2>1
    <3>1. proc'[q].attempt = b /\ proc'[q].step = "lock"
      BY <2>1, <2>3, PlaceType DEF LedgerTypeOK, Steps
    <3>2. \A e \in ledger : e.attempt # b
      BY DEF EntriesAreNamed, LedgerTypeOK
    <3>3. \A kind : Entry(kind, b)'.attempt = b
      BY DEF Entry
    <3> QED
      BY <2>1, <3>1, <3>2, <3>3 DEF NamesAt, Listed, LedgerTypeOK
  <2> QED
    BY <1>2, <2>2, <2>3 DEF Record, LedgerTypeOK
<1>3. ASSUME NEW p \in Recorders, Load(p) PROVE NamesFollowStep'
  BY <1>3 DEF Load, NamesFollowStep, NamesAt, Listed, Entry
<1>4. CASE Crash
  BY <1>4, IdleType DEF Crash, NamesFollowStep, NamesAt
<1>5. CASE UNCHANGED historyVars
  BY <1>5 DEF historyVars, NamesFollowStep, NamesAt, Listed, Entry
<1> QED
  BY <1>1, <1>2, <1>3, <1>4, <1>5 DEF HistoryNext, RecorderStep

LEMMA WholeStep ==
  ASSUME LedgerTypeOK, AttemptsAreApart, EntriesAreNamed, NamesFollowStep, FinalsAreWhole,
         [HistoryNext]_historyVars
  PROVE  FinalsAreWhole'
<1> USE HistoryAssumption DEF Attempt, Nobody
<1> SUFFICES ASSUME NEW e \in ledger', e.kind = "final"
             PROVE  body'[e.attempt] = "full" /\ e.attempt \in synced'
  BY DEF FinalsAreWhole
<1>1. ASSUME e \in ledger
      PROVE  /\ body[e.attempt] = "full" /\ e.attempt \in synced /\ e.attempt \in Attempt
             /\ Listed("final", e.attempt)
  BY <1>1 DEF FinalsAreWhole, LedgerTypeOK, Entries, EntriesAreNamed, Listed
<1>2. ASSUME NEW p \in Recorders, RecorderStep(p), e \in ledger
      PROVE  body'[e.attempt] = "full" /\ e.attempt \in synced'
  <2> DEFINE a == proc[p].attempt
  <2>1. CASE e.attempt # a
    BY <1>1, <1>2, <2>1, OthersKept
  <2>2. CASE e.attempt = a
    <3>1. a # Nobody /\ proc[p].step \in {"unlink", "dirsync"}
      BY <1>1, <1>2, <2>2, OthersKept DEF NamesFollowStep, NamesAt
    <3>2. body' = body /\ synced' = synced
      BY <1>2, <3>1
      DEF RecorderStep, Lock, Scan, Create, Write, SyncFile, Link, Unlink, SyncDirectory, Kill
    <3> QED
      BY <1>1, <1>2, <3>2
  <2> QED
    BY <2>1, <2>2
<1>3. ASSUME NEW p \in Recorders, RecorderStep(p), e \notin ledger
      PROVE  body'[e.attempt] = "full" /\ e.attempt \in synced'
  <2>1. CASE Create(p)
    BY <1>3, <2>1 DEF Create, Entry
  <2>2. CASE Link(p)
    <3>1. body[proc[p].attempt] = "full" /\ proc[p].attempt \in synced
      BY <1>3, <2>2, OthersKept DEF Link, NamesFollowStep, NamesAt
    <3>2. e.attempt = proc[p].attempt
      BY <1>3, <2>2 DEF Link, Entry
    <3> QED
      BY <2>2, <3>1, <3>2 DEF Link
  <2> QED
    BY <1>3, <2>1, <2>2
    DEF RecorderStep, Lock, Scan, Write, SyncFile, Unlink, SyncDirectory, Kill
<1>4. CASE Crash
  <2>1. e \in ledger
    BY <1>4 DEF Crash, LedgerTypeOK
  <2> QED
    BY <1>1, <1>4, <2>1 DEF Crash
<1>5. ASSUME NEW p \in Recorders, NEW i \in ReceiptIds, Record(p, i) \/ Load(p)
      PROVE  body'[e.attempt] = "full" /\ e.attempt \in synced'
  BY <1>1, <1>5 DEF Record, Load
<1>6. CASE UNCHANGED historyVars
  BY <1>1, <1>6 DEF historyVars
<1> QED
  BY <1>2, <1>3, <1>4, <1>5, <1>6 DEF HistoryNext, RecorderStep

\* What a recorder was told: a confirmed name is durable before the answer, and a
\* refusal comes before the name is made.
LEMMA OutcomeStep ==
  ASSUME LedgerTypeOK, AttemptsAreApart, EntriesAreNamed, NamesFollowStep, OutcomesAreTrue,
         [HistoryNext]_historyVars
  PROVE  OutcomesAreTrue'
<1> USE HistoryAssumption DEF Attempt, Nobody
<1> SUFFICES ASSUME NEW b \in Attempt
             PROVE  /\ outcome'[b] = "recorded" => Entry("final", b)' \in durable'
                    /\ outcome'[b] = "not_recorded" => ~ Listed("final", b)'
  BY DEF OutcomesAreTrue
<1> DEFINE Good == /\ outcome'[b] = "recorded" => Entry("final", b)' \in durable'
                   /\ outcome'[b] = "not_recorded" => ~ Listed("final", b)'
<1>0. /\ b <= started => Entry("final", b)' = Entry("final", b)
      /\ Entry("final", b).attempt = b /\ Entry("final", b).kind = "final"
      /\ Entry("final", b)'.attempt = b
  BY EntryKept DEF Entry
<1>1. ASSUME NEW p \in Recorders, RecorderStep(p) PROVE Good
  <2> DEFINE a == proc[p].attempt
  <2>1. a \in Attempt /\ a # Nobody /\ a <= started /\ outcome[a] = "none"
    BY <1>1, OthersKept DEF AttemptsAreApart
  <2>2. CASE b # a
    <3>1. outcome'[b] = outcome[b]
      BY <1>1, <2>2, OthersKept
    <3>2. durable' \in {durable, ledger}
      BY <1>1 DEF RecorderStep, Lock, Scan, Create, Write, SyncFile, Link, Unlink, SyncDirectory,
                  Kill
    <3>3. outcome[b] # "none" => b <= started
      BY DEF AttemptsAreApart, LedgerTypeOK
    <3>4. Listed("final", b)' /\ b <= started => Listed("final", b)
      BY <1>0, <1>1, <2>2, OthersKept DEF Listed
    <3> QED
      BY <1>0, <3>1, <3>2, <3>3, <3>4 DEF OutcomesAreTrue, LedgerTypeOK
  <2>3. CASE b = a
    <3>1. ASSUME outcome'[b] = "recorded" PROVE Entry("final", b)' \in durable'
      <4>1. SyncDirectory(p) /\ durable' = ledger
        BY <1>1, <2>1, <2>3, <3>1
        DEF RecorderStep, Lock, Scan, Create, Write, SyncFile, Link, Unlink, SyncDirectory, Kill,
            NotRecorded, Unconfirmed, End, LedgerTypeOK
      <4>2. Listed("final", a)
        BY <2>1, <4>1 DEF SyncDirectory, NamesFollowStep, NamesAt
      <4> QED
        BY <1>0, <2>1, <2>3, <4>1, <4>2 DEF Listed
    <3>2. ASSUME outcome'[b] = "not_recorded" PROVE ~ Listed("final", b)'
      <4>1. /\ proc[p].step \in {"lock", "scan", "create", "write", "sync", "link"}
            /\ ledger' = ledger
        BY <1>1, <2>1, <2>3, <3>2
        DEF RecorderStep, Lock, Scan, Create, Write, SyncFile, Link, Unlink, SyncDirectory, Kill,
            NotRecorded, Unconfirmed, End, LedgerTypeOK
      <4>2. ~ Listed("final", a)
        BY <2>1, <4>1 DEF NamesFollowStep, NamesAt
      <4> QED
        BY <1>0, <2>1, <2>3, <4>1, <4>2 DEF Listed
    <3> QED
      BY <3>1, <3>2
  <2> QED
    BY <2>2, <2>3
<1>2. ASSUME NEW p \in Recorders, NEW i \in ReceiptIds, Record(p, i) PROVE Good
  <2>1. ledger' = ledger /\ durable' = durable
    BY <1>2 DEF Record
  <2>2. CASE b <= started
    <3>1. outcome'[b] = outcome[b]
      BY <1>2, <2>2 DEF Record, LedgerTypeOK
    <3> QED
      BY <1>0, <2>1, <2>2, <3>1 DEF OutcomesAreTrue, Listed
  <2>3. CASE b > started
    <3>1. outcome'[b] \in {"none", "not_recorded"}
      BY <1>2, <2>3 DEF Record, LedgerTypeOK, AttemptsAreApart
    <3>2. \A e \in ledger : e.attempt # b
      BY <2>3 DEF EntriesAreNamed, LedgerTypeOK
    <3> QED
      BY <1>0, <2>1, <3>1, <3>2 DEF Listed
  <2> QED
    BY <2>2, <2>3 DEF LedgerTypeOK
<1>3. CASE Crash
  <2>1. /\ durable \subseteq durable' /\ ledger' \subseteq ledger
        /\ Entry("final", b)' = Entry("final", b)
        /\ outcome'[b] \in {outcome[b], "killed"}
    BY <1>3 DEF Crash, LedgerTypeOK, Entry
  <2> QED
    BY <2>1 DEF OutcomesAreTrue, Listed
<1>4. ASSUME NEW p \in Recorders, Load(p) PROVE Good
  BY <1>4 DEF Load, OutcomesAreTrue, Listed, Entry
<1>5. CASE UNCHANGED historyVars
  BY <1>5 DEF historyVars, OutcomesAreTrue, Listed, Entry
<1> QED
  BY <1>1, <1>2, <1>3, <1>4, <1>5 DEF HistoryNext, RecorderStep

-----------------------------------------------------------------------------
(***************************************************************************)
(* Half publications.                                                      *)
(***************************************************************************)
\* Two names of one attempt are its temporary and its final one.
LEMMA TwoNames ==
  ASSUME LedgerTypeOK, EntriesAreNamed, NEW e \in ledger, NEW f \in ledger,
         e.attempt = f.attempt, e # f
  PROVE  e.attempt \in Attempt /\ Doubled(e.attempt)
BY DEF LedgerTypeOK, EntriesAreNamed, Entries, EntryKinds, Doubled, Listed

\* A scan passes only when no publication is half done.
LEMMA ScanSeesOneName ==
  ASSUME LedgerTypeOK, ScanOk, NEW b \in Attempt
  PROVE  ~ Doubled(b)
<1> SUFFICES ASSUME Doubled(b) PROVE FALSE
  OBVIOUS
<1> DEFINE S == {e \in ledger : e.attempt = b}
<1>1. /\ Entry("temp", b) \in S /\ Entry("final", b) \in S
      /\ Entry("temp", b) # Entry("final", b)
  BY EntryType DEF Doubled, Listed, EntryKinds, Entry
<1>2. Cardinality(S) = 1
  BY <1>1 DEF ScanOk, Links
<1>3. IsFiniteSet(S)
  BY FS_Subset DEF LedgerTypeOK
<1>4. \E x : S = {x}
  BY <1>2, <1>3, FS_Singleton
<1> QED
  BY <1>1, <1>4

\* Only the link call makes the second name.
LEMMA OnlyLinkDoubles ==
  ASSUME LedgerTypeOK, AttemptsAreApart, EntriesAreNamed, NamesFollowStep,
         [HistoryNext]_historyVars, NEW b \in Attempt, Doubled(b)'
  PROVE  Doubled(b) \/ \E p \in Recorders : Link(p) /\ proc[p].attempt = b
<1> USE HistoryAssumption DEF Attempt, Nobody
<1>1. Entry("temp", b)' \in ledger' /\ Entry("final", b)' \in ledger'
  BY DEF Doubled, Listed
<1>2. CASE b <= started
  <2>1. Entry("temp", b)' = Entry("temp", b) /\ Entry("final", b)' = Entry("final", b)
    BY <1>2, EntryKept
  <2>2. Entry("temp", b).attempt = b /\ Entry("final", b).attempt = b
        /\ Entry("final", b).kind = "final"
    BY DEF Entry
  <2>3. ASSUME NEW p \in Recorders, RecorderStep(p), ~ (Link(p) /\ proc[p].attempt = b)
        PROVE  Doubled(b)
    <3>1. CASE proc[p].attempt # b
      BY <1>1, <2>1, <2>2, <2>3, <3>1, OthersKept DEF Doubled, Listed
    <3>2. CASE proc[p].attempt = b /\ Create(p)
      <4>1. ~ Listed("final", b)
        BY <3>2 DEF Create, NamesFollowStep, NamesAt
      <4>2. ledger' \in {ledger, ledger \cup {Entry("temp", b)}}
        BY <3>2 DEF Create
      <4>3. Entry("final", b) # Entry("temp", b)
        BY DEF Entry
      <4> QED
        BY <1>1, <2>1, <4>1, <4>2, <4>3 DEF Listed
    <3>3. CASE ledger' \subseteq ledger
      BY <1>1, <2>1, <3>3 DEF Doubled, Listed
    <3> QED
      BY <2>3, <3>1, <3>2, <3>3
      DEF RecorderStep, Lock, Scan, Write, SyncFile, Unlink, SyncDirectory, Kill
  <2>4. CASE ledger' \subseteq ledger
    BY <1>1, <2>1, <2>4 DEF Doubled, Listed
  <2>5. CASE Crash
    BY <2>4, <2>5 DEF Crash, LedgerTypeOK
  <2> QED
    BY <2>3, <2>4, <2>5 DEF HistoryNext, RecorderStep, Record, Load, historyVars
<1>3. CASE b > started
  <2>1. \A e \in ledger : e.attempt # b
    BY <1>3 DEF EntriesAreNamed, LedgerTypeOK
  <2>2. Entry("temp", b)'.attempt = b
    BY DEF Entry
  <2>3. ASSUME NEW p \in Recorders, RecorderStep(p) PROVE FALSE
    <3>1. proc[p].attempt # b
      BY <1>3, PlaceOf DEF AttemptsAreApart, LedgerTypeOK
    <3> QED
      BY <1>1, <2>1, <2>2, <2>3, <3>1, OthersKept
  <2>4. CASE ledger' \subseteq ledger
    BY <1>1, <2>1, <2>2, <2>4
  <2>5. CASE Crash
    BY <2>4, <2>5 DEF Crash, LedgerTypeOK
  <2> QED
    BY <2>3, <2>4, <2>5 DEF HistoryNext, RecorderStep, Record, Load, historyVars
<1> QED
  BY <1>2, <1>3 DEF LedgerTypeOK

LEMMA HalfStep ==
  ASSUME LedgerTypeOK, LockIsExclusive, AttemptsAreApart, EntriesAreNamed, NamesFollowStep,
         OneHalfPublication, [HistoryNext]_historyVars
  PROVE  OneHalfPublication'
<1> USE HistoryAssumption DEF Attempt, Nobody
<1> DEFINE Past == {"create", "write", "sync", "link", "dirsync"}
<1>1. ASSUME NEW a \in Attempt, NEW b \in Attempt, Doubled(a)', Doubled(b)' PROVE a = b
  <2>1. ASSUME NEW p \in Recorders, Link(p) PROVE \A c \in Attempt : ~ Doubled(c)
    BY <2>1 DEF Link, OneHalfPublication
  <2>2. ASSUME NEW p \in Recorders, Link(p), NEW q \in Recorders, Link(q) PROVE p = q
    BY <2>2 DEF Link, LockIsExclusive, Critical
  <2> QED
    BY <1>1, <2>1, <2>2, OnlyLinkDoubles DEF OneHalfPublication
<1>2. ASSUME NEW q \in Recorders, proc'[q].step \in Past, NEW b \in Attempt, Doubled(b)'
      PROVE  FALSE
  <2>1. ASSUME NEW r \in Recorders, Link(r) PROVE FALSE
    <3>1. RecorderStep(r) /\ proc[r].step = "link"
      BY <2>1 DEF RecorderStep, Link
    <3>2. proc'[r].step \in {"unlink", "idle"}
      BY <2>1, PlaceOf, PlaceType, IdleType
      DEF Link, NotRecorded, Unconfirmed, End, Goto, LedgerTypeOK, Steps
    <3>3. q # r /\ proc[q].step \in Past
      BY <1>2, <3>1, <3>2, OthersKept
    <3> QED
      BY <3>1, <3>3 DEF LockIsExclusive, Critical
  <2>2. Doubled(b)
    BY <1>2, <2>1, OnlyLinkDoubles
  <2>3. proc[q].step \notin Past
    BY <2>2 DEF OneHalfPublication
  <2>4. Scan(q) \/ Unlink(q)
    <3>1. ASSUME NEW p \in Recorders, RecorderStep(p) PROVE p = q
      BY <1>2, <2>3, <3>1, OthersKept
    <3>2. ASSUME NEW p \in Recorders, NEW i \in ReceiptIds, Record(p, i) PROVE FALSE
      <4>1. At("lock", started + 1).step = "lock"
        BY DEF At
      <4> QED
        BY <1>2, <2>3, <3>2, <4>1 DEF Record, LedgerTypeOK
    <3>3. ASSUME Crash PROVE FALSE
      BY <1>2, <3>3, IdleType DEF Crash
    <3>4. RecorderStep(q)
      BY <1>2, <2>3, <3>1, <3>2, <3>3 DEF HistoryNext, RecorderStep, Load, historyVars
    <3>5. ASSUME NEW result, End(q, result) PROVE FALSE
      BY <1>2, <3>5, IdleType DEF End, LedgerTypeOK
    <3>6. ASSUME NEW s \in Steps, Goto(q, s) PROVE proc'[q].step = s
      BY <3>6, PlaceOf, PlaceType DEF Goto, LedgerTypeOK
    <3> QED
      BY <1>2, <2>3, <3>4, <3>5, <3>6
      DEF RecorderStep, Lock, Create, Write, SyncFile, Link, SyncDirectory, Kill,
          NotRecorded, Unconfirmed, Steps
  <2>5. CASE Scan(q)
    <3>1. ~ ScanOk
      BY <2>2, ScanSeesOneName
    <3>2. End(q, "not_recorded")
      BY <2>5, <3>1 DEF Scan, NotRecorded
    <3> QED
      BY <1>2, <3>2, IdleType DEF End, LedgerTypeOK
  <2>6. CASE Unlink(q)
    <3> PICK a \in Attempt : a = proc[q].attempt
      BY <2>6, OthersKept DEF RecorderStep
    <3>1. Doubled(a) /\ receipt' = receipt
      BY <2>6 DEF Unlink, NamesFollowStep, NamesAt, Doubled
    <3>2. a = b
      BY <2>2, <3>1 DEF OneHalfPublication
    <3>3. ~ End(q, "unconfirmed")
      BY <1>2, IdleType DEF End, LedgerTypeOK
    <3>4. ledger' = ledger \ {Entry("temp", a)} /\ Entry("temp", a)' = Entry("temp", a)
      BY <2>6, <3>1, <3>3 DEF Unlink, Unconfirmed, Entry
    <3> QED
      BY <1>2, <3>2, <3>4 DEF Doubled, Listed
  <2> QED
    BY <2>4, <2>5, <2>6
<1> QED
  BY <1>1, <1>2 DEF OneHalfPublication

-----------------------------------------------------------------------------
(***************************************************************************)
(* Quotas.  FullNames are the entries that TotalBytes counts.              *)
(***************************************************************************)
FullNames == {e \in ledger : body[e.attempt] = "full"}

LEMMA InodesCount ==
  ASSUME NEW S, IsFiniteSet(S)
  PROVE  /\ IsFiniteSet(Inodes(S))
         /\ Cardinality(Inodes(S)) \in Nat /\ Cardinality(S) \in Nat
         /\ Cardinality(Inodes(S)) <= Cardinality(S)
<1> DEFINE f == [e \in S |-> e.attempt]
<1>1. f \in Surjection(S, Inodes(S))
  BY DEF Surjection, Inodes
<1> QED
  BY <1>1, FS_Surjection, FS_CardinalityType

\* Without a second name there are as many inodes as names.
LEMMA NamesCount ==
  ASSUME NEW S, IsFiniteSet(S), \A e, f \in S : e.attempt = f.attempt => e = f
  PROVE  Cardinality(S) <= Cardinality(Inodes(S))
<1> DEFINE g == [e \in S |-> e.attempt]
<1>1. g \in Injection(S, Inodes(S))
  BY DEF Injection, IsInjective, Inodes
<1> QED
  BY <1>1, InodesCount, FS_Injection

LEMMA TimesMonotone ==
  ASSUME NEW m \in Nat, NEW n \in Nat, m <= n
  PROVE  /\ m * ReceiptBytes <= n * ReceiptBytes
         /\ (m + 1) * ReceiptBytes = m * ReceiptBytes + ReceiptBytes
<1> PICK k \in Nat : k = ReceiptBytes
  BY HistoryAssumption
<1>1. PICK d \in Nat : n = m + d
  BY SMT
<1>2. n * k = m * k + d * k /\ d * k \in Nat /\ m * k \in Nat
  BY <1>1, SMT
<1> QED
  BY <1>2, SMT

LEMMA FullCount ==
  ASSUME LedgerTypeOK
  PROVE  /\ FullInodes = Inodes(FullNames)
         /\ IsFiniteSet(FullNames) /\ IsFiniteSet(FullInodes) /\ IsFiniteSet(Inodes(ledger))
         /\ Cardinality(FullNames) \in Nat /\ Cardinality(FullInodes) \in Nat
         /\ Cardinality(Inodes(ledger)) \in Nat /\ Cardinality(ledger) \in Nat
         /\ Cardinality(FullInodes) <= Cardinality(FullNames)
         /\ Cardinality(Inodes(ledger)) <= Cardinality(ledger)
         /\ TotalBytes = Cardinality(FullNames) * ReceiptBytes
<1>1. FullInodes = Inodes(FullNames)
  BY DEF FullInodes, FullNames, Inodes
<1>2. IsFiniteSet(FullNames)
  BY FS_Subset DEF FullNames, LedgerTypeOK
<1> QED
  BY <1>1, <1>2, InodesCount DEF LedgerTypeOK, TotalBytes, FullNames

\* When the inodes do not grow, the quotas they meet stay met.
LEMMA FewerInodes ==
  ASSUME LedgerTypeOK, LedgerTypeOK',
         Inodes(ledger)' \subseteq Inodes(ledger), FullInodes' \subseteq FullInodes
  PROVE  /\ Cardinality(Inodes(ledger)') <= Cardinality(Inodes(ledger))
         /\ Cardinality(FullInodes') <= Cardinality(FullInodes)
         /\ Cardinality(FullInodes') * ReceiptBytes <= Cardinality(FullInodes) * ReceiptBytes
         /\ (Cardinality(FullInodes') + 1) * ReceiptBytes
               <= (Cardinality(FullInodes) + 1) * ReceiptBytes
<1>1. /\ Cardinality(Inodes(ledger)') <= Cardinality(Inodes(ledger))
      /\ Cardinality(FullInodes') <= Cardinality(FullInodes)
      /\ Cardinality(FullInodes') \in Nat /\ Cardinality(FullInodes) \in Nat
  BY FullCount, FS_Subset, FS_CardinalityType
<1> QED
  BY <1>1, TimesMonotone

LEMMA RoomStep ==
  ASSUME LedgerTypeOK, LockIsExclusive, AttemptsAreApart, EntriesAreNamed, NamesFollowStep,
         RoomIsLeft, [HistoryNext]_historyVars, LedgerTypeOK'
  PROVE  RoomIsLeft'
<1> USE HistoryAssumption DEF Attempt, Nobody
<1> DEFINE I == Cardinality(Inodes(ledger))
           F == Cardinality(FullInodes)
           Fewer == Inodes(ledger)' \subseteq Inodes(ledger) /\ FullInodes' \subseteq FullInodes
           Room(q) == /\ proc[q].step = "create" => I < MaxEntries
                      /\ proc[q].step \in {"create", "write"}
                            => (F + 1) * ReceiptBytes <= MaxLedgerBytes
<1>1. I \in Nat /\ F \in Nat /\ I' \in Nat /\ F' \in Nat
  <2>1. IsFiniteSet(Inodes(ledger')) /\ Cardinality(Inodes(ledger')) \in Nat
    BY InodesCount DEF LedgerTypeOK
  <2>2. FullInodes' \subseteq Inodes(ledger')
    BY DEF FullInodes
  <2>3. IsFiniteSet(FullInodes')
    BY <2>1, <2>2, FS_Subset
  <2>4. Cardinality(FullInodes') \in Nat
    BY <2>3, FS_CardinalityType
  <2> QED
    BY <2>1, <2>4, FullCount
<1>2. ASSUME Fewer,
             \A q \in Recorders : \/ proc'[q].step \notin {"create", "write"}
                                  \/ proc'[q].step = proc[q].step
                                  \/ Room(q)'
      PROVE  RoomIsLeft'
  <2>1. /\ I' <= I /\ F' <= F /\ F' * ReceiptBytes <= F * ReceiptBytes
        /\ (F' + 1) * ReceiptBytes <= (F + 1) * ReceiptBytes
    BY <1>2, FewerInodes
  <2>2. /\ F * ReceiptBytes \in Nat /\ F' * ReceiptBytes \in Nat
        /\ (F + 1) * ReceiptBytes \in Nat /\ (F' + 1) * ReceiptBytes \in Nat
    BY <1>1
  <2> HIDE DEF I, F
  <2>3. I' <= MaxEntries /\ F' * ReceiptBytes <= MaxLedgerBytes
    BY <1>1, <2>1, <2>2 DEF RoomIsLeft, I, F
  <2>4. \A q \in Recorders : Room(q)'
    BY <1>1, <1>2, <2>1, <2>2 DEF RoomIsLeft, I, F
  <2> QED
    BY <2>3, <2>4 DEF RoomIsLeft, I, F
<1>3. ASSUME ledger' = ledger, body' = body PROVE Fewer
  BY <1>3 DEF FullInodes, Inodes
<1>4. ASSUME NEW p \in Recorders, NEW i \in ReceiptIds, Record(p, i) PROVE RoomIsLeft'
  <2>1. \A q \in Recorders : proc'[q].step \in {proc[q].step, "lock"}
    <3>1. At("lock", started + 1).step = "lock"
      BY DEF At
    <3> QED
      BY <1>4, <3>1 DEF Record, LedgerTypeOK
  <2> QED
    BY <1>2, <1>3, <1>4, <2>1 DEF Record
<1>5. ASSUME NEW p \in Recorders, RecorderStep(p), Fewer,
             proc'[p].step \in {"create", "write"} => Room(p)'
      PROVE  RoomIsLeft'
  BY <1>2, <1>5, OthersKept
<1>6. ASSUME NEW p \in Recorders, NEW result, End(p, result) PROVE proc'[p].step = "idle"
  BY <1>6, IdleType DEF End, LedgerTypeOK
<1>7. ASSUME NEW p \in Recorders, NEW s \in Steps, Goto(p, s) PROVE proc'[p].step = s
  BY <1>7, PlaceOf, PlaceType DEF Goto, LedgerTypeOK
<1>8. ASSUME NEW p \in Recorders, Lock(p) \/ SyncFile(p) \/ SyncDirectory(p) \/ Kill(p)
      PROVE  RoomIsLeft'
  <2>1. ledger' = ledger /\ body' = body /\ RecorderStep(p)
    BY <1>8 DEF Lock, SyncFile, SyncDirectory, Kill, RecorderStep
  <2>2. proc'[p].step \notin {"create", "write"}
    BY <1>6, <1>7, <1>8
    DEF Lock, SyncFile, SyncDirectory, Kill, NotRecorded, Unconfirmed, Steps
  <2> QED
    BY <1>3, <1>5, <2>1, <2>2
<1>9. ASSUME NEW p \in Recorders, Scan(p) PROVE RoomIsLeft'
  <2>1. ledger' = ledger /\ body' = body /\ RecorderStep(p)
    BY <1>9 DEF Scan, RecorderStep
  <2>2. CASE End(p, "not_recorded")
    BY <1>3, <1>5, <1>6, <2>1, <2>2
  <2>3. CASE Goto(p, "create") /\ Cardinality(ledger) < MaxEntries
             /\ TotalBytes + ReceiptBytes <= MaxLedgerBytes
    <3>1. I < MaxEntries
      BY <2>3, FullCount
    <3>2. (F + 1) * ReceiptBytes <= MaxLedgerBytes
      <4>1. /\ F <= Cardinality(FullNames) /\ Cardinality(FullNames) \in Nat
            /\ TotalBytes = Cardinality(FullNames) * ReceiptBytes
        BY FullCount
      <4>2. /\ F * ReceiptBytes <= TotalBytes
            /\ (F + 1) * ReceiptBytes = F * ReceiptBytes + ReceiptBytes
        BY <1>1, <4>1, TimesMonotone
      <4>3. F * ReceiptBytes \in Nat /\ TotalBytes \in Nat
        BY <1>1, <4>1
      <4> QED
        BY <2>3, <4>2, <4>3
    <3>3. I' = I /\ F' = F
      BY <2>1 DEF FullInodes, Inodes
    <3> QED
      BY <1>3, <1>5, <2>1, <3>1, <3>2, <3>3
  <2>4. ~ (Cardinality(ledger) >= MaxEntries) => Cardinality(ledger) < MaxEntries
    BY FullCount
  <2>5. ~ (TotalBytes + ReceiptBytes > MaxLedgerBytes)
          => TotalBytes + ReceiptBytes <= MaxLedgerBytes
    <3>1. TotalBytes \in Nat
      BY FullCount
    <3> QED
      BY <3>1
  <2> QED
    BY <1>9, <2>2, <2>3, <2>4, <2>5 DEF Scan, NotRecorded
<1>10. ASSUME NEW p \in Recorders, Create(p) PROVE RoomIsLeft'
  <2> PICK a \in Attempt : a = proc[p].attempt
    BY <1>10, OthersKept DEF RecorderStep
  <2>1. RecorderStep(p) /\ proc[p].step = "create"
    BY <1>10 DEF Create, RecorderStep
  <2>2. CASE End(p, "not_recorded") /\ UNCHANGED <<ledger, body>>
    BY <1>3, <1>5, <1>6, <2>1, <2>2
  <2>3. CASE /\ ledger' = ledger \cup {Entry("temp", a)} /\ body' = [body EXCEPT ![a] = "empty"]
             /\ Goto(p, "write")
    <3>1. Entry("temp", a).attempt = a
      BY DEF Entry
    <3>2. Inodes(ledger)' = Inodes(ledger) \cup {a}
      BY <2>3, <3>1 DEF Inodes
    <3>3. FullInodes' \subseteq FullInodes
      <4>1. Inodes(ledger) \subseteq Attempt
        BY DEF Inodes, LedgerTypeOK, Entries
      <4> QED
        BY <2>3, <3>2, <4>1 DEF FullInodes, LedgerTypeOK
    <3>4. I < MaxEntries /\ (F + 1) * ReceiptBytes <= MaxLedgerBytes
      BY <2>1 DEF RoomIsLeft
    <3>5. I' <= I + 1
      <4>1. Cardinality(Inodes(ledger) \cup {a}) \in {I, I + 1}
        BY FullCount, FS_AddElement
      <4> QED
        BY <1>1, <3>2, <4>1
    <3>6. F' <= F
      BY <3>3, FullCount, FS_Subset
    <3>7. /\ F' * ReceiptBytes <= F * ReceiptBytes
          /\ (F' + 1) * ReceiptBytes <= (F + 1) * ReceiptBytes
      BY <1>1, <3>6, TimesMonotone
    <3>8. F * ReceiptBytes <= MaxLedgerBytes
      BY DEF RoomIsLeft
    <3>9. /\ F * ReceiptBytes \in Nat /\ F' * ReceiptBytes \in Nat
          /\ (F + 1) * ReceiptBytes \in Nat /\ (F' + 1) * ReceiptBytes \in Nat
      BY <1>1
    <3>10. \A q \in Recorders : proc'[q].step # "create"
      BY <1>7, <2>1, <2>3, OthersKept DEF LockIsExclusive, Critical, Steps
    <3> HIDE DEF I, F
    <3>11. I' <= MaxEntries
      BY <1>1, <3>4, <3>5
    <3>12. F' * ReceiptBytes <= MaxLedgerBytes
      BY <3>7, <3>8, <3>9
    <3>13. (F' + 1) * ReceiptBytes <= MaxLedgerBytes
      BY <3>4, <3>7, <3>9
    <3> QED
      BY <3>10, <3>11, <3>12, <3>13 DEF RoomIsLeft, I, F
  <2> QED
    BY <1>10, <2>2, <2>3 DEF Create, NotRecorded
<1>11. ASSUME NEW p \in Recorders, Write(p) PROVE RoomIsLeft'
  <2> PICK a \in Attempt : a = proc[p].attempt
    BY <1>11, OthersKept DEF RecorderStep
  <2>1. RecorderStep(p) /\ proc[p].step = "write" /\ ledger' = ledger
    BY <1>11 DEF Write, RecorderStep
  <2>2. CASE End(p, "not_recorded") /\ body' = [body EXCEPT ![a] = "part"]
    <3>1. Fewer
      BY <2>1, <2>2 DEF FullInodes, Inodes, LedgerTypeOK
    <3> QED
      BY <1>5, <1>6, <2>1, <2>2, <3>1
  <2>3. CASE Goto(p, "sync") /\ body' = [body EXCEPT ![a] = "full"]
    <3>1. Inodes(ledger)' = Inodes(ledger) /\ FullInodes' \subseteq FullInodes \cup {a}
      BY <2>1, <2>3 DEF FullInodes, Inodes, LedgerTypeOK
    <3>2. I' = I
      BY <3>1
    <3>3. F' <= F + 1
      <4>0. Cardinality(FullInodes \cup {a}) \in {F, F + 1} /\ IsFiniteSet(FullInodes \cup {a})
        BY FullCount, FS_AddElement
      <4>1. IsFiniteSet(FullInodes \cup {a}) /\ Cardinality(FullInodes \cup {a}) <= F + 1
        BY <1>1, <4>0
      <4>2. F' <= Cardinality(FullInodes \cup {a}) /\ Cardinality(FullInodes \cup {a}) \in Nat
        BY <3>1, <4>1, FS_Subset, FS_CardinalityType
      <4> QED
        BY <1>1, <4>1, <4>2
    <3>4. F' * ReceiptBytes <= (F + 1) * ReceiptBytes /\ (F + 1) * ReceiptBytes <= MaxLedgerBytes
      BY <1>1, <2>1, <3>3, TimesMonotone DEF RoomIsLeft
    <3>5. F' * ReceiptBytes \in Nat /\ (F + 1) * ReceiptBytes \in Nat
      BY <1>1
    <3>6. \A q \in Recorders : proc'[q].step \notin {"create", "write"}
      BY <1>7, <2>1, <2>3, OthersKept DEF LockIsExclusive, Critical, Steps
    <3> HIDE DEF I, F
    <3>7. I' <= MaxEntries /\ F' * ReceiptBytes <= MaxLedgerBytes
      BY <1>1, <3>2, <3>4, <3>5 DEF RoomIsLeft, I, F
    <3> QED
      BY <3>6, <3>7 DEF RoomIsLeft, I, F
  <2> QED
    BY <1>11, <2>2, <2>3 DEF Write, NotRecorded
<1>12. ASSUME NEW p \in Recorders, Link(p) \/ Unlink(p) PROVE RoomIsLeft'
  <2> PICK a \in Attempt : a = proc[p].attempt
    BY <1>12, OthersKept DEF RecorderStep
  <2>1. RecorderStep(p) /\ proc[p].step \in {"link", "unlink"} /\ body' = body
    BY <1>12 DEF Link, Unlink, RecorderStep
  <2>2. Listed("temp", a) /\ Entry("temp", a).attempt = a /\ Entry("final", a).attempt = a
    BY <2>1 DEF NamesFollowStep, NamesAt, Entry
  <2>3. ledger' \subseteq ledger \cup {Entry("final", a)}
    BY <1>12 DEF Link, Unlink
  <2>4. Inodes(ledger)' \subseteq Inodes(ledger)
    BY <2>2, <2>3 DEF Inodes, Listed
  <2>5. Fewer
    BY <2>1, <2>4 DEF FullInodes
  <2>6. proc'[p].step \notin {"create", "write"}
    BY <1>6, <1>7, <1>12 DEF Link, Unlink, NotRecorded, Unconfirmed, Steps
  <2> QED
    BY <1>5, <2>1, <2>5, <2>6
<1>13. ASSUME NEW p \in Recorders, Load(p) PROVE RoomIsLeft'
  BY <1>2, <1>3, <1>13 DEF Load
<1>14. CASE Crash
  <2>1. ledger' \subseteq ledger /\ \A q \in Recorders : proc'[q].step = "idle"
    BY <1>14, IdleType DEF Crash, LedgerTypeOK
  <2>2. \A a \in Attempt : body'[a] = "full" => body[a] = "full"
    BY <1>14 DEF Crash
  <2>3. Fewer
    BY <2>1, <2>2 DEF FullInodes, Inodes, LedgerTypeOK, Entries
  <2> QED
    BY <1>2, <2>1, <2>3
<1>15. CASE UNCHANGED historyVars
  BY <1>2, <1>3, <1>15 DEF historyVars
<1> QED
  BY <1>4, <1>8, <1>9, <1>10, <1>11, <1>12, <1>13, <1>14, <1>15 DEF HistoryNext

-----------------------------------------------------------------------------
(***************************************************************************)
(* What the invariant says of the properties.                              *)
(***************************************************************************)
\* Among the names counted, the temporary one of a half publication is the only
\* name too many.
LEMMA OneNameTooMany ==
  ASSUME LedgerTypeOK, EntriesAreNamed, OneHalfPublication, NEW S \in SUBSET ledger
  PROVE  /\ IsFiniteSet(S) /\ IsFiniteSet(Inodes(S))
         /\ Cardinality(S) \in Nat /\ Cardinality(Inodes(S)) \in Nat
         /\ Cardinality(S) <= Cardinality(Inodes(S)) + 1
         /\ (\A b \in Attempt : ~ Doubled(b)) => Cardinality(S) <= Cardinality(Inodes(S))
<1>1. IsFiniteSet(S)
  BY FS_Subset DEF LedgerTypeOK
<1>2. IsFiniteSet(Inodes(S)) /\ Cardinality(S) \in Nat /\ Cardinality(Inodes(S)) \in Nat
  BY <1>1, InodesCount
<1>3. ASSUME \A b \in Attempt : ~ Doubled(b)
      PROVE  Cardinality(S) <= Cardinality(Inodes(S))
  <2>1. \A e, f \in S : e.attempt = f.attempt => e = f
    BY <1>3, TwoNames
  <2> QED
    BY <1>1, <2>1, NamesCount
<1>4. ASSUME NEW b \in Attempt, Doubled(b)
      PROVE  Cardinality(S) <= Cardinality(Inodes(S)) + 1
  <2> DEFINE t == Entry("temp", b)
             R == S \ {t}
  <2>1. IsFiniteSet(R) /\ Cardinality(S) <= Cardinality(R) + 1
    <3>1. IsFiniteSet(R) /\ Cardinality(R) = IF t \in S THEN Cardinality(S) - 1 ELSE Cardinality(S)
      BY <1>1, FS_RemoveElement
    <3> QED
      BY <1>2, <3>1
  <2>2. \A e, f \in R : e.attempt = f.attempt => e = f
    <3> SUFFICES ASSUME NEW e \in R, NEW f \in R, e.attempt = f.attempt, e # f PROVE FALSE
      OBVIOUS
    <3>1. e.attempt = b
      BY <1>4, TwoNames DEF OneHalfPublication
    <3>2. /\ e = Entry(e.kind, b) /\ f = Entry(f.kind, b)
          /\ e.kind \in EntryKinds /\ f.kind \in EntryKinds
      BY <3>1 DEF EntriesAreNamed, LedgerTypeOK, Entries
    <3> QED
      BY <3>2 DEF EntryKinds
  <2>3. Cardinality(R) <= Cardinality(Inodes(R)) /\ IsFiniteSet(Inodes(R))
        /\ Cardinality(R) \in Nat /\ Cardinality(Inodes(R)) \in Nat
    BY <2>1, <2>2, NamesCount, InodesCount
  <2>4. Inodes(R) \subseteq Inodes(S)
    BY DEF Inodes
  <2>5. Cardinality(Inodes(R)) <= Cardinality(Inodes(S))
    BY <1>2, <2>4, FS_Subset
  <2> QED
    BY <1>2, <2>1, <2>3, <2>5
<1>5. (\A b \in Attempt : ~ Doubled(b)) => Cardinality(S) <= Cardinality(Inodes(S)) + 1
  BY <1>2, <1>3
<1> QED
  BY <1>1, <1>2, <1>3, <1>4, <1>5

LEMMA LedgerIsWithinQuotas ==
  ASSUME LedgerInvariant
  PROVE  /\ LedgerIsBounded
         /\ (\A b \in Attempt : ~ Doubled(b)) => /\ Cardinality(ledger) <= MaxEntries
                                                 /\ TotalBytes <= MaxLedgerBytes
<1> USE HistoryAssumption DEF LedgerInvariant
<1> DEFINE I == Cardinality(Inodes(ledger))
           F == Cardinality(FullInodes)
           N == Cardinality(FullNames)
           Apart == \A b \in Attempt : ~ Doubled(b)
<1>1. /\ I \in Nat /\ F \in Nat /\ N \in Nat /\ FullInodes = Inodes(FullNames)
      /\ Cardinality(ledger) \in Nat /\ TotalBytes = N * ReceiptBytes
  BY FullCount
<1>2. Cardinality(ledger) <= I + 1 /\ (Apart => Cardinality(ledger) <= I)
  BY OneNameTooMany
<1>3. N <= F + 1 /\ (Apart => N <= F)
  <2>1. FullNames \in SUBSET ledger
    BY DEF FullNames
  <2> QED
    BY <1>1, <2>1, OneNameTooMany
<1>4. I <= MaxEntries /\ F * ReceiptBytes <= MaxLedgerBytes
  BY DEF RoomIsLeft
<1>5. /\ N * ReceiptBytes \in Nat /\ F * ReceiptBytes \in Nat
      /\ (F + 1) * ReceiptBytes \in Nat
      /\ (F + 1) * ReceiptBytes = F * ReceiptBytes + ReceiptBytes
  BY <1>1, TimesMonotone
<1>6. N * ReceiptBytes <= (F + 1) * ReceiptBytes
  BY <1>1, <1>3, TimesMonotone
<1>7. Apart => N * ReceiptBytes <= F * ReceiptBytes
  BY <1>1, <1>3, TimesMonotone
<1> HIDE DEF I, F, N, Apart
<1>8. Cardinality(ledger) <= MaxEntries + 1 /\ (Apart => Cardinality(ledger) <= MaxEntries)
  BY <1>1, <1>2, <1>4
<1>9. TotalBytes <= MaxLedgerBytes + ReceiptBytes
  BY <1>1, <1>4, <1>5, <1>6
<1>10. Apart => TotalBytes <= MaxLedgerBytes
  BY <1>1, <1>4, <1>5, <1>7
<1> QED
  BY <1>8, <1>9, <1>10 DEF LedgerIsBounded, Apart

LEMMA HalfPublicationBlocks ==
  ASSUME LedgerInvariant
  PROVE  OnlyHalfPublicationBlocks
<1> USE DEF LedgerInvariant
<1>1. ASSUME NEW b \in Attempt, Doubled(b) PROVE \E e \in ledger : Links(e.attempt) = 2
  <2> DEFINE t == Entry("temp", b)
             f == Entry("final", b)
  <2>1. t \in ledger /\ f \in ledger /\ t # f /\ t.attempt = b /\ f.attempt = b
    BY <1>1 DEF Doubled, Listed, Entry
  <2>2. {e \in ledger : e.attempt = b} = {t} \cup {f}
    <3>1. \A e \in ledger : e.attempt = b => e \in {t, f}
      BY DEF EntriesAreNamed, LedgerTypeOK, Entries, EntryKinds
    <3> QED
      BY <2>1, <3>1
  <2>3. Cardinality({t} \cup {f}) = 2
    <3>1. IsFiniteSet({t}) /\ Cardinality({t}) = 1
      BY FS_Singleton
    <3> HIDE DEF t, f
    <3>2. f \notin {t}
      BY <2>1
    <3>3. Cardinality({t} \cup {f}) = Cardinality({t}) + 1
      BY <3>1, <3>2, FS_AddElement, Zenon
    <3> QED
      BY <3>1, <3>3
  <2>4. Links(b) = 2
    BY <2>2, <2>3 DEF Links
  <2> QED
    BY <2>1, <2>4
<1>2. ASSUME \A b \in Attempt : ~ Doubled(b) PROVE LoadOk
  <2>1. ASSUME NEW e \in ledger PROVE Links(e.attempt) = 1
    <3>1. {g \in ledger : g.attempt = e.attempt} = {e}
      BY <1>2, <2>1, TwoNames
    <3> QED
      BY <3>1, FS_Singleton DEF Links
  <2>2. ScanOk
    BY <1>2, <2>1, LedgerIsWithinQuotas DEF ScanOk
  <2>3. \A e \in Receipts : Parses(e.attempt)
    BY DEF Receipts, Parses, ObservationParses, FinalsAreWhole
  <2> QED
    BY <2>2, <2>3 DEF LoadOk
<1> QED
  BY <1>1, <1>2 DEF OnlyHalfPublicationBlocks

LEMMA InvariantStep ==
  ASSUME LedgerInvariant, [HistoryNext]_historyVars
  PROVE  LedgerInvariant'
<1> USE DEF LedgerInvariant
<1>1. LedgerTypeOK' /\ LockIsExclusive' /\ AttemptsAreApart' /\ EntriesAreNamed'
  BY TypeStep, LockStep, ApartStep, NamedStep
<1>2. NamesFollowStep' /\ FinalsAreWhole' /\ OutcomesAreTrue'
  BY NamesStep, WholeStep, OutcomeStep
<1>3. OneHalfPublication' /\ RoomIsLeft'
  BY <1>1, HalfStep, RoomStep
<1> QED
  BY <1>1, <1>2, <1>3

LEMMA InvariantInit == HistoryInit => LedgerInvariant
<1> SUFFICES ASSUME HistoryInit PROVE LedgerInvariant
  OBVIOUS
<1> USE HistoryAssumption DEF HistoryInit, Attempt, Nobody
<1>1. \A p \in Recorders : proc[p] \in Places /\ proc[p].step = "idle" /\ proc[p].attempt = 0
  BY IdleType
<1>2. LedgerTypeOK
  BY <1>1, IdleType, FS_EmptySet DEF LedgerTypeOK, Bodies, Outcomes
<1>3. LockIsExclusive /\ AttemptsAreApart /\ NamesFollowStep
  BY <1>1 DEF LockIsExclusive, AttemptsAreApart, NamesFollowStep, NamesAt, Critical
<1>4. EntriesAreNamed /\ FinalsAreWhole /\ OutcomesAreTrue
  BY DEF EntriesAreNamed, FinalsAreWhole, OutcomesAreTrue
<1>5. OneHalfPublication
  BY <1>1 DEF OneHalfPublication, Doubled, Listed
<1>6. Inodes(ledger) = {} /\ FullInodes = {}
  BY DEF FullInodes, Inodes
<1>7. RoomIsLeft
  <2>1. Cardinality(Inodes(ledger)) = 0 /\ Cardinality(FullInodes) = 0
    BY <1>6, FS_EmptySet
  <2> QED
    BY <1>1, <2>1 DEF RoomIsLeft
<1> QED
  BY <1>2, <1>3, <1>4, <1>5, <1>7 DEF LedgerInvariant

\* The inductive invariant of the ledger: who holds the lock, which names an
\* attempt has at each step, what was made durable before it was reported, and
\* the room that is left, through kills and power failures at any point.
THEOREM LedgerInvariance == HistorySpec => []LedgerInvariant
BY InvariantInit, InvariantStep, PTL DEF HistorySpec

\* Two recorders are never both between the lock and their answer: what one of
\* them scanned is what it adds to (PinnedHistory::lock).
THEOREM OneRecorderAtATime ==
  HistorySpec => [](\A p, q \in Recorders :
                      proc[p].step \in Critical /\ proc[q].step \in Critical => p = q)
<1>1. LedgerInvariant => \A p, q \in Recorders :
                           proc[p].step \in Critical /\ proc[q].step \in Critical => p = q
  BY DEF LedgerInvariant, LockIsExclusive
<1> QED
  BY <1>1, LedgerInvariance, PTL

\* A receipt reported as recorded is in the ledger from then on, durably, and in
\* every history that loads; one reported as not recorded never is; only a
\* publication interrupted between link and unlink makes the ledger unreadable;
\* and the ledger stays within its quotas, with any number of recorders, attempts,
\* kills and power failures (record_with_id, load_verification_history).
THEOREM LedgerTrue == HistorySpec => LedgerIsTrue
<1>1. LedgerInvariant => /\ RecordedSurvives /\ NotRecordedIsAbsent
                         /\ OnlyHalfPublicationBlocks /\ LedgerIsBounded
  <2> SUFFICES ASSUME LedgerInvariant
               PROVE  /\ RecordedSurvives /\ NotRecordedIsAbsent
                      /\ OnlyHalfPublicationBlocks /\ LedgerIsBounded
    OBVIOUS
  <2>1. RecordedSurvives
    <3> SUFFICES ASSUME NEW a \in Attempt, outcome[a] = "recorded"
                 PROVE  Entry("final", a) \in ledger /\ body[a] = "full"
      BY DEF RecordedSurvives
    <3>1. Entry("final", a) \in ledger
      BY DEF LedgerInvariant, OutcomesAreTrue, LedgerTypeOK
    <3>2. Entry("final", a).kind = "final" /\ Entry("final", a).attempt = a
      BY DEF Entry
    <3> QED
      BY <3>1, <3>2 DEF LedgerInvariant, FinalsAreWhole
  <2>2. NotRecordedIsAbsent
    BY DEF LedgerInvariant, OutcomesAreTrue, NotRecordedIsAbsent, Listed
  <2> QED
    BY <2>1, <2>2, HalfPublicationBlocks, LedgerIsWithinQuotas
<1>2. LedgerInvariant /\ [HistoryNext]_historyVars =>
        (history' # history /\ history'.status = "ok" =>
           \A a \in Attempt : /\ outcome[a] = "recorded" => a \in history'.receipts
                              /\ outcome[a] = "not_recorded" => a \notin history'.receipts)
  <2> SUFFICES ASSUME LedgerInvariant, [HistoryNext]_historyVars,
                      history' # history, history'.status = "ok", NEW a \in Attempt
               PROVE  /\ outcome[a] = "recorded" => a \in history'.receipts
                      /\ outcome[a] = "not_recorded" => a \notin history'.receipts
    OBVIOUS
  <2>1. PICK p \in Recorders : Load(p)
    BY DEF HistoryNext, Record, Lock, Scan, Create, Write, SyncFile, Link, Unlink, SyncDirectory,
           Kill, Crash, historyVars
  <2>2. history'.receipts = {e.attempt : e \in Receipts}
    BY <2>1 DEF Load
  <2>3. a \in history'.receipts <=> Listed("final", a)
    <3>1. Entry("final", a).kind = "final" /\ Entry("final", a).attempt = a
      BY DEF Entry
    <3>2. \A e \in Receipts : e.attempt = a => e = Entry("final", a) /\ e \in ledger
      BY DEF Receipts, LedgerInvariant, EntriesAreNamed
    <3> QED
      BY <2>2, <3>1, <3>2 DEF Receipts, Listed
  <2> QED
    BY <2>3 DEF LedgerInvariant, OutcomesAreTrue, LedgerTypeOK, Listed
<1> QED
  BY <1>1, <1>2, LedgerInvariance, PTL DEF HistorySpec, LedgerIsTrue, LoadIsWhole

-----------------------------------------------------------------------------
(***************************************************************************)
(* Proofs about Capture, for chains of any length, any number of changes   *)
(* of their files, and any limits.                                         *)
(*                                                                         *)
(* Success is a statement about the private copies, so the invariant says  *)
(* of each stage what it has established about them and that nothing later *)
(* changes it: the digest recorded is of the blocks copied (DigestsOK),    *)
(* the identities are those of one chain (NamesOK), the structure was      *)
(* checked (StructureChecked), and every payload in scope was found sound  *)
(* or is still to be read (WorkOK).  That the plan of the content phase    *)
(* leaves no member of the scope out is a fact about each checker.         *)
(***************************************************************************)
CaptureStages == {"resolve", "preflight", "scratch", "open", "copy", "identity", "structure",
                  "plan", "content", "done"}
SizedStages == {"scratch", "open", "copy", "identity", "structure", "plan", "content"}
CopiedStages == {"identity", "structure", "plan", "content"}
NamedStages == {"structure", "plan", "content"}

FileBlock == [version : Nat, intact : BOOLEAN]
Superblock == [uuid : Nat, seq : Nat, parent : Nat, chain : Nat, kind : Kinds, disk : BOOLEAN]
SourceFile == [there : BOOLEAN, header : Superblock, blocks : Seq(FileBlock)]
PrivateCopy == [header : Superblock, blocks : Seq(FileBlock)]

ObsFields == {"schema", "coverage_version", "scope", "coverage", "outcome", "members"}
MemberFields == {"raw_length", "digest", "identity", "capture", "structure", "notice"}
                \cup ContentFields
VerifierCall == ({"begin", "complete"} \X Nat \X ContentFields)
                \cup ({"open", "referenced", "begin_all", "complete_all", "read", "own"} \X Nat)

\* What never changes about the chain, whatever happens to its files.
SourceOK ==
  /\ source \in Seq(SourceFile) /\ source # <<>>
  /\ changes \in Nat /\ every \in BOOLEAN
  /\ refs \subseteq 1 .. Len(source)
  /\ \A i \in DOMAIN source : /\ source[i].header.kind = source[1].header.kind
                              /\ source[i].header.disk = source[1].header.disk
  /\ source[1].header.disk => Len(source) = 1 /\ source[1].header.kind = "block"
  /\ source[1].header.disk \/ source[1].header.kind = "stream" => refs = {Len(source)}

PlacesOK ==
  /\ stage \in CaptureStages
  /\ headers \in Seq(Superblock) /\ raw \in Seq(Nat) /\ copies \in Seq(PrivateCopy)
  /\ \A i \in DOMAIN headers : /\ headers[i].kind = source[1].header.kind
                               /\ headers[i].disk = source[1].header.disk
  /\ stage = "resolve" => idx = 1 /\ headers = <<>> /\ raw = <<>> /\ copies = <<>>
  /\ stage = "preflight" => /\ idx \in 1 .. Len(source) /\ copies = <<>>
                            /\ Len(headers) = idx - 1 /\ Len(raw) = idx - 1
  /\ stage \in SizedStages => Len(headers) = Len(source) /\ Len(raw) = Len(source)
  /\ stage = "scratch" => idx = 1 /\ copies = <<>>
  /\ stage = "open" => idx \in 1 .. Len(source) /\ Len(copies) = idx - 1
  /\ stage = "copy" => idx \in 1 .. Len(source) /\ Len(copies) = idx /\ blk \in Nat \ {0}
  /\ stage \in CopiedStages => Len(copies) = Len(source)
  /\ stage = "identity" => idx = 1
  /\ stage = "structure" => idx \in 1 .. Len(source)

\* An attempt under way has no result yet.
ObsOK ==
  stage # "done" =>
    /\ DOMAIN obs = ObsFields /\ obs.outcome.status = "incomplete"
    /\ stage # "resolve" => /\ DOMAIN obs.members = 1 .. Len(source)
                            /\ \A i \in 1 .. Len(source) : DOMAIN obs.members[i] = MemberFields

DigestsOK ==
  /\ stage \in {"open", "copy"} =>
        \A i \in 1 .. idx - 1 : obs.members[i].digest = Some(copies[i].blocks)
  /\ stage \in CopiedStages =>
        \A i \in 1 .. Len(source) : obs.members[i].digest = Some(copies[i].blocks)

NamesOK ==
  stage \in NamedStages =>
    \A i \in 1 .. Len(source) : /\ obs.members[i].identity = Some(copies[i].header)
                                /\ copies[i].header = headers[i]
                                /\ copies[i].header.chain = copies[1].header.chain

StructureChecked ==
  /\ stage = "structure" => \A i \in 1 .. idx - 1 : StructureOk(copies[i])
  /\ stage \in {"plan", "content"} => \A i \in 1 .. Len(source) : StructureOk(copies[i])

\* The task s reads the payloads of member i.
ReadIn(s, i) == \E k \in DOMAIN s : s[k] = <<"read", i>> \/ s[k] = <<"own", i>>
IsWork(w) == w \in Seq(Seq(VerifierCall)) /\ \A t \in DOMAIN w : w[t] # <<>>

WorkOK ==
  stage = "content" =>
    /\ IsWork(work)
    /\ \A i \in ScopeOf : PayloadOk(copies[i]) \/ \E t \in DOMAIN work : ReadIn(work[t], i)

CaptureInvariant ==
  /\ SourceOK /\ PlacesOK /\ ObsOK /\ DigestsOK /\ NamesOK /\ StructureChecked /\ WorkOK
  /\ VerifiedIsWhatWasCaptured

-----------------------------------------------------------------------------
\* Sequences of calls.
LEMMA ReadInConcat ==
  ASSUME NEW X, NEW s \in Seq(X), NEW t \in Seq(X), NEW i, ReadIn(s, i) \/ ReadIn(t, i)
  PROVE  ReadIn(s \o t, i)
<1>1. /\ s \o t \in Seq(X) /\ Len(s \o t) = Len(s) + Len(t)
      /\ \A k \in 1 .. Len(s) + Len(t) : (s \o t)[k] = IF k <= Len(s) THEN s[k] ELSE t[k - Len(s)]
  BY ConcatProperties
<1>2. DOMAIN s = 1 .. Len(s) /\ DOMAIN t = 1 .. Len(t) /\ Len(s) \in Nat /\ Len(t) \in Nat
  OBVIOUS
<1>3. DOMAIN (s \o t) = 1 .. Len(s) + Len(t)
  BY <1>1
<1>4. CASE ReadIn(s, i)
  <2>1. PICK k \in DOMAIN s : s[k] = <<"read", i>> \/ s[k] = <<"own", i>>
    BY <1>4 DEF ReadIn
  <2>2. k \in DOMAIN (s \o t) /\ (s \o t)[k] = s[k]
    BY <1>1, <1>2, <1>3, <2>1
  <2> QED
    BY <2>1, <2>2 DEF ReadIn
<1>5. CASE ReadIn(t, i)
  <2>1. PICK k \in DOMAIN t : t[k] = <<"read", i>> \/ t[k] = <<"own", i>>
    BY <1>5 DEF ReadIn
  <2>2. /\ Len(s) + k \in DOMAIN (s \o t) /\ ~ (Len(s) + k <= Len(s))
        /\ (Len(s) + k) - Len(s) = k
    BY <1>1, <1>2, <1>3, <2>1
  <2>3. (s \o t)[Len(s) + k] = t[k]
    BY <1>1, <1>3, <2>2
  <2> QED
    BY <2>1, <2>2, <2>3 DEF ReadIn
<1> QED
  BY <1>4, <1>5

\* Reads lists exactly its owners.
LEMMA ReadsOwners ==
  ASSUME NEW S \in SUBSET Nat, IsFiniteSet(S)
  PROVE  /\ Reads(S) \in Seq(VerifierCall)
         /\ \A o \in S : ReadIn(Reads(S), o)
<1> DEFINE m == Cardinality(S)
           Below(o) == {p \in S : p < o}
           rank == [o \in S |-> Cardinality(Below(o))]
           I == 0 .. m - 1
<1>1. m \in Nat
  BY FS_CardinalityType
<1>2. ASSUME NEW o \in S
      PROVE  IsFiniteSet(Below(o)) /\ Cardinality(Below(o)) \in I
  <2>1. Below(o) \in SUBSET S /\ o \in S \ Below(o)
    OBVIOUS
  <2>2. /\ IsFiniteSet(Below(o)) /\ Cardinality(Below(o)) <= m
        /\ m = Cardinality(Below(o)) => S = Below(o)
    BY <2>1, FS_Subset
  <2>3. Cardinality(Below(o)) \in Nat
    BY <2>2, FS_CardinalityType
  <2> QED
    BY <1>1, <2>1, <2>2, <2>3
<1>3. ASSUME NEW o \in S, NEW q \in S, o < q
      PROVE  Cardinality(Below(o)) < Cardinality(Below(q))
  <2>1. Below(o) \in SUBSET Below(q) /\ o \in Below(q) \ Below(o)
    <3>1. o \in Nat /\ q \in Nat /\ (\A p \in S : p \in Nat)
      OBVIOUS
    <3>2. o \in Below(q) /\ o \notin Below(o)
      BY <1>3, <3>1
    <3>3. ASSUME NEW p \in S, p < o PROVE p < q
      BY <1>3, <3>1, <3>3
    <3> QED
      BY <3>2, <3>3
  <2>2. /\ Cardinality(Below(o)) <= Cardinality(Below(q))
        /\ Cardinality(Below(q)) = Cardinality(Below(o)) => Below(q) = Below(o)
    BY <1>2, <2>1, FS_Subset
  <2>3. Cardinality(Below(o)) \in I /\ Cardinality(Below(q)) \in I
    BY <1>2
  <2> HIDE DEF Below
  <2> QED
    BY <1>1, <2>1, <2>2, <2>3
<1>4. \A o, q \in S : Cardinality(Below(o)) = Cardinality(Below(q)) => o = q
  <2>1. ASSUME NEW o \in S, NEW q \in S, o # q, Cardinality(Below(o)) = Cardinality(Below(q))
        PROVE  FALSE
    <3>1. o < q \/ q < o
      BY <2>1
    <3>2. Cardinality(Below(o)) \in I /\ Cardinality(Below(q)) \in I
      BY <1>2
    <3>3. (o < q => Cardinality(Below(o)) < Cardinality(Below(q)))
          /\ (q < o => Cardinality(Below(q)) < Cardinality(Below(o)))
      BY <1>3
    <3> HIDE DEF Below
    <3> QED
      BY <1>1, <2>1, <3>1, <3>2, <3>3
  <2> QED
    BY <2>1
<1>5. rank \in [S -> I]
  BY <1>2
<1>6. rank \in Injection(S, I)
  <2>1. \A o, q \in S : rank[o] = rank[q] => o = q
    BY <1>4
  <2> HIDE DEF rank, I
  <2> QED
    BY <1>5, <2>1 DEF Injection, IsInjective
<1>7. rank \in Surjection(S, I)
  <2>1. IsFiniteSet(I) /\ Cardinality(I) = m
    <3>1. /\ IsFiniteSet(0 .. m - 1)
          /\ Cardinality(0 .. m - 1) = IF 0 > m - 1 THEN 0 ELSE m - 1 - 0 + 1
      BY <1>1, FS_Interval
    <3> QED
      BY <1>1, <3>1
  <2> HIDE DEF rank, I
  <2> QED
    BY <1>6, <2>1, FS_Injection
<1>8. ASSUME NEW k \in 1 .. m
      PROVE  \E o \in S : Cardinality(Below(o)) = k - 1
  <2>1. k - 1 \in I
    BY <1>1, <1>8
  <2>2. \E o \in S : rank[o] = k - 1
    <3> HIDE DEF rank, I
    <3> QED
      BY <1>7, <2>1 DEF Surjection
  <2> QED
    BY <2>2
<1>9. Reads(S) = [k \in 1 .. m |-> <<"read", CHOOSE o \in S : Cardinality(Below(o)) = k - 1>>]
  BY DEF Reads
<1> HIDE DEF m, Below, rank, I
<1> DEFINE Nth(k) == CHOOSE o \in S : Cardinality(Below(o)) = k - 1
<1>10. \A k \in 1 .. m : Nth(k) \in S /\ Cardinality(Below(Nth(k))) = k - 1
  BY <1>8
<1> HIDE DEF Nth
<1>11. Reads(S) = [k \in 1 .. m |-> <<"read", Nth(k)>>]
  BY <1>9 DEF Nth
<1>12. ASSUME NEW k \in 1 .. m PROVE <<"read", Nth(k)>> \in VerifierCall
  <2>1. Nth(k) \in Nat
    BY <1>10
  <2> QED
    BY <2>1 DEF VerifierCall
<1>13. Reads(S) \in Seq(VerifierCall)
  BY <1>1, <1>11, <1>12
<1>14. ASSUME NEW o \in S PROVE ReadIn(Reads(S), o)
  <2> DEFINE k == Cardinality(Below(o)) + 1
  <2>1. k \in 1 .. m /\ k - 1 = Cardinality(Below(o))
    BY <1>1, <1>2 DEF I
  <2> HIDE DEF k
  <2>2. Nth(k) = o
    BY <1>4, <1>10, <2>1
  <2>3. Reads(S)[k] = <<"read", o>> /\ k \in DOMAIN Reads(S)
    BY <1>11, <2>1, <2>2
  <2> QED
    BY <2>3 DEF ReadIn
<1> QED
  BY <1>13, <1>14

-----------------------------------------------------------------------------
\* The plans of the content phase read the payloads of every member in the scope.
CoversScope(w, S) == IsWork(w) /\ \A i \in S : \E t \in DOMAIN w : ReadIn(w[t], i)

LEMMA CallsAreCalls ==
  ASSUME NEW n \in Nat, NEW f \in ContentFields
  PROVE  /\ <<"begin", n, f>> \in VerifierCall /\ <<"complete", n, f>> \in VerifierCall
         /\ <<"open", n>> \in VerifierCall /\ <<"referenced", n>> \in VerifierCall
         /\ <<"begin_all", n>> \in VerifierCall /\ <<"complete_all", n>> \in VerifierCall
         /\ <<"read", n>> \in VerifierCall /\ <<"own", n>> \in VerifierCall
BY DEF VerifierCall

\* One task, opened and closed by two calls each at most, around the reads.
LEMMA TaskReads ==
  ASSUME NEW a \in Seq(VerifierCall), NEW s \in Seq(VerifierCall), NEW b \in Seq(VerifierCall),
         a # <<>>
  PROVE  /\ a \o s \o b \in Seq(VerifierCall) /\ a \o s \o b # <<>>
         /\ \A i : ReadIn(s, i) => ReadIn(a \o s \o b, i)
<1>1. a \o s \in Seq(VerifierCall) /\ a \o s \o b \in Seq(VerifierCall)
  BY ConcatProperties
<1>2. Len(a \o s \o b) = Len(a) + Len(s) + Len(b)
  BY <1>1, ConcatProperties
<1>3. Len(a) \in Nat /\ Len(a) # 0 /\ Len(s) \in Nat /\ Len(b) \in Nat
  BY EmptySeq
<1>4. a \o s \o b # <<>>
  <2>1. Len(a \o s \o b) # 0
    BY <1>2, <1>3
  <2> QED
    BY <2>1
<1>5. ASSUME NEW i, ReadIn(s, i) PROVE ReadIn(a \o s \o b, i)
  <2>1. ReadIn(a \o s, i)
    BY <1>5, ReadInConcat
  <2> QED
    BY <1>1, <2>1, ReadInConcat
<1> QED
  BY <1>1, <1>4, <1>5

LEMMA BlockWorkCovers ==
  ASSUME NEW n \in Nat \ {0}, refs \subseteq 1 .. n, every \in BOOLEAN
  PROVE  CoversScope(BlockWork(n), IF every THEN 1 .. n ELSE refs)
<1> DEFINE a == <<<<"begin", n, "recovery_point">>, <<"open", n>>>>
           b == <<<<"referenced", n>>, <<"complete", n, "recovery_point">>>>
           c == <<<<"begin_all", n>>>>
           d == <<<<"complete_all", n>>>>
           o == [i \in 1 .. n |-> <<"own", i>>]
           view == a \o Reads(refs) \o b
           own == c \o o \o d
<1>1. refs \in SUBSET Nat /\ IsFiniteSet(refs)
  <2>1. IsFiniteSet(1 .. n) /\ refs \in SUBSET (1 .. n)
    BY FS_Interval
  <2>2. IsFiniteSet(refs)
    BY <2>1, FS_Subset
  <2> QED
    BY <2>2
<1>2. Reads(refs) \in Seq(VerifierCall) /\ \A i \in refs : ReadIn(Reads(refs), i)
  BY <1>1, ReadsOwners
<1>3. a \in Seq(VerifierCall) /\ b \in Seq(VerifierCall) /\ c \in Seq(VerifierCall)
      /\ d \in Seq(VerifierCall) /\ a # <<>> /\ c # <<>>
  <2>1. "recovery_point" \in ContentFields
    BY DEF ContentFields
  <2>2. /\ <<"begin", n, "recovery_point">> \in VerifierCall
        /\ <<"complete", n, "recovery_point">> \in VerifierCall
        /\ <<"open", n>> \in VerifierCall /\ <<"referenced", n>> \in VerifierCall
        /\ <<"begin_all", n>> \in VerifierCall /\ <<"complete_all", n>> \in VerifierCall
    BY <2>1, CallsAreCalls
  <2> QED
    BY <2>2
<1>4. o \in Seq(VerifierCall) /\ \A i \in 1 .. n : ReadIn(o, i)
  <2>1. \A i \in 1 .. n : <<"own", i>> \in VerifierCall
    BY DEF VerifierCall
  <2>2. o \in Seq(VerifierCall)
    BY <2>1
  <2>3. ASSUME NEW i \in 1 .. n PROVE ReadIn(o, i)
    <3>1. i \in DOMAIN o /\ o[i] = <<"own", i>>
      OBVIOUS
    <3> HIDE DEF o
    <3> QED
      BY <3>1 DEF ReadIn
  <2> QED
    BY <2>2, <2>3
<1> HIDE DEF a, b, c, d, o
<1>5. /\ view \in Seq(VerifierCall) /\ view # <<>> /\ \A i \in refs : ReadIn(view, i)
  BY <1>2, <1>3, TaskReads
<1>6. /\ own \in Seq(VerifierCall) /\ own # <<>> /\ \A i \in 1 .. n : ReadIn(own, i)
  BY <1>3, <1>4, TaskReads
<1> DEFINE w == BlockWork(n)
<1>7. w = IF every THEN <<view, own>> ELSE <<view>>
  BY DEF BlockWork, a, b, c, d, o
<1> HIDE DEF view, own, w
<1>8. CASE every
  <2>1. w = <<view, own>> /\ DOMAIN w = {1, 2} /\ w[1] = view /\ w[2] = own
    BY <1>7, <1>8
  <2>2. IsWork(w)
    BY <1>5, <1>6, <2>1 DEF IsWork
  <2>3. ASSUME NEW i \in 1 .. n PROVE \E t \in DOMAIN w : ReadIn(w[t], i)
    BY <1>6, <2>1
  <2> QED
    BY <1>8, <2>2, <2>3 DEF CoversScope, w
<1>9. CASE ~ every
  <2>1. w = <<view>> /\ DOMAIN w = {1} /\ w[1] = view
    BY <1>7, <1>9
  <2>2. IsWork(w)
    BY <1>5, <2>1 DEF IsWork
  <2>3. ASSUME NEW i \in refs PROVE \E t \in DOMAIN w : ReadIn(w[t], i)
    BY <1>5, <2>1
  <2> QED
    BY <1>9, <2>2, <2>3 DEF CoversScope, w
<1> QED
  BY <1>8, <1>9

LEMMA TargetsCover ==
  ASSUME NEW n \in Nat \ {0}, every \in BOOLEAN
  PROVE  /\ TargetMembers(n) \in Seq(1 .. n)
         /\ \E t \in DOMAIN TargetMembers(n) : TargetMembers(n)[t] = n
         /\ every => \A i \in 1 .. n : \E t \in DOMAIN TargetMembers(n) : TargetMembers(n)[t] = i
<1>1. CASE every
  <2>1. TargetMembers(n) = [t \in 1 .. n |-> t]
    BY <1>1 DEF TargetMembers
  <2>2. TargetMembers(n) \in Seq(1 .. n) /\ DOMAIN TargetMembers(n) = 1 .. n
    BY <2>1
  <2>3. \A i \in 1 .. n : i \in DOMAIN TargetMembers(n) /\ TargetMembers(n)[i] = i
    BY <2>1
  <2> QED
    BY <2>2, <2>3
<1>2. CASE ~ every
  <2>1. TargetMembers(n) = <<n>>
    BY <1>2 DEF TargetMembers
  <2> QED
    BY <1>2, <2>1
<1> QED
  BY <1>1, <1>2

LEMMA StreamWorkCovers ==
  ASSUME NEW n \in Nat \ {0}, every \in BOOLEAN
  PROVE  CoversScope(StreamWork(n), IF every THEN 1 .. n ELSE {n})
<1> DEFINE T == TargetMembers(n)
           member(k) == <<<<"begin", k, "recovery_point">>, <<"begin", k, "every_stored">>,
                          <<"open", k>>, <<"own", k>>, <<"complete", k, "recovery_point">>,
                          <<"complete", k, "every_stored">>>>
           w == [t \in DOMAIN T |-> member(T[t])]
<1>1. /\ T \in Seq(1 .. n) /\ \E t \in DOMAIN T : T[t] = n
      /\ every => \A i \in 1 .. n : \E t \in DOMAIN T : T[t] = i
  BY TargetsCover
<1> HIDE DEF T
<1>2. ASSUME NEW k \in 1 .. n
      PROVE  member(k) \in Seq(VerifierCall) /\ member(k) # <<>> /\ ReadIn(member(k), k)
  <2>1. k \in Nat /\ "recovery_point" \in ContentFields /\ "every_stored" \in ContentFields
    BY DEF ContentFields
  <2>2. /\ <<"begin", k, "recovery_point">> \in VerifierCall
        /\ <<"complete", k, "recovery_point">> \in VerifierCall
        /\ <<"begin", k, "every_stored">> \in VerifierCall
        /\ <<"complete", k, "every_stored">> \in VerifierCall
        /\ <<"open", k>> \in VerifierCall /\ <<"own", k>> \in VerifierCall
    BY <2>1, CallsAreCalls
  <2>3. member(k) \in Seq(VerifierCall) /\ member(k) # <<>>
    BY <2>2
  <2>4. 4 \in DOMAIN member(k) /\ member(k)[4] = <<"own", k>>
    OBVIOUS
  <2> HIDE DEF member
  <2> QED
    BY <2>3, <2>4 DEF ReadIn
<1>3. StreamWork(n) = w
  BY DEF StreamWork, T
<1> HIDE DEF member
<1>4. DOMAIN T = 1 .. Len(T) /\ Len(T) \in Nat /\ \A t \in DOMAIN T : T[t] \in 1 .. n
  BY <1>1
<1>5. w \in Seq(Seq(VerifierCall)) /\ DOMAIN w = DOMAIN T
      /\ \A t \in DOMAIN w : w[t] = member(T[t]) /\ w[t] # <<>>
  BY <1>2, <1>4
<1> HIDE DEF w
<1>6. IsWork(w)
  BY <1>5 DEF IsWork
<1>7. ASSUME NEW i \in 1 .. n, NEW t \in DOMAIN T, T[t] = i
      PROVE  t \in DOMAIN w /\ ReadIn(w[t], i)
  BY <1>2, <1>5, <1>7
<1>8. \A i \in (IF every THEN 1 .. n ELSE {n}) : \E t \in DOMAIN w : ReadIn(w[t], i)
  <2>1. ASSUME NEW i \in 1 .. n, \E t \in DOMAIN T : T[t] = i
        PROVE  \E t \in DOMAIN w : ReadIn(w[t], i)
    BY <1>7, <2>1
  <2>2. n \in 1 .. n
    OBVIOUS
  <2> QED
    BY <1>1, <2>1, <2>2
<1> QED
  BY <1>3, <1>6, <1>8 DEF CoversScope

LEMMA DiskWorkCovers ==
  ASSUME NEW n \in Nat \ {0}
  PROVE  CoversScope(DiskWork(n), {n})
<1> DEFINE task == <<<<"begin", n, "recovery_point">>, <<"open", n>>,
                     <<"complete", n, "recovery_point">>, <<"begin", n, "disk_regions">>,
                     <<"own", n>>, <<"complete", n, "disk_regions">>>>
           w == <<task>>
<1>1. task \in Seq(VerifierCall) /\ task # <<>> /\ ReadIn(task, n)
  <2>1. "recovery_point" \in ContentFields /\ "disk_regions" \in ContentFields
    BY DEF ContentFields
  <2>2. /\ <<"begin", n, "recovery_point">> \in VerifierCall
        /\ <<"complete", n, "recovery_point">> \in VerifierCall
        /\ <<"begin", n, "disk_regions">> \in VerifierCall
        /\ <<"complete", n, "disk_regions">> \in VerifierCall
        /\ <<"open", n>> \in VerifierCall /\ <<"own", n>> \in VerifierCall
    BY <2>1, CallsAreCalls
  <2>3. task \in Seq(VerifierCall) /\ task # <<>>
    BY <2>2
  <2>4. 5 \in DOMAIN task /\ task[5] = <<"own", n>>
    OBVIOUS
  <2> HIDE DEF task
  <2> QED
    BY <2>3, <2>4 DEF ReadIn
<1>2. DiskWork(n) = w
  BY DEF DiskWork
<1> HIDE DEF task
<1>3. w \in Seq(Seq(VerifierCall)) /\ DOMAIN w = {1} /\ w[1] = task
  BY <1>1
<1> HIDE DEF w
<1> QED
  BY <1>1, <1>2, <1>3 DEF CoversScope, IsWork

\* A chain of file images is checked tree by tree; the target's tree refers to all of refs.
LEMMA FileWorkCovers ==
  ASSUME NEW n \in Nat \ {0}, refs \subseteq 1 .. n, every \in BOOLEAN
  PROVE  CoversScope(FileWork(n), refs)
<1> DEFINE T == TargetMembers(n)
           a(k) == <<<<"begin", k, "recovery_point">>>>
           b(k) == <<<<"complete", k, "recovery_point">>>>
           tree(k) == a(k) \o Reads(refs \cap 1 .. k) \o b(k)
           trees == [t \in DOMAIN T |-> tree(T[t])]
           first == <<<<<<"open", n>>>>>>
           last == <<<<<<"referenced", n>>>>>>
           w == first \o trees \o last
<1>1. T \in Seq(1 .. n) /\ \E t \in DOMAIN T : T[t] = n
  BY TargetsCover
<1> HIDE DEF T
<1>2. ASSUME NEW k \in 1 .. n
      PROVE  /\ tree(k) \in Seq(VerifierCall) /\ tree(k) # <<>>
             /\ \A i \in refs \cap 1 .. k : ReadIn(tree(k), i)
  <2>1. k \in Nat /\ "recovery_point" \in ContentFields
    BY DEF ContentFields
  <2>2. /\ <<"begin", k, "recovery_point">> \in VerifierCall
        /\ <<"complete", k, "recovery_point">> \in VerifierCall
    BY <2>1, CallsAreCalls
  <2>3. a(k) \in Seq(VerifierCall) /\ b(k) \in Seq(VerifierCall) /\ a(k) # <<>>
    BY <2>2
  <2>4. IsFiniteSet(1 .. k)
    BY <2>1, FS_Interval
  <2>5. refs \cap 1 .. k \in SUBSET Nat /\ IsFiniteSet(refs \cap 1 .. k)
    BY <2>4, FS_Subset
  <2> DEFINE S == refs \cap 1 .. k
  <2>6. Reads(S) \in Seq(VerifierCall) /\ \A i \in S : ReadIn(Reads(S), i)
    BY <2>5, ReadsOwners
  <2> HIDE DEF a, b, S
  <2>7. a(k) \o Reads(S) \o b(k) \in Seq(VerifierCall) /\ a(k) \o Reads(S) \o b(k) # <<>>
        /\ \A i \in S : ReadIn(a(k) \o Reads(S) \o b(k), i)
    BY <2>3, <2>6, TaskReads
  <2> QED
    BY <2>7 DEF S
<1>3. FileWork(n) = w
  BY DEF FileWork, T
<1> HIDE DEF tree
<1>4. DOMAIN T = 1 .. Len(T) /\ Len(T) \in Nat /\ \A t \in DOMAIN T : T[t] \in 1 .. n
  BY <1>1
<1>5. trees \in Seq(Seq(VerifierCall)) /\ DOMAIN trees = DOMAIN T
      /\ Len(trees) = Len(T)
      /\ \A t \in DOMAIN T : trees[t] = tree(T[t]) /\ trees[t] # <<>>
  BY <1>2, <1>4
<1>6. /\ first \in Seq(Seq(VerifierCall)) /\ last \in Seq(Seq(VerifierCall))
      /\ Len(first) = 1 /\ Len(last) = 1 /\ first[1] # <<>> /\ last[1] # <<>>
  <2>1. <<"open", n>> \in VerifierCall /\ <<"referenced", n>> \in VerifierCall
    BY DEF VerifierCall
  <2> QED
    BY <2>1
<1> HIDE DEF trees, first, last
<1>7. /\ w \in Seq(Seq(VerifierCall)) /\ Len(w) = Len(T) + 2
      /\ \A t \in 1 .. Len(w) : w[t] = IF t = 1 THEN first[1] ELSE
                                       IF t <= Len(T) + 1 THEN trees[t - 1] ELSE last[1]
  <2> DEFINE v == first \o trees
             Q == Seq(VerifierCall)
  <2>1. v \in Seq(Q) /\ Len(v) = Len(T) + 1
        /\ \A t \in 1 .. Len(v) : v[t] = IF t <= 1 THEN first[t] ELSE trees[t - 1]
    <3>1. first \in Seq(Q) /\ trees \in Seq(Q)
      BY <1>5, <1>6
    <3> HIDE DEF Q
    <3>2. v \in Seq(Q) /\ Len(v) = Len(first) + Len(trees)
          /\ \A t \in 1 .. Len(first) + Len(trees) :
                v[t] = IF t <= Len(first) THEN first[t] ELSE trees[t - Len(first)]
      BY <3>1, ConcatProperties
    <3>3. Len(first) = 1 /\ Len(trees) = Len(T) /\ Len(T) \in Nat
      BY <1>4, <1>5, <1>6
    <3> HIDE DEF v
    <3> QED
      BY <3>2, <3>3
  <2>2. w = v \o last
    OBVIOUS
  <2>3. last \in Seq(Q)
    BY <1>6
  <2> HIDE DEF v, Q, w
  <2>4. w \in Seq(Q) /\ Len(w) = Len(v) + Len(last)
        /\ \A t \in 1 .. Len(v) + Len(last) :
              w[t] = IF t <= Len(v) THEN v[t] ELSE last[t - Len(v)]
    BY <2>1, <2>2, <2>3, ConcatProperties
  <2>5. w \in Seq(Seq(VerifierCall)) /\ Len(w) = Len(T) + 2
    BY <1>4, <1>6, <2>1, <2>4 DEF Q
  <2>6. ASSUME NEW t \in 1 .. Len(w), t <= Len(T) + 1
        PROVE  w[t] = IF t = 1 THEN first[1] ELSE trees[t - 1]
    BY <1>4, <1>6, <2>1, <2>4, <2>6
  <2>7. ASSUME NEW t \in 1 .. Len(w), ~ (t <= Len(T) + 1) PROVE w[t] = last[1] /\ t # 1
    BY <1>4, <1>6, <2>1, <2>4, <2>7
  <2> QED
    BY <2>5, <2>6, <2>7
<1> HIDE DEF w
<1>8. IsWork(w)
  <2>1. ASSUME NEW t \in DOMAIN w PROVE w[t] # <<>>
    <3>1. t \in 1 .. Len(w)
      BY <1>7
    <3>2. CASE t = 1 \/ t > Len(T) + 1
      BY <1>4, <1>6, <1>7, <3>1, <3>2
    <3>3. CASE ~ (t = 1 \/ t > Len(T) + 1)
      <4>1. t - 1 \in DOMAIN T /\ w[t] = trees[t - 1]
        BY <1>4, <1>7, <3>1, <3>3
      <4> QED
        BY <1>5, <4>1
    <3> QED
      BY <3>2, <3>3
  <2> QED
    BY <1>7, <2>1 DEF IsWork
<1>9. ASSUME NEW i \in refs PROVE \E t \in DOMAIN w : ReadIn(w[t], i)
  <2>1. PICK t \in DOMAIN T : T[t] = n
    BY <1>1
  <2>2. t + 1 \in DOMAIN w /\ w[t + 1] = trees[t]
    BY <1>4, <1>7, <2>1
  <2>3. i \in refs \cap 1 .. n
    OBVIOUS
  <2>4. ReadIn(trees[t], i)
    BY <1>2, <1>5, <2>1, <2>3
  <2> QED
    BY <2>2, <2>4
<1> QED
  BY <1>3, <1>8, <1>9 DEF CoversScope

-----------------------------------------------------------------------------
\* What a call of the recorder leaves alone: the shape of the observation, the result that is
\* not there yet, and the digests and identities of the members.
ObsShape(o, n) ==
  /\ DOMAIN o = ObsFields /\ o.outcome.status = "incomplete"
  /\ DOMAIN o.members = 1 .. n /\ \A i \in 1 .. n : DOMAIN o.members[i] = MemberFields
KeepsFacts(o, p, n) ==
  /\ ObsShape(p, n)
  /\ \A i \in 1 .. n : /\ p.members[i].digest = o.members[i].digest
                       /\ p.members[i].identity = o.members[i].identity

LEMMA NewMembers ==
  ASSUME NEW o, NEW n \in Nat, NEW ms, NEW p, ObsShape(o, n),
         DOMAIN p = ObsFields, p.outcome = o.outcome, p.members = ms, DOMAIN ms = 1 .. n,
         \A i \in 1 .. n : /\ DOMAIN ms[i] = MemberFields
                           /\ ms[i].digest = o.members[i].digest
                           /\ ms[i].identity = o.members[i].identity
  PROVE  KeepsFacts(o, p, n)
BY DEF ObsShape, KeepsFacts

LEMMA SetStageKeeps ==
  ASSUME NEW o, NEW n \in Nat, NEW i, NEW f \in MemberFields \ {"digest", "identity"}, NEW v,
         ObsShape(o, n)
  PROVE  KeepsFacts(o, SetStage(o, i, f, v), n)
<1> DEFINE ms == [o.members EXCEPT ![i] = [@ EXCEPT ![f] = v]]
           p == [o EXCEPT !.members = ms]
<1>1. SetStage(o, i, f, v) = p
  BY DEF SetStage
<1>2. DOMAIN p = ObsFields /\ p.outcome = o.outcome /\ p.members = ms
  BY DEF ObsShape, ObsFields
<1>3. DOMAIN ms = 1 .. n
  BY DEF ObsShape
<1>4. ASSUME NEW j \in 1 .. n
      PROVE  /\ DOMAIN ms[j] = MemberFields /\ ms[j].digest = o.members[j].digest
             /\ ms[j].identity = o.members[j].identity
  <2>1. ms[j] = IF j = i THEN [o.members[j] EXCEPT ![f] = v] ELSE o.members[j]
    BY DEF ObsShape
  <2>2. DOMAIN o.members[j] = MemberFields
    BY DEF ObsShape
  <2>3. "digest" \in MemberFields /\ "identity" \in MemberFields
    BY DEF MemberFields
  <2> HIDE DEF ms
  <2> QED
    BY <2>1, <2>2, <2>3
<1> HIDE DEF ms, p
<1> QED
  BY <1>1, <1>2, <1>3, <1>4, NewMembers

LEMMA SetAllKeeps ==
  ASSUME NEW o, NEW n \in Nat, NEW f \in MemberFields \ {"digest", "identity"}, NEW v,
         ObsShape(o, n)
  PROVE  KeepsFacts(o, SetAll(o, f, v), n)
<1> DEFINE ms == [i \in DOMAIN o.members |-> [o.members[i] EXCEPT ![f] = v]]
           p == [o EXCEPT !.members = ms]
<1>1. SetAll(o, f, v) = p
  BY DEF SetAll
<1>2. DOMAIN p = ObsFields /\ p.outcome = o.outcome /\ p.members = ms
  BY DEF ObsShape, ObsFields
<1>3. DOMAIN ms = 1 .. n
  BY DEF ObsShape
<1>4. ASSUME NEW j \in 1 .. n
      PROVE  /\ DOMAIN ms[j] = MemberFields /\ ms[j].digest = o.members[j].digest
             /\ ms[j].identity = o.members[j].identity
  <2>1. ms[j] = [o.members[j] EXCEPT ![f] = v]
    BY DEF ObsShape
  <2>2. DOMAIN o.members[j] = MemberFields
    BY DEF ObsShape
  <2>3. "digest" \in MemberFields /\ "identity" \in MemberFields
    BY DEF MemberFields
  <2> HIDE DEF ms
  <2> QED
    BY <2>1, <2>2, <2>3
<1> HIDE DEF ms, p
<1> QED
  BY <1>1, <1>2, <1>3, <1>4, NewMembers

LEMMA CompleteReferencedKeeps ==
  ASSUME NEW o, NEW n \in Nat, ObsShape(o, n)
  PROVE  KeepsFacts(o, CompleteReferenced(o), n)
<1> DEFINE ms == [i \in DOMAIN o.members |->
                    IF o.members[i].referenced \in {"not_started", "in_progress"}
                    THEN [o.members[i] EXCEPT !.referenced = "complete"] ELSE o.members[i]]
           p == [o EXCEPT !.members = ms]
<1>1. CompleteReferenced(o) = p
  BY DEF CompleteReferenced
<1>2. DOMAIN p = ObsFields /\ p.outcome = o.outcome /\ p.members = ms
  BY DEF ObsShape, ObsFields
<1>3. DOMAIN ms = 1 .. n
  BY DEF ObsShape
<1>4. ASSUME NEW j \in 1 .. n
      PROVE  /\ DOMAIN ms[j] = MemberFields /\ ms[j].digest = o.members[j].digest
             /\ ms[j].identity = o.members[j].identity
  <2>1. ms[j] = [o.members[j] EXCEPT !.referenced = "complete"] \/ ms[j] = o.members[j]
    BY DEF ObsShape
  <2>2. DOMAIN o.members[j] = MemberFields
    BY DEF ObsShape
  <2>3. "digest" \in MemberFields /\ "identity" \in MemberFields
    BY DEF MemberFields
  <2> HIDE DEF ms
  <2> QED
    BY <2>1, <2>2, <2>3
<1> HIDE DEF ms, p
<1> QED
  BY <1>1, <1>2, <1>3, <1>4, NewMembers

LEMMA BeginContentKeeps ==
  ASSUME NEW o, NEW n \in Nat, NEW kind \in Kinds, NEW disk \in BOOLEAN, every \in BOOLEAN,
         ObsShape(o, n)
  PROVE  KeepsFacts(o, BeginContent(o, ContentCoverage(kind, disk, every)), n)
<1> DEFINE c == ContentCoverage(kind, disk, every)
           ms == [i \in DOMAIN o.members |-> [f \in DOMAIN o.members[i] |->
                    IF f \in Requested(c, i = Len(o.members)) THEN "not_started"
                    ELSE o.members[i][f]]]
           p == [o EXCEPT !.coverage = Some(c), !.members = ms]
<1>1. BeginContent(o, c) = p
  BY DEF BeginContent
<1>2. DOMAIN p = ObsFields /\ p.outcome = o.outcome /\ p.members = ms
  BY DEF ObsShape, ObsFields
<1>3. DOMAIN ms = 1 .. n
  BY DEF ObsShape
<1>4. ASSUME NEW selected \in BOOLEAN
      PROVE  "digest" \notin Requested(c, selected) /\ "identity" \notin Requested(c, selected)
  <2>1. c \in {"whole_disk_regions", "block_every", "block_selected", "file_every",
               "file_selected", "stream_every", "stream_selected"}
    BY DEF ContentCoverage, Kinds
  <2> HIDE DEF c
  <2> QED
    BY <2>1 DEF Requested
<1>5. ASSUME NEW j \in 1 .. n
      PROVE  /\ DOMAIN ms[j] = MemberFields /\ ms[j].digest = o.members[j].digest
             /\ ms[j].identity = o.members[j].identity
  <2> DEFINE R == Requested(c, j = Len(o.members))
  <2>1. DOMAIN o.members[j] = MemberFields /\ j \in DOMAIN o.members
    BY DEF ObsShape
  <2>2. ms[j] = [f \in MemberFields |-> IF f \in R THEN "not_started" ELSE o.members[j][f]]
    BY <2>1
  <2>3. "digest" \in MemberFields /\ "identity" \in MemberFields
    BY DEF MemberFields
  <2>4. "digest" \notin R /\ "identity" \notin R
    BY <1>4
  <2> HIDE DEF ms, R
  <2> QED
    BY <2>2, <2>3, <2>4
<1> HIDE DEF ms, p, c
<1>6. KeepsFacts(o, p, n)
  BY <1>2, <1>3, <1>5, NewMembers
<1> QED
  BY <1>1, <1>6 DEF c

LEMMA ApplyKeeps ==
  ASSUME NEW o, NEW n \in Nat, NEW op \in VerifierCall, ObsShape(o, n)
  PROVE  KeepsFacts(o, Apply(op, o), n)
<1>0. KeepsFacts(o, o, n)
  BY DEF KeepsFacts
<1>1. ContentFields \subseteq MemberFields \ {"digest", "identity"}
      /\ "referenced" \in MemberFields \ {"digest", "identity"}
      /\ "every_stored" \in MemberFields \ {"digest", "identity"}
  BY DEF ContentFields, MemberFields
<1>2. \/ op[1] \in {"begin", "complete"} /\ op[3] \in ContentFields
      \/ op[1] \in {"open", "referenced", "begin_all", "complete_all", "read", "own"}
  BY DEF VerifierCall
<1>3. CASE op[1] = "begin"
  <2>1. Apply(op, o) = SetStage(o, op[2], op[3], "in_progress")
    BY <1>3 DEF Apply
  <2> QED
    BY <1>1, <1>2, <1>3, <2>1, SetStageKeeps
<1>4. CASE op[1] = "complete"
  <2>1. Apply(op, o) = SetStage(o, op[2], op[3], "complete")
    BY <1>4 DEF Apply
  <2> QED
    BY <1>1, <1>2, <1>4, <2>1, SetStageKeeps
<1>5. CASE op[1] = "begin_all"
  <2>1. Apply(op, o) = SetAll(o, "every_stored", "in_progress")
    BY <1>5 DEF Apply
  <2> QED
    BY <1>1, <2>1, SetAllKeeps
<1>6. CASE op[1] = "complete_all"
  <2>1. Apply(op, o) = SetAll(o, "every_stored", "complete")
    BY <1>6 DEF Apply
  <2> QED
    BY <1>1, <2>1, SetAllKeeps
<1>7. CASE op[1] = "referenced"
  <2>1. Apply(op, o) = CompleteReferenced(o)
    BY <1>7 DEF Apply
  <2> QED
    BY <2>1, CompleteReferencedKeeps
<1>8. CASE op[1] \in {"open", "own"}
  <2>1. Apply(op, o) = o
    BY <1>8 DEF Apply
  <2> QED
    BY <1>0, <2>1
<1>9. CASE op[1] = "read"
  <2>1. Apply(op, o) = o \/ Apply(op, o) = SetStage(o, op[2], "referenced", "in_progress")
    BY <1>9 DEF Apply, BeginReferenced
  <2> QED
    BY <1>0, <1>1, <2>1, SetStageKeeps
<1> QED
  BY <1>2, <1>3, <1>4, <1>5, <1>6, <1>7, <1>8, <1>9

-----------------------------------------------------------------------------
\* An attempt that fails claims nothing.
LEMMA EndsIncomplete ==
  ASSUME CaptureInvariant, stage' = "done", obs'.outcome.status = "incomplete",
         UNCHANGED <<env, headers, raw, copies>>
  PROVE  CaptureInvariant'
<1>1. SourceOK'
  BY DEF CaptureInvariant, SourceOK, env
<1>2. PlacesOK'
  BY DEF CaptureInvariant, PlacesOK, CaptureStages, SizedStages, CopiedStages, env
<1>3. ObsOK' /\ DigestsOK' /\ NamesOK' /\ StructureChecked' /\ WorkOK'
  BY DEF ObsOK, DigestsOK, NamesOK, StructureChecked, WorkOK, CopiedStages, NamedStages
<1>4. VerifiedIsWhatWasCaptured'
  BY DEF VerifiedIsWhatWasCaptured, ReportsVerified
<1> QED
  BY <1>1, <1>2, <1>3, <1>4 DEF CaptureInvariant

LEMMA FailEnds ==
  ASSUME CaptureInvariant, NEW o, DOMAIN o = ObsFields, NEW s, NEW r, CaptureFails(o, s, r)
  PROVE  CaptureInvariant'
<1>1. stage' = "done" /\ UNCHANGED <<env, headers, raw, copies>>
  BY DEF CaptureFails
<1>2. obs'.outcome.status = "incomplete"
  BY DEF CaptureFails, Incomplete, ObsFields
<1> QED
  BY <1>1, <1>2, EndsIncomplete

LEMMA GiveUpEnds ==
  ASSUME CaptureInvariant, NEW o, DOMAIN o = ObsFields, NEW s, NEW r, GiveUp(o, s, r)
  PROVE  CaptureInvariant'
<1>1. stage' = "done" /\ UNCHANGED <<env, headers, raw, copies>>
  BY DEF GiveUp
<1>2. obs'.outcome.status = "incomplete"
  <2>1. obs' = FailObservation(o, s, ClassifyError(r))
    BY DEF GiveUp
  <2> QED
    BY <2>1 DEF FailObservation, Incomplete, ObsFields
<1> QED
  BY <1>1, <1>2, EndsIncomplete

LEMMA AttemptUnderWay ==
  ASSUME CaptureInvariant, stage # "done"
  PROVE  /\ DOMAIN obs = ObsFields /\ Len(source) \in Nat \ {0}
         /\ stage # "resolve" => ObsShape(obs, Len(source))
<1>1. DOMAIN obs = ObsFields /\ (stage # "resolve" => ObsShape(obs, Len(source)))
  BY DEF CaptureInvariant, ObsOK, ObsShape
<1>2. Len(source) \in Nat \ {0}
  <2>1. source \in Seq(SourceFile) /\ source # <<>>
    BY DEF CaptureInvariant, SourceOK
  <2> QED
    BY <2>1, EmptySeq
<1> QED
  BY <1>1, <1>2

\* A step that goes on: the environment stays, the recorder keeps its facts.
LEMMA GoesOn ==
  ASSUME CaptureInvariant, UNCHANGED env, stage' \notin {"done", "resolve"},
         ObsShape(obs', Len(source))
  PROVE  SourceOK' /\ ObsOK' /\ VerifiedIsWhatWasCaptured'
<1>1. SourceOK'
  BY DEF CaptureInvariant, SourceOK, env
<1>2. ObsOK'
  BY DEF ObsOK, ObsShape, env
<1>3. VerifiedIsWhatWasCaptured'
  BY DEF ObsShape, VerifiedIsWhatWasCaptured, ReportsVerified
<1> QED
  BY <1>1, <1>2, <1>3

LEMMA CopyFailsEnds ==
  ASSUME CaptureInvariant, stage \notin {"done", "resolve"}, NEW r, CopyFails(r)
  PROVE  CaptureInvariant'
<1>1. ObsShape(obs, Len(source)) /\ Len(source) \in Nat
  BY AttemptUnderWay
<1>2. "capture" \in MemberFields \ {"digest", "identity"}
  BY DEF MemberFields
<1>3. DOMAIN SetStage(obs, idx, "capture", "failed") = ObsFields
  <2>1. KeepsFacts(obs, SetStage(obs, idx, "capture", "failed"), Len(source))
    BY <1>1, <1>2, SetStageKeeps
  <2> QED
    BY <2>1 DEF KeepsFacts, ObsShape
<1> QED
  BY <1>3, FailEnds DEF CopyFails

LEMMA ResolveStep ==
  ASSUME CaptureInvariant, Resolve
  PROVE  CaptureInvariant'
<1>1. stage = "resolve" /\ DOMAIN obs = ObsFields /\ obs.outcome.status = "incomplete"
      /\ Len(source) \in Nat \ {0} /\ DOMAIN source = 1 .. Len(source)
  BY AttemptUnderWay DEF Resolve, CaptureInvariant, ObsOK, SourceOK
<1>2. ASSUME NEW s, NEW r, CaptureFails(obs, s, r) PROVE CaptureInvariant'
  BY <1>1, <1>2, FailEnds
<1>3. CASE /\ stage' = "preflight"
           /\ obs' = [obs EXCEPT !.members = [i \in DOMAIN source |-> Pending]]
           /\ UNCHANGED <<env, cancelled, idx, blk, headers, raw, copies, work, report>>
  <2>1. DOMAIN Pending = MemberFields
    BY DEF Pending, MemberFields, ContentFields
  <2>2. DOMAIN obs' = ObsFields /\ obs'.outcome = obs.outcome
        /\ obs'.members = [i \in DOMAIN source |-> Pending]
    BY <1>1, <1>3 DEF ObsFields
  <2>3. ObsShape(obs', Len(source))
    BY <1>1, <2>1, <2>2 DEF ObsShape
  <2>4. SourceOK' /\ ObsOK' /\ VerifiedIsWhatWasCaptured'
    BY <1>3, <2>3, GoesOn
  <2>5. PlacesOK'
    BY <1>1, <1>3 DEF CaptureInvariant, PlacesOK, CaptureStages, SizedStages, CopiedStages, env
  <2>6. DigestsOK' /\ NamesOK' /\ StructureChecked' /\ WorkOK'
    BY <1>3 DEF DigestsOK, NamesOK, StructureChecked, WorkOK, CopiedStages, NamedStages
  <2> QED
    BY <2>4, <2>5, <2>6 DEF CaptureInvariant
<1> QED
  BY <1>2, <1>3 DEF Resolve

LEMMA PreflightStep ==
  ASSUME CaptureInvariant, PreflightMember
  PROVE  CaptureInvariant'
<1> DEFINE f == source[idx]
           sized == SetStage(obs, idx, "raw_length", Some(Length(f)))
           n == Len(source)
<1>1. stage = "preflight" /\ DOMAIN obs = ObsFields /\ n \in Nat \ {0} /\ ObsShape(obs, n)
  BY AttemptUnderWay DEF PreflightMember
<1>2. KeepsFacts(obs, sized, n) /\ DOMAIN sized = ObsFields
  <2>1. "raw_length" \in MemberFields \ {"digest", "identity"}
    BY DEF MemberFields
  <2>2. KeepsFacts(obs, sized, n)
    BY <1>1, <2>1, SetStageKeeps
  <2> QED
    BY <2>2 DEF KeepsFacts, ObsShape
<1>3. ASSUME NEW s, NEW r, CaptureFails(obs, s, r) \/ CaptureFails(sized, s, r) PROVE CaptureInvariant'
  BY <1>1, <1>2, <1>3, FailEnds
<1>4. \/ \E s, r : CaptureFails(obs, s, r) \/ CaptureFails(sized, s, r)
      \/ /\ obs' = sized
         /\ raw' = Append(raw, Length(f))
         /\ headers' = Append(headers, f.header)
         /\ idx' = IF idx = n THEN 1 ELSE idx + 1
         /\ stage' = IF idx = n THEN "scratch" ELSE "preflight"
         /\ UNCHANGED <<env, cancelled, blk, copies, work, report>>
  BY DEF PreflightMember, SetStage
<1>5. CASE /\ obs' = sized
           /\ raw' = Append(raw, Length(f))
           /\ headers' = Append(headers, f.header)
           /\ idx' = IF idx = n THEN 1 ELSE idx + 1
           /\ stage' = IF idx = n THEN "scratch" ELSE "preflight"
           /\ UNCHANGED <<env, cancelled, blk, copies, work, report>>
  <2> HIDE DEF sized
  <2>1. SourceOK' /\ ObsOK' /\ VerifiedIsWhatWasCaptured'
    BY <1>2, <1>5, GoesOn DEF KeepsFacts
  <2>2. idx \in 1 .. n /\ copies = <<>> /\ Len(headers) = idx - 1 /\ Len(raw) = idx - 1
        /\ headers \in Seq(Superblock) /\ raw \in Seq(Nat)
    BY <1>1 DEF CaptureInvariant, PlacesOK
  <2>3. f \in SourceFile /\ f.header.kind = source[1].header.kind
        /\ f.header.disk = source[1].header.disk
    BY <2>2 DEF CaptureInvariant, SourceOK
  <2>4. f.header \in Superblock /\ Length(f) \in Nat
    BY <2>3 DEF SourceFile, Length
  <2>5. /\ headers' \in Seq(Superblock) /\ Len(headers') = idx
        /\ raw' \in Seq(Nat) /\ Len(raw') = idx
        /\ \A i \in 1 .. idx : headers'[i] = IF i = idx THEN f.header ELSE headers[i]
    <3> HIDE DEF f, n
    <3> QED
      BY <1>5, <2>2, <2>4, AppendProperties
  <2>6. \A i \in DOMAIN headers' : /\ headers'[i].kind = source[1].header.kind
                                   /\ headers'[i].disk = source[1].header.disk
    <3>1. \A i \in 1 .. idx - 1 : /\ headers[i].kind = source[1].header.kind
                                  /\ headers[i].disk = source[1].header.disk
      BY <2>2 DEF CaptureInvariant, PlacesOK
    <3>2. DOMAIN headers' = 1 .. idx
      BY <2>5
    <3> HIDE DEF f, n
    <3>3. ASSUME NEW i \in 1 .. idx
          PROVE  headers'[i] = f.header \/ (i \in 1 .. idx - 1 /\ headers'[i] = headers[i])
      BY <2>2, <2>5
    <3> QED
      BY <2>3, <3>1, <3>2, <3>3
  <2>7. PlacesOK'
    <3> HIDE DEF f
    <3> QED
      BY <1>1, <1>5, <2>2, <2>5, <2>6
      DEF CaptureInvariant, PlacesOK, CaptureStages, SizedStages, CopiedStages, env
  <2>8. DigestsOK' /\ NamesOK' /\ StructureChecked' /\ WorkOK'
    <3>1. stage' \in {"scratch", "preflight"}
      BY <1>5
    <3> QED
      BY <3>1 DEF DigestsOK, NamesOK, StructureChecked, WorkOK, CopiedStages, NamedStages
  <2> QED
    BY <2>1, <2>7, <2>8 DEF CaptureInvariant
<1> QED
  BY <1>3, <1>4, <1>5

LEMMA ScratchStep ==
  ASSUME CaptureInvariant, Scratch
  PROVE  CaptureInvariant'
<1>1. stage = "scratch" /\ DOMAIN obs = ObsFields /\ ObsShape(obs, Len(source))
      /\ Len(source) \in Nat \ {0}
  BY AttemptUnderWay DEF Scratch
<1>2. ASSUME NEW s, NEW r, CaptureFails(obs, s, r) PROVE CaptureInvariant'
  BY <1>1, <1>2, FailEnds
<1>3. CASE /\ stage' = "open"
           /\ UNCHANGED <<env, cancelled, idx, blk, headers, raw, copies, work, obs, report>>
  <2>1. SourceOK' /\ ObsOK' /\ VerifiedIsWhatWasCaptured'
    BY <1>1, <1>3, GoesOn
  <2>2. idx = 1 /\ copies = <<>>
    BY <1>1 DEF CaptureInvariant, PlacesOK
  <2>3. PlacesOK'
    BY <1>1, <1>3, <2>2
    DEF CaptureInvariant, PlacesOK, CaptureStages, SizedStages, CopiedStages, env
  <2>4. DigestsOK' /\ NamesOK' /\ StructureChecked' /\ WorkOK'
    BY <1>3, <2>2 DEF DigestsOK, NamesOK, StructureChecked, WorkOK, CopiedStages, NamedStages
  <2> QED
    BY <2>1, <2>3, <2>4 DEF CaptureInvariant
<1> QED
  BY <1>2, <1>3 DEF Scratch

LEMMA OpenMemberStep ==
  ASSUME CaptureInvariant, OpenMember
  PROVE  CaptureInvariant'
<1> DEFINE n == Len(source)
           c == [header |-> source[idx].header, blocks |-> <<>>]
<1>1. stage = "open" /\ DOMAIN obs = ObsFields /\ ObsShape(obs, n) /\ n \in Nat \ {0}
  BY AttemptUnderWay DEF OpenMember
<1>2. ASSUME NEW s, NEW r, CaptureFails(obs, s, r) PROVE CaptureInvariant'
  BY <1>1, <1>2, FailEnds
<1>3. ASSUME NEW r, CopyFails(r) PROVE CaptureInvariant'
  BY <1>1, <1>3, CopyFailsEnds
<1>4. CASE /\ stage' = "copy" /\ blk' = 1
           /\ obs' = SetStage(obs, idx, "capture", "in_progress")
           /\ copies' = Append(copies, c)
           /\ UNCHANGED <<env, cancelled, idx, headers, raw, work, report>>
  <2>1. KeepsFacts(obs, obs', n)
    <3>1. "capture" \in MemberFields \ {"digest", "identity"}
      BY DEF MemberFields
    <3> QED
      BY <1>1, <1>4, <3>1, SetStageKeeps
  <2>2. SourceOK' /\ ObsOK' /\ VerifiedIsWhatWasCaptured'
    <3>1. ObsShape(obs', n)
      BY <2>1 DEF KeepsFacts
    <3> QED
      BY <1>4, <3>1, GoesOn
  <2>3. idx \in 1 .. n /\ Len(copies) = idx - 1 /\ copies \in Seq(PrivateCopy)
    BY <1>1 DEF CaptureInvariant, PlacesOK
  <2>4. c \in PrivateCopy
    <3>1. source[idx] \in SourceFile
      BY <2>3 DEF CaptureInvariant, SourceOK
    <3>2. source[idx].header \in Superblock /\ <<>> \in Seq(FileBlock)
      BY <3>1 DEF SourceFile
    <3> QED
      BY <3>2 DEF PrivateCopy
  <2> HIDE DEF c
  <2>5. copies' \in Seq(PrivateCopy) /\ Len(copies') = idx
        /\ \A i \in 1 .. idx - 1 : copies'[i] = copies[i]
    <3> HIDE DEF n
    <3> QED
      BY <1>4, <2>3, <2>4, AppendProperties
  <2>6. PlacesOK'
    BY <1>1, <1>4, <2>3, <2>5
    DEF CaptureInvariant, PlacesOK, CaptureStages, SizedStages, CopiedStages, env
  <2>7. DigestsOK'
    <3>1. \A i \in 1 .. idx - 1 : obs.members[i].digest = Some(copies[i].blocks)
      BY <1>1 DEF CaptureInvariant, DigestsOK
    <3>2. \A i \in 1 .. idx - 1 : obs'.members[i].digest = obs.members[i].digest
      BY <2>1, <2>3 DEF KeepsFacts
    <3>3. \A i \in 1 .. idx - 1 : obs'.members[i].digest = Some(copies'[i].blocks)
      BY <2>5, <3>1, <3>2
    <3> QED
      BY <1>4, <3>3 DEF DigestsOK, CopiedStages
  <2>8. NamesOK' /\ StructureChecked' /\ WorkOK'
    BY <1>4 DEF NamesOK, StructureChecked, WorkOK, NamedStages
  <2> QED
    BY <2>2, <2>6, <2>7, <2>8 DEF CaptureInvariant
<1> QED
  BY <1>2, <1>3, <1>4 DEF OpenMember

LEMMA CopyBlockStep ==
  ASSUME CaptureInvariant, CopyBlock
  PROVE  CaptureInvariant'
<1> DEFINE n == Len(source)
<1>1. stage = "copy" /\ DOMAIN obs = ObsFields /\ ObsShape(obs, n) /\ n \in Nat \ {0}
  BY AttemptUnderWay DEF CopyBlock
<1>2. ASSUME NEW r, CopyFails(r) PROVE CaptureInvariant'
  BY <1>1, <1>2, CopyFailsEnds
<1>3. CASE /\ blk <= Length(source[idx])
           /\ copies' = [copies EXCEPT ![idx] =
                           [header |-> IF blk = 1 THEN source[idx].header ELSE @.header,
                            blocks |-> Append(@.blocks, source[idx].blocks[blk])]]
           /\ blk' = blk + 1
           /\ UNCHANGED <<env, cancelled, stage, idx, headers, raw, work, obs, report>>
  <2>1. SourceOK' /\ ObsOK' /\ VerifiedIsWhatWasCaptured'
    BY <1>1, <1>3, GoesOn
  <2>2. idx \in 1 .. n /\ Len(copies) = idx /\ copies \in Seq(PrivateCopy)
    BY <1>1 DEF CaptureInvariant, PlacesOK
  <2> DEFINE new == [header |-> IF blk = 1 THEN source[idx].header ELSE copies[idx].header,
                     blocks |-> Append(copies[idx].blocks, source[idx].blocks[blk])]
  <2>3. source[idx] \in SourceFile /\ copies[idx] \in PrivateCopy
    BY <2>2 DEF CaptureInvariant, SourceOK
  <2>4. new \in PrivateCopy
    <3>1. source[idx].header \in Superblock /\ source[idx].blocks \in Seq(FileBlock)
      BY <2>3 DEF SourceFile
    <3>2. copies[idx].header \in Superblock /\ copies[idx].blocks \in Seq(FileBlock)
      BY <2>3 DEF PrivateCopy
    <3>3. source[idx].blocks[blk] \in FileBlock
      BY <1>1, <1>3, <3>1 DEF Length, CaptureInvariant, PlacesOK
    <3>4. Append(copies[idx].blocks, source[idx].blocks[blk]) \in Seq(FileBlock)
      BY <3>2, <3>3, AppendProperties
    <3> QED
      BY <3>1, <3>2, <3>4 DEF PrivateCopy
  <2>5. copies' = [copies EXCEPT ![idx] = new]
    BY <1>3
  <2> HIDE DEF new
  <2>6. copies' \in Seq(PrivateCopy) /\ Len(copies') = idx
        /\ \A i \in 1 .. idx - 1 : copies'[i] = copies[i]
    <3> HIDE DEF n
    <3> QED
      BY <2>2, <2>4, <2>5
  <2>7. PlacesOK'
    BY <1>1, <1>3, <2>2, <2>6
    DEF CaptureInvariant, PlacesOK, CaptureStages, SizedStages, CopiedStages, env
  <2>8. DigestsOK'
    <3>1. \A i \in 1 .. idx - 1 : obs.members[i].digest = Some(copies[i].blocks)
      BY <1>1 DEF CaptureInvariant, DigestsOK
    <3>2. \A i \in 1 .. idx - 1 : obs'.members[i].digest = Some(copies'[i].blocks)
      BY <1>3, <2>6, <3>1
    <3> QED
      BY <1>1, <1>3, <3>2 DEF DigestsOK, CopiedStages
  <2>9. NamesOK' /\ StructureChecked' /\ WorkOK'
    BY <1>1, <1>3 DEF NamesOK, StructureChecked, WorkOK, NamedStages
  <2> QED
    BY <2>1, <2>7, <2>8, <2>9 DEF CaptureInvariant
<1> QED
  BY <1>2, <1>3 DEF CopyBlock

LEMMA FinishMemberStep ==
  ASSUME CaptureInvariant, FinishMember
  PROVE  CaptureInvariant'
<1> DEFINE n == Len(source)
<1>1. stage = "copy" /\ DOMAIN obs = ObsFields /\ ObsShape(obs, n) /\ n \in Nat \ {0}
  BY AttemptUnderWay DEF FinishMember
<1>2. ASSUME NEW r, CopyFails(r) PROVE CaptureInvariant'
  BY <1>1, <1>2, CopyFailsEnds
<1>3. CASE /\ obs' = [obs EXCEPT !.members[idx].capture = "complete",
                                 !.members[idx].digest = Some(copies[idx].blocks)]
           /\ idx' = IF idx = Len(raw) THEN 1 ELSE idx + 1
           /\ stage' = IF idx = Len(raw) THEN "identity" ELSE "open"
           /\ UNCHANGED <<env, cancelled, blk, headers, raw, copies, work, report>>
  <2> DEFINE m == [obs.members[idx] EXCEPT !.capture = "complete",
                                           !.digest = Some(copies[idx].blocks)]
             ms == [obs.members EXCEPT ![idx] = m]
  <2>1. idx \in 1 .. n /\ Len(copies) = idx /\ copies \in Seq(PrivateCopy) /\ Len(raw) = n
    BY <1>1 DEF CaptureInvariant, PlacesOK, SizedStages
  <2>2. DOMAIN m = MemberFields /\ m.digest = Some(copies[idx].blocks)
    <3>1. DOMAIN obs.members[idx] = MemberFields
      BY <1>1, <2>1 DEF ObsShape
    <3> QED
      BY <3>1 DEF MemberFields
  <2>3. DOMAIN obs' = ObsFields /\ obs'.outcome = obs.outcome /\ obs'.members = ms
    <3>1. obs' = [obs EXCEPT !.members = ms]
      BY <1>1, <1>3, <2>1 DEF ObsShape, ObsFields
    <3> HIDE DEF ms
    <3> QED
      BY <1>1, <3>1 DEF ObsFields
  <2>4. DOMAIN ms = 1 .. n /\ \A i \in 1 .. n : ms[i] = IF i = idx THEN m ELSE obs.members[i]
    BY <1>1 DEF ObsShape
  <2> HIDE DEF m, ms
  <2>5. ObsShape(obs', n)
    BY <1>1, <2>2, <2>3, <2>4 DEF ObsShape
  <2>6. SourceOK' /\ ObsOK' /\ VerifiedIsWhatWasCaptured'
    BY <1>3, <2>5, GoesOn
  <2>7. PlacesOK'
    BY <1>1, <1>3, <2>1
    DEF CaptureInvariant, PlacesOK, CaptureStages, SizedStages, CopiedStages, env
  <2>8. DigestsOK'
    <3>1. \A i \in 1 .. idx - 1 : obs.members[i].digest = Some(copies[i].blocks)
      BY <1>1 DEF CaptureInvariant, DigestsOK
    <3>2. ASSUME NEW i \in 1 .. idx PROVE obs'.members[i].digest = Some(copies'[i].blocks)
      <4>1. i \in 1 .. n /\ (i = idx \/ i \in 1 .. idx - 1)
        BY <2>1
      <4>2. copies' = copies
        BY <1>3
      <4> QED
        BY <2>2, <2>3, <2>4, <3>1, <4>1, <4>2
    <3>3. source' = source
      BY <1>3 DEF env
    <3>4. CASE idx = n
      BY <1>3, <2>1, <3>2, <3>3, <3>4 DEF DigestsOK
    <3>5. CASE idx # n
      <4>1. stage' = "open" /\ idx' - 1 = idx
        BY <1>3, <2>1, <3>5
      <4> QED
        BY <3>2, <4>1 DEF DigestsOK, CopiedStages
    <3> QED
      BY <3>4, <3>5
  <2>9. NamesOK' /\ StructureChecked' /\ WorkOK'
    <3>1. stage' \in {"identity", "open"}
      BY <1>3
    <3> QED
      BY <3>1 DEF NamesOK, StructureChecked, WorkOK, NamedStages
  <2> QED
    BY <2>6, <2>7, <2>8, <2>9 DEF CaptureInvariant
<1> QED
  BY <1>2, <1>3 DEF FinishMember

LEMMA IdentityStep ==
  ASSUME CaptureInvariant, Identity
  PROVE  CaptureInvariant'
<1> DEFINE n == Len(source)
           same(i) == copies[i].blocks[1].intact /\ copies[i].header = headers[i]
           all == \A i \in DOMAIN copies : same(i)
           first == IF all THEN Len(copies) + 1 ELSE Min({i \in DOMAIN copies : ~same(i)})
           ms == [i \in DOMAIN obs.members |->
                    IF i < first THEN [obs.members[i] EXCEPT !.identity = Some(copies[i].header)]
                    ELSE obs.members[i]]
           named == [obs EXCEPT !.members = ms]
           hs == [i \in DOMAIN copies |-> copies[i].header]
<1>1. stage = "identity" /\ DOMAIN obs = ObsFields /\ ObsShape(obs, n) /\ n \in Nat \ {0}
  BY AttemptUnderWay DEF Identity
<1>2. DOMAIN named = ObsFields /\ named.outcome = obs.outcome /\ named.members = ms
  BY <1>1 DEF ObsFields
<1>3. ASSUME NEW s, NEW r, CaptureFails(obs, s, r) \/ CaptureFails(named, s, r) PROVE CaptureInvariant'
  <2> HIDE DEF named
  <2> QED
    BY <1>1, <1>2, <1>3, FailEnds
<1>4. \/ \E s, r : CaptureFails(obs, s, r) \/ CaptureFails(named, s, r)
      \/ /\ all /\ CapturedAncestry(hs)
         /\ obs' = named /\ stage' = "structure"
         /\ UNCHANGED <<env, cancelled, idx, blk, headers, raw, copies, work, report>>
  BY DEF Identity
<1>5. CASE /\ all /\ CapturedAncestry(hs)
           /\ obs' = named /\ stage' = "structure"
           /\ UNCHANGED <<env, cancelled, idx, blk, headers, raw, copies, work, report>>
  <2>1. copies \in Seq(PrivateCopy) /\ Len(copies) = n /\ DOMAIN copies = 1 .. n /\ idx = 1
    BY <1>1 DEF CaptureInvariant, PlacesOK, CopiedStages
  <2>2. first = n + 1
    BY <1>5, <2>1
  <2> HIDE DEF first
  <2>3. DOMAIN ms = 1 .. n /\ \A i \in 1 .. n :
          ms[i] = [obs.members[i] EXCEPT !.identity = Some(copies[i].header)]
    BY <1>1, <2>2 DEF ObsShape
  <2> HIDE DEF ms, named
  <2>4. ASSUME NEW i \in 1 .. n
        PROVE  /\ DOMAIN ms[i] = MemberFields /\ ms[i].digest = obs.members[i].digest
               /\ ms[i].identity = Some(copies[i].header)
    <3>1. DOMAIN obs.members[i] = MemberFields
      BY <1>1 DEF ObsShape
    <3> QED
      BY <2>3, <3>1 DEF MemberFields
  <2>5. ObsShape(obs', n)
    BY <1>1, <1>2, <1>5, <2>3, <2>4 DEF ObsShape
  <2>6. SourceOK' /\ ObsOK' /\ VerifiedIsWhatWasCaptured'
    BY <1>5, <2>5, GoesOn
  <2>7. PlacesOK'
    BY <1>1, <1>5, <2>1
    DEF CaptureInvariant, PlacesOK, CaptureStages, SizedStages, CopiedStages, env
  <2>8. DigestsOK'
    <3>1. \A i \in 1 .. n : obs.members[i].digest = Some(copies[i].blocks)
      BY <1>1 DEF CaptureInvariant, DigestsOK, CopiedStages
    <3>2. \A i \in 1 .. n : obs'.members[i].digest = Some(copies'[i].blocks)
      BY <1>2, <1>5, <2>4, <3>1
    <3> QED
      BY <1>5, <3>2 DEF DigestsOK, env
  <2>9. NamesOK'
    <3>1. ASSUME NEW i \in 1 .. n
          PROVE  /\ obs'.members[i].identity = Some(copies'[i].header)
                 /\ copies'[i].header = headers'[i]
                 /\ copies'[i].header.chain = copies'[1].header.chain
      <4>1. same(i)
        BY <1>5, <2>1
      <4>2. hs[i].chain = hs[1].chain /\ hs[i] = copies[i].header /\ hs[1] = copies[1].header
        <5>1. DOMAIN hs = 1 .. n /\ hs[i] = copies[i].header /\ hs[1] = copies[1].header
          BY <1>1, <2>1
        <5>2. CapturedAncestry(hs)
          BY <1>5
        <5> HIDE DEF hs
        <5>3. hs[i].chain = hs[1].chain
          BY <5>1, <5>2 DEF CapturedAncestry
        <5> QED
          BY <5>1, <5>3
      <4> QED
        BY <1>2, <1>5, <2>4, <4>1, <4>2
    <3> QED
      BY <1>5, <3>1 DEF NamesOK, env
  <2>10. StructureChecked' /\ WorkOK'
    BY <1>5, <2>1 DEF StructureChecked, WorkOK
  <2> QED
    BY <2>6, <2>7, <2>8, <2>9, <2>10 DEF CaptureInvariant
<1> QED
  BY <1>3, <1>4, <1>5

\* A later call of the recorder leaves the facts of the copies as they are.
LEMMA FactsStay ==
  ASSUME CaptureInvariant, stage \in NamedStages, stage' \in NamedStages,
         KeepsFacts(obs, obs', Len(source)), UNCHANGED <<env, headers, raw, copies>>
  PROVE  SourceOK' /\ ObsOK' /\ VerifiedIsWhatWasCaptured' /\ DigestsOK' /\ NamesOK'
<1>1. SourceOK' /\ ObsOK' /\ VerifiedIsWhatWasCaptured'
  BY GoesOn DEF KeepsFacts, NamedStages
<1>2. DigestsOK'
  BY DEF CaptureInvariant, DigestsOK, KeepsFacts, NamedStages, CopiedStages, env
<1>3. NamesOK'
  BY DEF CaptureInvariant, NamesOK, KeepsFacts, env
<1> QED
  BY <1>1, <1>2, <1>3

LEMMA StructureStep ==
  ASSUME CaptureInvariant, Structure
  PROVE  CaptureInvariant'
<1> DEFINE n == Len(source)
           begun == SetStage(obs, idx, "structure", "in_progress")
<1>1. stage = "structure" /\ DOMAIN obs = ObsFields /\ ObsShape(obs, n) /\ n \in Nat \ {0}
  BY AttemptUnderWay DEF Structure
<1>2. "structure" \in MemberFields \ {"digest", "identity"}
      /\ "notice" \in MemberFields \ {"digest", "identity"}
  BY DEF MemberFields
<1>3. DOMAIN begun = ObsFields
  <2>1. KeepsFacts(obs, begun, n)
    BY <1>1, <1>2, SetStageKeeps
  <2> QED
    BY <2>1 DEF KeepsFacts, ObsShape
<1>4. ASSUME NEW s, NEW r, GiveUp(begun, s, r) PROVE CaptureInvariant'
  BY <1>3, <1>4, GiveUpEnds
<1>5. ASSUME NEW notice,
             StructureOk(OpenRo(idx)),
             obs' = [obs EXCEPT !.members[idx].structure = "complete",
                                !.members[idx].notice = notice],
             idx' = IF idx = Len(copies) THEN 1 ELSE idx + 1,
             stage' = IF idx = Len(copies) THEN "plan" ELSE "structure",
             UNCHANGED <<env, cancelled, blk, headers, raw, copies, work, report>>
      PROVE  CaptureInvariant'
  <2>1. idx \in 1 .. n /\ Len(copies) = n
    BY <1>1 DEF CaptureInvariant, PlacesOK, CopiedStages
  <2> DEFINE half == SetStage(obs, idx, "structure", "complete")
  <2>2. KeepsFacts(obs, half, n)
    BY <1>1, <1>2, SetStageKeeps
  <2>3. KeepsFacts(half, SetStage(half, idx, "notice", notice), n)
    <3>1. ObsShape(half, n)
      BY <2>2 DEF KeepsFacts
    <3> QED
      BY <1>1, <1>2, <3>1, SetStageKeeps
  <2>4. obs' = SetStage(half, idx, "notice", notice)
    BY <1>5 DEF SetStage
  <2> HIDE DEF half
  <2>5. KeepsFacts(obs, obs', n)
    BY <2>2, <2>3, <2>4 DEF KeepsFacts
  <2>6. SourceOK' /\ ObsOK' /\ VerifiedIsWhatWasCaptured' /\ DigestsOK' /\ NamesOK'
    <3>1. stage \in NamedStages /\ stage' \in NamedStages
      BY <1>1, <1>5 DEF NamedStages
    <3> QED
      BY <1>5, <2>5, <3>1, FactsStay
  <2>7. PlacesOK'
    BY <1>1, <1>5, <2>1
    DEF CaptureInvariant, PlacesOK, CaptureStages, SizedStages, CopiedStages, env
  <2>8. StructureChecked'
    <3>1. \A i \in 1 .. idx : StructureOk(copies[i])
      <4>1. \A i \in 1 .. idx - 1 : StructureOk(copies[i])
        BY <1>1 DEF CaptureInvariant, StructureChecked
      <4>2. StructureOk(copies[idx])
        BY <1>5 DEF OpenRo
      <4> QED
        BY <2>1, <4>1, <4>2
    <3>2. copies' = copies /\ source' = source
      BY <1>5 DEF env
    <3>3. CASE idx = n
      BY <1>5, <2>1, <3>1, <3>2, <3>3 DEF StructureChecked, StructureOk
    <3>4. CASE idx # n
      <4>1. stage' = "structure" /\ idx' - 1 = idx
        BY <1>5, <2>1, <3>4
      <4> QED
        BY <3>1, <3>2, <4>1 DEF StructureChecked, StructureOk
    <3> QED
      BY <3>3, <3>4
  <2>9. WorkOK'
    BY <1>5 DEF WorkOK
  <2> QED
    BY <2>6, <2>7, <2>8, <2>9 DEF CaptureInvariant
<1> QED
  BY <1>4, <1>5 DEF Structure

LEMMA ContentBegins ==
  ASSUME CaptureInvariant, Content
  PROVE  CaptureInvariant'
<1> DEFINE n == Len(source)
           h == copies[n].header
<1>1. stage = "plan" /\ DOMAIN obs = ObsFields /\ ObsShape(obs, n) /\ n \in Nat \ {0}
  BY AttemptUnderWay DEF Content
<1>2. /\ copies \in Seq(PrivateCopy) /\ Len(copies) = n /\ Len(headers) = n
      /\ headers \in Seq(Superblock)
  BY <1>1 DEF CaptureInvariant, PlacesOK, CopiedStages, SizedStages
<1>3. /\ h = headers[n] /\ h \in Superblock
      /\ h.kind = headers[1].kind /\ h.kind = source[1].header.kind
      /\ h.disk = source[1].header.disk
  <2>1. h = headers[n]
    BY <1>1 DEF CaptureInvariant, NamesOK, NamedStages
  <2>2. 1 \in DOMAIN headers /\ n \in DOMAIN headers
    BY <1>1, <1>2
  <2> QED
    BY <1>2, <2>1, <2>2 DEF CaptureInvariant, PlacesOK
<1>4. h.kind \in Kinds /\ h.disk \in BOOLEAN /\ every \in BOOLEAN
  BY <1>3 DEF Superblock, CaptureInvariant, SourceOK
<1>5. /\ refs \subseteq 1 .. n
      /\ h.disk => n = 1 /\ h.kind = "block"
      /\ h.disk \/ h.kind = "stream" => refs = {n}
  BY <1>3 DEF CaptureInvariant, SourceOK
<1>6. ASSUME NEW s, NEW r, GiveUp(obs, s, r) PROVE CaptureInvariant'
  BY <1>1, <1>6, GiveUpEnds
<1>7. CASE /\ obs' = BeginContent(obs, ContentCoverage(h.kind, h.disk, every))
           /\ work' = CASE h.disk -> DiskWork(n)
                        [] h.kind = "block" /\ ~h.disk -> BlockWork(n)
                        [] h.kind = "file" -> FileWork(n)
                        [] h.kind = "stream" -> StreamWork(n)
           /\ stage' = "content"
           /\ UNCHANGED <<env, cancelled, idx, blk, headers, raw, copies, report>>
  <2>1. KeepsFacts(obs, obs', n)
    BY <1>1, <1>4, <1>7, BeginContentKeeps
  <2>2. SourceOK' /\ ObsOK' /\ VerifiedIsWhatWasCaptured' /\ DigestsOK' /\ NamesOK'
    BY <1>1, <1>7, <2>1, FactsStay DEF NamedStages
  <2>3. PlacesOK'
    BY <1>1, <1>7
    DEF CaptureInvariant, PlacesOK, CaptureStages, SizedStages, CopiedStages, env
  <2>4. StructureChecked'
    BY <1>1, <1>7 DEF CaptureInvariant, StructureChecked, StructureOk, env
  <2> DEFINE S == IF every /\ h.kind # "file" THEN 1 .. n ELSE refs
  <2>5. ScopeOf = S /\ ScopeOf' = S
    <3>1. DOMAIN copies = 1 .. n /\ headers[1].kind = h.kind
      BY <1>2, <1>3
    <3>2. copies' = copies /\ headers' = headers /\ every' = every /\ refs' = refs
      BY <1>7 DEF env
    <3> HIDE DEF h, n
    <3> QED
      BY <3>1, <3>2 DEF ScopeOf
  <2>6. CoversScope(work', S)
    <3> HIDE DEF h, n
    <3>1. CASE h.disk
      <4>1. work' = DiskWork(n)
        BY <1>5, <1>7, <3>1 DEF Kinds
      <4>2. S = {n}
        BY <1>1, <1>5, <3>1
      <4> QED
        BY <1>1, <4>1, <4>2, DiskWorkCovers
    <3>2. CASE ~ h.disk /\ h.kind = "block"
      <4>1. work' = BlockWork(n) /\ S = IF every THEN 1 .. n ELSE refs
        BY <1>7, <3>2
      <4> QED
        BY <1>1, <1>4, <1>5, <4>1, BlockWorkCovers
    <3>3. CASE ~ h.disk /\ h.kind = "file"
      <4>1. work' = FileWork(n) /\ S = refs
        BY <1>7, <3>3
      <4> QED
        BY <1>1, <1>4, <1>5, <4>1, FileWorkCovers
    <3>4. CASE ~ h.disk /\ h.kind = "stream"
      <4>1. work' = StreamWork(n) /\ S = IF every THEN 1 .. n ELSE {n}
        BY <1>5, <1>7, <3>4
      <4> QED
        BY <1>1, <1>4, <4>1, StreamWorkCovers
    <3> QED
      BY <1>4, <3>1, <3>2, <3>3, <3>4 DEF Kinds
  <2> HIDE DEF S
  <2>7. WorkOK'
    BY <2>5, <2>6 DEF WorkOK, CoversScope
  <2> QED
    BY <2>2, <2>3, <2>4, <2>7 DEF CaptureInvariant
<1> QED
  BY <1>2, <1>6, <1>7 DEF Content, OpenRo

\* A call leaves the rest of its task, and the other tasks, to be done.
RestOf(w) == IF Len(Head(w)) = 1 THEN Tail(w) ELSE <<Tail(Head(w))>> \o Tail(w)

LEMMA TaskAdvances ==
  ASSUME NEW w, IsWork(w), w # <<>>
  PROVE  /\ Head(Head(w)) \in VerifierCall /\ IsWork(RestOf(w))
         /\ \A i : (\E t \in DOMAIN w : ReadIn(w[t], i)) =>
                      \/ Head(Head(w)) = <<"read", i>> \/ Head(Head(w)) = <<"own", i>>
                      \/ \E t \in DOMAIN RestOf(w) : ReadIn(RestOf(w)[t], i)
<1> DEFINE Q == Seq(VerifierCall)
           task == Head(w)
           op == Head(task)
           left == Tail(task)
           rest == RestOf(w)
<1>1. w \in Seq(Q) /\ \A t \in DOMAIN w : w[t] # <<>>
  BY DEF IsWork
<1>2. task \in Q /\ task # <<>> /\ task = w[1]
  <2> HIDE DEF Q
  <2>1. 1 \in DOMAIN w /\ task = w[1] /\ task \in Q
    BY <1>1
  <2> QED
    BY <1>1, <2>1
<1>3. op \in VerifierCall /\ op = task[1] /\ left \in Q /\ Len(left) = Len(task) - 1
      /\ Len(task) \in Nat \ {0} /\ \A k \in 1 .. Len(task) - 1 : left[k] = task[k + 1]
  <2> HIDE DEF task
  <2> QED
    BY <1>2
<1>4. /\ Tail(w) \in Seq(Q) /\ Len(Tail(w)) = Len(w) - 1 /\ Len(w) \in Nat \ {0}
      /\ \A t \in 1 .. Len(w) - 1 : Tail(w)[t] = w[t + 1]
  <2> HIDE DEF Q
  <2> QED
    BY <1>1
<1>5. rest = IF Len(task) = 1 THEN Tail(w) ELSE <<left>> \o Tail(w)
  BY DEF RestOf
<1> SUFFICES /\ IsWork(rest)
             /\ \A i : \A t \in DOMAIN w : ReadIn(w[t], i) =>
                    \/ op = <<"read", i>> \/ op = <<"own", i>>
                    \/ \E u \in DOMAIN rest : ReadIn(rest[u], i)
  BY <1>3
<1> HIDE DEF task, op, left, rest
<1>6. CASE Len(task) = 1
  <2>1. rest = Tail(w)
    BY <1>5, <1>6
  <2> HIDE DEF Q
  <2>2. IsWork(rest)
    <3>1. ASSUME NEW u \in DOMAIN rest PROVE rest[u] # <<>>
      BY <1>1, <1>4, <2>1
    <3> QED
      BY <1>4, <2>1, <3>1 DEF IsWork, Q
  <2>3. ASSUME NEW i, NEW t \in DOMAIN w, ReadIn(w[t], i)
        PROVE  \/ op = <<"read", i>> \/ op = <<"own", i>>
               \/ \E u \in DOMAIN rest : ReadIn(rest[u], i)
    <3>1. CASE t = 1
      <4>1. PICK k \in DOMAIN task : task[k] = <<"read", i>> \/ task[k] = <<"own", i>>
        BY <1>2, <2>3, <3>1 DEF ReadIn
      <4>2. k = 1
        BY <1>2, <1>6, <4>1 DEF Q
      <4> QED
        BY <1>3, <4>1, <4>2
    <3>2. CASE t # 1
      <4>1. t - 1 \in DOMAIN rest /\ rest[t - 1] = w[t]
        BY <1>1, <1>4, <2>1, <3>2
      <4> QED
        BY <2>3, <4>1
    <3> QED
      BY <3>1, <3>2
  <2> QED
    BY <2>2, <2>3
<1>7. CASE Len(task) # 1
  <2>1. rest = <<left>> \o Tail(w)
    BY <1>5, <1>7
  <2>2. left # <<>>
    BY <1>3, <1>7
  <2> HIDE DEF Q
  <2>3. <<left>> \in Seq(Q) /\ Len(<<left>>) = 1 /\ <<left>>[1] = left
    BY <1>3
  <2>4. rest \in Seq(Q) /\ Len(rest) = 1 + Len(Tail(w))
        /\ \A u \in 1 .. 1 + Len(Tail(w)) :
              rest[u] = IF u <= 1 THEN <<left>>[u] ELSE Tail(w)[u - 1]
    BY <1>4, <2>1, <2>3, ConcatProperties
  <2>5. DOMAIN rest = 1 .. Len(w) /\ rest[1] = left
        /\ \A u \in 2 .. Len(w) : rest[u] = w[u]
    BY <1>4, <2>3, <2>4
  <2>6. IsWork(rest)
    <3>1. ASSUME NEW u \in DOMAIN rest PROVE rest[u] # <<>>
      BY <1>1, <1>4, <2>2, <2>5
    <3> QED
      BY <2>4, <3>1 DEF IsWork, Q
  <2>7. ASSUME NEW i, NEW t \in DOMAIN w, ReadIn(w[t], i)
        PROVE  \/ op = <<"read", i>> \/ op = <<"own", i>>
               \/ \E u \in DOMAIN rest : ReadIn(rest[u], i)
    <3>1. CASE t = 1
      <4>1. PICK k \in DOMAIN task : task[k] = <<"read", i>> \/ task[k] = <<"own", i>>
        BY <1>2, <2>7, <3>1 DEF ReadIn
      <4>2. k \in 1 .. Len(task)
        BY <1>2, <4>1 DEF Q
      <4>3. CASE k = 1
        BY <1>3, <4>1, <4>3
      <4>4. CASE k # 1
        <5>1. k - 1 \in DOMAIN left /\ left[k - 1] = task[k]
          BY <1>3, <4>2, <4>4 DEF Q
        <5>2. ReadIn(left, i)
          BY <4>1, <5>1 DEF ReadIn
        <5> QED
          BY <1>4, <2>5, <5>2
      <4> QED
        BY <4>3, <4>4
    <3>2. CASE t # 1
      <4>1. t \in DOMAIN rest /\ rest[t] = w[t]
        BY <1>1, <1>4, <2>5, <3>2
      <4> QED
        BY <2>7, <4>1
    <3> QED
      BY <3>1, <3>2
  <2> QED
    BY <2>6, <2>7
<1> QED
  BY <1>6, <1>7

LEMMA ContentStepStep ==
  ASSUME CaptureInvariant, ContentStep
  PROVE  CaptureInvariant'
<1> DEFINE n == Len(source)
           op == Head(Head(work))
           begun == Apply(op, obs)
           payload == op[1] \in {"read", "own"}
<1>1. stage = "content" /\ work # <<>> /\ DOMAIN obs = ObsFields /\ ObsShape(obs, n)
      /\ n \in Nat \ {0}
  BY AttemptUnderWay DEF ContentStep
<1>2. /\ IsWork(work)
      /\ \A i \in ScopeOf : PayloadOk(copies[i]) \/ \E t \in DOMAIN work : ReadIn(work[t], i)
  BY <1>1 DEF CaptureInvariant, WorkOK
<1>3. /\ op \in VerifierCall /\ IsWork(RestOf(work))
      /\ \A i : (\E t \in DOMAIN work : ReadIn(work[t], i)) =>
                    \/ op = <<"read", i>> \/ op = <<"own", i>>
                    \/ \E t \in DOMAIN RestOf(work) : ReadIn(RestOf(work)[t], i)
  BY <1>1, <1>2, TaskAdvances
<1>4. KeepsFacts(obs, begun, n) /\ DOMAIN begun = ObsFields
  <2>1. KeepsFacts(obs, begun, n)
    BY <1>1, <1>3, ApplyKeeps
  <2> QED
    BY <2>1 DEF KeepsFacts, ObsShape
<1>5. ASSUME NEW o, o = obs \/ o = begun, NEW s, NEW r, GiveUp(o, s, r) PROVE CaptureInvariant'
  BY <1>1, <1>4, <1>5, GiveUpEnds
<1>6. CASE /\ payload => PayloadOk(OpenRo(op[2]))
           /\ obs' = begun
           /\ work' = RestOf(work)
           /\ UNCHANGED <<env, cancelled, stage, idx, blk, headers, raw, copies, report>>
  <2>1. SourceOK' /\ ObsOK' /\ VerifiedIsWhatWasCaptured' /\ DigestsOK' /\ NamesOK'
    <3> HIDE DEF op, begun
    <3> QED
      BY <1>1, <1>4, <1>6, FactsStay DEF NamedStages
  <2>2. PlacesOK'
    BY <1>1, <1>6
    DEF CaptureInvariant, PlacesOK, CaptureStages, SizedStages, CopiedStages, env
  <2>3. StructureChecked'
    BY <1>1, <1>6 DEF CaptureInvariant, StructureChecked, StructureOk, env
  <2>4. WorkOK'
    <3>1. ScopeOf' = ScopeOf /\ copies' = copies
      BY <1>6 DEF ScopeOf, env
    <3>2. ASSUME NEW i \in ScopeOf
          PROVE  PayloadOk(copies[i]) \/ \E t \in DOMAIN RestOf(work) : ReadIn(RestOf(work)[t], i)
      <4>1. op = <<"read", i>> \/ op = <<"own", i>> => PayloadOk(copies[i])
        BY <1>6 DEF OpenRo
      <4> HIDE DEF op
      <4> QED
        BY <1>2, <1>3, <4>1
    <3> QED
      BY <1>3, <1>6, <3>1, <3>2 DEF WorkOK, PayloadOk
  <2> QED
    BY <2>1, <2>2, <2>3, <2>4 DEF CaptureInvariant
<1>7. \/ \E s, r : GiveUp(obs, s, r) \/ GiveUp(begun, s, r)
      \/ /\ payload => PayloadOk(OpenRo(op[2]))
         /\ obs' = begun
         /\ work' = RestOf(work)
         /\ UNCHANGED <<env, cancelled, stage, idx, blk, headers, raw, copies, report>>
  <2> HIDE DEF op, begun
  <2> QED
    BY DEF ContentStep, RestOf, op, begun
<1> QED
  BY <1>5, <1>6, <1>7

LEMMA FinishStep ==
  ASSUME CaptureInvariant, FinishVerify
  PROVE  CaptureInvariant'
<1> DEFINE n == Len(source)
<1>1. stage = "content" /\ work = <<>> /\ DOMAIN obs = ObsFields /\ ObsShape(obs, n)
      /\ n \in Nat \ {0}
  BY AttemptUnderWay DEF FinishVerify
<1>2. ASSUME NEW s, NEW r, GiveUp(obs, s, r) PROVE CaptureInvariant'
  BY <1>1, <1>2, GiveUpEnds
<1>3. CASE /\ obs' = FinishObservation(obs, bad)
           /\ stage' = "done"
           /\ UNCHANGED <<env, cancelled, idx, blk, headers, raw, copies, work>>
  <2>1. obs'.members = obs.members
    BY <1>1, <1>3 DEF FinishObservation, ObsFields
  <2>2. copies \in Seq(PrivateCopy) /\ DOMAIN copies = 1 .. n
    BY <1>1 DEF CaptureInvariant, PlacesOK, CopiedStages
  <2>3. ASSUME NEW i \in DOMAIN copies
        PROVE  /\ obs.members[i].digest = Some(copies[i].blocks)
               /\ obs.members[i].identity = Some(copies[i].header)
               /\ StructureOk(copies[i])
               /\ copies[i].header.chain = copies[1].header.chain
    BY <1>1, <2>2
    DEF CaptureInvariant, DigestsOK, NamesOK, StructureChecked, CopiedStages, NamedStages
  <2>4. ASSUME NEW i \in ScopeOf PROVE PayloadOk(copies[i])
    <3>1. DOMAIN work = {}
      BY <1>1
    <3> QED
      BY <1>1, <3>1 DEF CaptureInvariant, WorkOK
  <2>5. VerifiedIsWhatWasCaptured'
    <3>1. copies' = copies /\ ScopeOf' = ScopeOf
      BY <1>3 DEF ScopeOf, env
    <3> QED
      BY <2>1, <2>3, <2>4, <3>1 DEF VerifiedIsWhatWasCaptured, StructureOk, PayloadOk
  <2>6. SourceOK'
    BY <1>3 DEF CaptureInvariant, SourceOK, env
  <2>7. PlacesOK'
    BY <1>3 DEF CaptureInvariant, PlacesOK, CaptureStages, SizedStages, CopiedStages, env
  <2>8. ObsOK' /\ DigestsOK' /\ NamesOK' /\ StructureChecked' /\ WorkOK'
    BY <1>3 DEF ObsOK, DigestsOK, NamesOK, StructureChecked, WorkOK, CopiedStages, NamedStages
  <2> QED
    BY <2>5, <2>6, <2>7, <2>8 DEF CaptureInvariant
<1> QED
  BY <1>2, <1>3 DEF FinishVerify

-----------------------------------------------------------------------------
\* What happens to the source files does not reach the copies.
LEMMA ChangeStep ==
  ASSUME CaptureInvariant, NEW i \in DOMAIN source, NEW f \in SourceFile,
         f.header.kind = source[i].header.kind, f.header.disk = source[i].header.disk,
         Change(i, f)
  PROVE  CaptureInvariant'
<1>1. /\ stage # "done" /\ changes' = changes + 1 /\ source' = [source EXCEPT ![i] = f]
      /\ UNCHANGED <<every, refs, bad, cancelled, stage, idx, blk, headers, raw, copies, work,
                     obs, report>>
  BY DEF Change
<1>2. source \in Seq(SourceFile) /\ source # <<>> /\ Len(source) \in Nat
  BY DEF CaptureInvariant, SourceOK
<1>3. source' \in Seq(SourceFile) /\ Len(source') = Len(source) /\ source' # <<>>
      /\ \A j \in 1 .. Len(source) : source'[j] = IF j = i THEN f ELSE source[j]
  BY <1>1, <1>2
<1>4. 1 \in 1 .. Len(source) /\ i \in 1 .. Len(source)
  BY <1>2, EmptySeq
<1>5. \A j \in 1 .. Len(source) : /\ source[j].header.kind = source[1].header.kind
                                  /\ source[j].header.disk = source[1].header.disk
  BY <1>2 DEF CaptureInvariant, SourceOK
<1>6. \A j \in 1 .. Len(source) : /\ source'[j].header.kind = source[1].header.kind
                                  /\ source'[j].header.disk = source[1].header.disk
  BY <1>3, <1>4, <1>5
<1>7. DOMAIN source' = 1 .. Len(source) /\ source'[1].header.kind = source[1].header.kind
      /\ source'[1].header.disk = source[1].header.disk
  BY <1>3, <1>4, <1>6
<1>8. SourceOK'
  <2>1. changes' \in Nat
    BY <1>1 DEF CaptureInvariant, SourceOK
  <2> QED
    BY <1>1, <1>3, <1>6, <1>7, <2>1 DEF CaptureInvariant, SourceOK
<1>9. PlacesOK'
  BY <1>1, <1>3, <1>7 DEF CaptureInvariant, PlacesOK
<1>10. ObsOK' /\ DigestsOK' /\ NamesOK' /\ StructureChecked'
  BY <1>1, <1>3
  DEF CaptureInvariant, ObsOK, DigestsOK, NamesOK, StructureChecked, StructureOk
<1>11. WorkOK'
  <2>1. ScopeOf' = ScopeOf
    BY <1>1 DEF ScopeOf
  <2> QED
    BY <1>1, <2>1 DEF CaptureInvariant, WorkOK, PayloadOk
<1>12. VerifiedIsWhatWasCaptured'
  BY <1>1 DEF CaptureInvariant, ObsOK, VerifiedIsWhatWasCaptured, ReportsVerified
<1> QED
  BY <1>8, <1>9, <1>10, <1>11, <1>12 DEF CaptureInvariant

LEMMA SourceChanges ==
  ASSUME CaptureAssumption, CaptureInvariant, NEW i \in DOMAIN source,
         Delete(i) \/ Truncate(i) \/ Extend(i) \/ BitRot(i) \/ Rewrite(i)
  PROVE  CaptureInvariant'
<1> DEFINE s == source[i]
<1>1. s \in SourceFile /\ i \in Nat /\ changes \in Nat /\ MaxChain \in Nat
  BY DEF CaptureInvariant, SourceOK, CaptureAssumption
<1>2. s.there \in BOOLEAN /\ s.header \in Superblock /\ s.blocks \in Seq(FileBlock)
  <2> HIDE DEF s
  <2> QED
    BY <1>1 DEF SourceFile
<1> HIDE DEF s
<1>3. CASE Delete(i)
  <2> DEFINE f == [s EXCEPT !.there = FALSE]
  <2>1. f \in SourceFile /\ f.header = s.header
    BY <1>1 DEF SourceFile
  <2>2. Change(i, f)
    BY <1>3 DEF Delete, s
  <2> HIDE DEF f
  <2> QED
    BY <2>1, <2>2, ChangeStep DEF s
<1>4. CASE Truncate(i)
  <2> DEFINE f == [s EXCEPT !.blocks = SubSeq(@, 1, Length(s) - 1)]
  <2>1. SubSeq(s.blocks, 1, Length(s) - 1) \in Seq(FileBlock)
    <3>1. Length(s) > 0 /\ Length(s) = Len(s.blocks)
      BY <1>4 DEF Truncate, s, Length
    <3> QED
      BY <1>2, <3>1
  <2>2. f \in SourceFile /\ f.header = s.header
    BY <1>1, <2>1 DEF SourceFile
  <2>3. Change(i, f)
    BY <1>4 DEF Truncate, s
  <2> HIDE DEF f
  <2> QED
    BY <2>2, <2>3, ChangeStep DEF s
<1>5. CASE Extend(i)
  <2> DEFINE b == [version |-> 0, intact |-> TRUE]
             f == [s EXCEPT !.blocks = Append(@, b)]
  <2>1. Append(s.blocks, b) \in Seq(FileBlock)
    <3>1. b \in FileBlock
      BY DEF FileBlock
    <3> HIDE DEF b
    <3> QED
      BY <1>2, <3>1
  <2>2. f \in SourceFile /\ f.header = s.header
    <3> HIDE DEF b
    <3> QED
      BY <1>1, <2>1 DEF SourceFile
  <2>3. Change(i, f)
    BY <1>5 DEF Extend, s
  <2> HIDE DEF f
  <2> QED
    BY <2>2, <2>3, ChangeStep DEF s
<1>6. CASE BitRot(i)
  <2>1. PICK b \in DOMAIN s.blocks : Change(i, [s EXCEPT !.blocks[b].intact = FALSE])
    BY <1>6 DEF BitRot, s
  <2> DEFINE c == [s.blocks EXCEPT ![b].intact = FALSE]
             f == [s EXCEPT !.blocks = c]
  <2>2. c \in Seq(FileBlock)
    <3>1. s.blocks[b] \in FileBlock
      BY <1>2
    <3>2. [s.blocks[b] EXCEPT !.intact = FALSE] \in FileBlock
      BY <3>1 DEF FileBlock
    <3> QED
      BY <1>2, <3>2
  <2>3. f \in SourceFile /\ f.header = s.header
    <3> HIDE DEF c
    <3> QED
      BY <1>1, <2>2 DEF SourceFile
  <2>4. Change(i, f)
    BY <2>1
  <2> HIDE DEF f
  <2> QED
    BY <2>3, <2>4, ChangeStep DEF s
<1>7. CASE Rewrite(i)
  <2> DEFINE new == [version |-> changes + 1, intact |-> TRUE]
             c == [b \in DOMAIN s.blocks |-> new]
  <2>1. PICK uuid \in {i, i + MaxChain} :
          Change(i, [s EXCEPT !.header = [@ EXCEPT !.uuid = uuid, !.chain = 2], !.blocks = c])
    BY <1>7 DEF Rewrite, s
  <2> DEFINE g == [s.header EXCEPT !.uuid = uuid]
             h == [g EXCEPT !.chain = 2]
             f == [s EXCEPT !.header = h, !.blocks = c]
  <2>2. h \in Superblock /\ h.kind = s.header.kind /\ h.disk = s.header.disk
    <3>1. uuid \in Nat
      BY <1>1, <2>1
    <3>2. g \in Superblock /\ g.kind = s.header.kind /\ g.disk = s.header.disk
      BY <1>2, <3>1 DEF Superblock
    <3> HIDE DEF g
    <3> QED
      BY <3>2 DEF Superblock
  <2>3. c \in Seq(FileBlock)
    <3>1. new \in FileBlock
      BY <1>1 DEF FileBlock
    <3> HIDE DEF new
    <3>2. DOMAIN s.blocks = 1 .. Len(s.blocks) /\ Len(s.blocks) \in Nat
      BY <1>2
    <3>3. c = [b \in 1 .. Len(s.blocks) |-> new]
      BY <3>2
    <3> QED
      BY <3>1, <3>2, <3>3
  <2>4. Change(i, f)
    BY <2>1
  <2> HIDE DEF h, c, new
  <2>5. f \in SourceFile /\ f.header = h
    BY <1>1, <2>2, <2>3 DEF SourceFile
  <2> HIDE DEF f
  <2> QED
    BY <2>2, <2>4, <2>5, ChangeStep DEF s
<1> QED
  BY <1>3, <1>4, <1>5, <1>6, <1>7

LEMMA CaptureUnchanged ==
  ASSUME CaptureInvariant,
         UNCHANGED <<env, stage, idx, blk, headers, raw, copies, work, obs>>
  PROVE  CaptureInvariant'
<1>1. SourceOK' /\ PlacesOK'
  BY DEF CaptureInvariant, SourceOK, PlacesOK, env
<1>2. ObsOK' /\ DigestsOK' /\ NamesOK' /\ StructureChecked'
  BY DEF CaptureInvariant, ObsOK, DigestsOK, NamesOK, StructureChecked, StructureOk, env
<1>3. ScopeOf' = ScopeOf
  BY DEF ScopeOf, env
<1>4. WorkOK'
  BY <1>3 DEF CaptureInvariant, WorkOK, PayloadOk
<1>5. VerifiedIsWhatWasCaptured'
  BY <1>3
  DEF CaptureInvariant, VerifiedIsWhatWasCaptured, ReportsVerified, StructureOk, PayloadOk
<1> QED
  BY <1>1, <1>2, <1>4, <1>5 DEF CaptureInvariant

LEMMA CaptureInitial ==
  ASSUME CaptureAssumption, CaptureInit
  PROVE  CaptureInvariant
<1>1. PICK n \in 1 .. MaxChain, kind \in Kinds, disk \in BOOLEAN :
        /\ disk => n = 1 /\ kind = "block"
        /\ source = [i \in 1 .. n |-> Image(i, kind, disk)]
        /\ refs \in IF kind = "stream" \/ disk THEN {{n}} ELSE SUBSET (1 .. n)
  BY DEF CaptureInit
<1>2. n \in Nat \ {0} /\ 1 \in 1 .. n
  BY <1>1 DEF CaptureAssumption
<1>3. ASSUME NEW i \in 1 .. n
      PROVE  /\ Image(i, kind, disk) \in SourceFile
             /\ Image(i, kind, disk).header.kind = kind
             /\ Image(i, kind, disk).header.disk = disk
  <2> DEFINE hd == Header(i, i - 1, kind, disk)
             bs == [b \in 1 .. Blocks |-> [version |-> 0, intact |-> TRUE]]
  <2>1. i \in Nat /\ i - 1 \in Nat
    BY <1>2
  <2>2. hd \in Superblock /\ hd.kind = kind /\ hd.disk = disk
    BY <2>1 DEF Superblock, Header
  <2>3. bs \in Seq(FileBlock)
    <3>1. [version |-> 0, intact |-> TRUE] \in FileBlock
      BY DEF FileBlock
    <3> QED
      BY <3>1 DEF Blocks
  <2>4. Image(i, kind, disk) = [there |-> TRUE, header |-> hd, blocks |-> bs]
    BY DEF Image
  <2> HIDE DEF hd, bs
  <2> QED
    BY <2>2, <2>3, <2>4 DEF SourceFile
<1>4. /\ source \in Seq(SourceFile) /\ Len(source) = n /\ source # <<>>
      /\ DOMAIN source = 1 .. n
      /\ \A i \in 1 .. n : source[i].header.kind = kind /\ source[i].header.disk = disk
  <2> DEFINE im(i) == Image(i, kind, disk)
  <2>1. source = [i \in 1 .. n |-> im(i)]
    BY <1>1
  <2>2. \A i \in 1 .. n : im(i) \in SourceFile /\ im(i).header.kind = kind
                          /\ im(i).header.disk = disk
    BY <1>3
  <2> HIDE DEF im
  <2>3. source \in Seq(SourceFile) /\ Len(source) = n /\ DOMAIN source = 1 .. n
    BY <1>2, <2>1, <2>2
  <2> QED
    BY <1>2, <2>1, <2>2, <2>3
<1>5. changes \in Nat /\ every \in BOOLEAN
  BY DEF CaptureInit
<1>6. refs \subseteq 1 .. n /\ (disk \/ kind = "stream" => refs = {n})
  BY <1>1, <1>2
<1>7. SourceOK
  BY <1>1, <1>2, <1>4, <1>5, <1>6 DEF SourceOK
<1>8. PlacesOK
  BY DEF CaptureInit, PlacesOK, CaptureStages, SizedStages, CopiedStages
<1>9. obs = NewObservation(IF every THEN EveryMember ELSE Selected) /\ stage = "resolve"
  BY DEF CaptureInit
<1>10. DOMAIN obs = ObsFields /\ obs.outcome.status = "incomplete"
  BY <1>9 DEF NewObservation, ObsFields, Incomplete
<1>11. ObsOK
  BY <1>9, <1>10 DEF ObsOK
<1>12. DigestsOK /\ NamesOK /\ StructureChecked /\ WorkOK
  BY <1>9 DEF DigestsOK, NamesOK, StructureChecked, WorkOK, CopiedStages, NamedStages
<1>13. VerifiedIsWhatWasCaptured
  BY <1>10 DEF VerifiedIsWhatWasCaptured, ReportsVerified
<1> QED
  BY <1>7, <1>8, <1>11, <1>12, <1>13 DEF CaptureInvariant

\* Whatever happens to the source files, and wherever the attempt is cancelled or fails, each
\* stage of a captured verification rests on what the stages before it established about the
\* private copies (capture.rs, verify.rs).
THEOREM CaptureInvariance == CaptureAssumption => (CaptureSpec => []CaptureInvariant)
<1> SUFFICES ASSUME CaptureAssumption PROVE CaptureSpec => []CaptureInvariant
  OBVIOUS
<1>1. CaptureInit => CaptureInvariant
  BY CaptureInitial
<1>2. CaptureInvariant /\ [CaptureNext]_captureVars => CaptureInvariant'
  <2> SUFFICES ASSUME CaptureInvariant, [CaptureNext]_captureVars
               PROVE  CaptureInvariant'
    OBVIOUS
  <2>1. CASE Verifier
    BY <2>1, ResolveStep, PreflightStep, ScratchStep, OpenMemberStep, CopyBlockStep,
       FinishMemberStep, IdentityStep, StructureStep, ContentBegins, ContentStepStep, FinishStep
    DEF Verifier
  <2>2. CASE \E i \in DOMAIN source :
               Delete(i) \/ Truncate(i) \/ Extend(i) \/ BitRot(i) \/ Rewrite(i)
    BY <2>2, SourceChanges
  <2>3. CASE Cancel
    BY <2>3, CaptureUnchanged DEF Cancel
  <2>4. CASE UNCHANGED captureVars
    BY <2>4, CaptureUnchanged DEF captureVars
  <2> QED
    BY <2>1, <2>2, <2>3, <2>4 DEF CaptureNext, World, Done
<1> QED
  BY <1>1, <1>2, PTL DEF CaptureSpec

\* A verification that succeeds vouches for the bytes whose digest it recorded: whole images of
\* one chain, with every payload in the scope of the request sound, for chains of any length and
\* of every kind (capture.rs 150-420, verify.rs verify_members_in_set_inner).
THEOREM VerifiedMeansCaptured ==
  CaptureAssumption => (CaptureSpec => []VerifiedIsWhatWasCaptured)
<1> SUFFICES ASSUME CaptureAssumption PROVE CaptureSpec => []VerifiedIsWhatWasCaptured
  OBVIOUS
<1>1. CaptureInvariant => VerifiedIsWhatWasCaptured
  BY DEF CaptureInvariant
<1> QED
  BY <1>1, CaptureInvariance, PTL

-----------------------------------------------------------------------------
(***************************************************************************)
(* What the recorder of a captured verification is told: RecordInvariant   *)
(* follows it member by member, and the plan of the content phase call by  *)
(* call, until the ledger's validate_attempt reads what is left.           *)
(***************************************************************************)
\* How far the verifier has come with member i.
Sized(i) == stage \in SizedStages \/ i < idx
Copied(i) == stage \in CopiedStages \/ (stage \in {"open", "copy"} /\ i < idx)
Checked(i) == stage \in {"plan", "content"} \/ (stage = "structure" /\ i < idx)

\* What the recorder has been told of a member is exactly what was done with it.
MemberFollows(m, i) ==
  /\ Sized(i) => m.raw_length = Some(raw[i]) /\ raw[i] # 0
  /\ m.capture = IF Copied(i) THEN "complete"
                 ELSE IF stage = "copy" /\ i = idx THEN "in_progress" ELSE "not_started"
  /\ ~ Copied(i) => m.digest = Absent
  /\ stage \notin NamedStages => m.identity = Absent
  /\ m.structure = IF Checked(i) THEN "complete" ELSE "not_started"
  /\ ~ Checked(i) => m.notice = Absent
  /\ stage # "content" => \A f \in ContentFields : m[f] = "not_requested"

CoverageOf == ContentCoverage(headers[Len(headers)].kind, headers[Len(headers)].disk, every)

RecorderFollows ==
  stage # "done" =>
    /\ obs.schema = 1 /\ obs.coverage_version = 1
    /\ obs.scope = IF every THEN EveryMember ELSE Selected
    /\ obs.coverage = IF stage = "content" THEN Some(CoverageOf) ELSE Absent
    /\ report = Absent /\ bad \in Nat
    /\ stage = "resolve" => obs.members = <<>>
    /\ stage # "resolve" => \A i \in 1 .. Len(source) : MemberFollows(obs.members[i], i)

\* The names were compared with the chain that was resolved.
AncestryOK ==
  stage # "done" =>
    /\ \A i \in DOMAIN headers : headers[i].uuid = i
    /\ stage \in NamedStages => CapturedAncestry([i \in DOMAIN copies |-> copies[i].header])

\* The plan of the content phase: the calls it may make, and that the last call about each
\* field a coverage asks for is the one that completes it.
Begins(op, i, f) == \/ op[1] = "begin" /\ op[2] = i /\ op[3] = f
                    \/ op[1] = "begin_all" /\ f = "every_stored"
Settles(op, i, f) == \/ op[1] = "complete" /\ op[2] = i /\ op[3] = f
                     \/ op[1] = "complete_all" /\ f = "every_stored"
                     \/ op[1] = "referenced" /\ f = "referenced"
Allowed(op, c, n) ==
  /\ op[1] \in {"begin", "complete"} => op[3] \in Requested(c, op[2] = n)
  /\ op[1] \in {"begin_all", "complete_all"} =>
        \A selected \in BOOLEAN : "every_stored" \in Requested(c, selected)
  /\ op[1] = "read" => \A selected \in BOOLEAN : "referenced" \in Requested(c, selected)
BegunIn(s, i, f) == \E k \in DOMAIN s : Begins(s[k], i, f)
SettledIn(s, i, f) == \E k \in DOMAIN s : /\ Settles(s[k], i, f)
                                          /\ \A l \in DOMAIN s : l > k => ~ Begins(s[l], i, f)
AllAllowed(w, c, n) == \A t \in DOMAIN w : \A k \in DOMAIN w[t] : Allowed(w[t][k], c, n)
Unbegun(w, i, f) == \A t \in DOMAIN w : ~ BegunIn(w[t], i, f)
WillSettle(w, i, f) == \E t \in DOMAIN w : /\ SettledIn(w[t], i, f)
                                           /\ \A u \in DOMAIN w : u > t => ~ BegunIn(w[u], i, f)

FieldOK(w, m, c, n, i) ==
  \A f \in ContentFields :
    IF f \in Requested(c, i = n)
    THEN /\ m[f] \in {"not_started", "in_progress", "complete"}
         /\ (m[f] = "complete" /\ Unbegun(w, i, f)) \/ WillSettle(w, i, f)
    ELSE m[f] = "not_requested"

PlanFollowed ==
  stage = "content" =>
    /\ AllAllowed(work, CoverageOf, Len(source))
    /\ \A i \in 1 .. Len(source) :
          FieldOK(work, obs.members[i], CoverageOf, Len(source), i)

CapKept ==
  /\ stage \in SizedStages => ~ (RawTotal(raw) > MaxRawBytes)
  /\ stage = "copy" => Len(copies[idx].blocks) = blk - 1 /\ blk <= raw[idx] + 1

RecordInvariant ==
  /\ RecorderFollows /\ AncestryOK /\ PlanFollowed /\ CapKept
  /\ ReceiptIsValid /\ CaptureStaysWithinCap

-----------------------------------------------------------------------------
\* What a call of the recorder does to each field of each member.
Frame(o, p, n) ==
  /\ ObsShape(p, n) /\ p.schema = o.schema /\ p.coverage_version = o.coverage_version
  /\ p.scope = o.scope /\ p.coverage = o.coverage

LEMMA FrameOf ==
  ASSUME NEW o, NEW n \in Nat, NEW ms, ObsShape(o, n), DOMAIN ms = 1 .. n,
         \A i \in 1 .. n : DOMAIN ms[i] = MemberFields
  PROVE  /\ Frame(o, [o EXCEPT !.members = ms], n)
         /\ [o EXCEPT !.members = ms].members = ms
BY DEF Frame, ObsShape, ObsFields

LEMMA SetStageValues ==
  ASSUME NEW o, NEW n \in Nat, NEW i, NEW f \in MemberFields, NEW v, ObsShape(o, n)
  PROVE  /\ Frame(o, SetStage(o, i, f, v), n)
         /\ \A j \in 1 .. n, g \in MemberFields :
              SetStage(o, i, f, v).members[j][g] = IF j = i /\ g = f THEN v ELSE o.members[j][g]
<1> DEFINE ms == [o.members EXCEPT ![i] = [@ EXCEPT ![f] = v]]
<1>1. SetStage(o, i, f, v) = [o EXCEPT !.members = ms]
  BY DEF SetStage
<1>2. DOMAIN ms = 1 .. n
  BY DEF ObsShape
<1>3. ASSUME NEW j \in 1 .. n
      PROVE  /\ DOMAIN ms[j] = MemberFields
             /\ \A g \in MemberFields : ms[j][g] = IF j = i /\ g = f THEN v ELSE o.members[j][g]
  <2>1. ms[j] = IF j = i THEN [o.members[j] EXCEPT ![f] = v] ELSE o.members[j]
    BY DEF ObsShape
  <2>2. DOMAIN o.members[j] = MemberFields
    BY DEF ObsShape
  <2> HIDE DEF ms
  <2> QED
    BY <2>1, <2>2
<1> HIDE DEF ms
<1>4. Frame(o, [o EXCEPT !.members = ms], n) /\ [o EXCEPT !.members = ms].members = ms
  BY <1>2, <1>3, FrameOf
<1> QED
  BY <1>1, <1>3, <1>4

LEMMA SetAllValues ==
  ASSUME NEW o, NEW n \in Nat, NEW f \in MemberFields, NEW v, ObsShape(o, n)
  PROVE  /\ Frame(o, SetAll(o, f, v), n)
         /\ \A j \in 1 .. n, g \in MemberFields :
              SetAll(o, f, v).members[j][g] = IF g = f THEN v ELSE o.members[j][g]
<1> DEFINE ms == [i \in DOMAIN o.members |-> [o.members[i] EXCEPT ![f] = v]]
<1>1. SetAll(o, f, v) = [o EXCEPT !.members = ms]
  BY DEF SetAll
<1>2. DOMAIN ms = 1 .. n
  BY DEF ObsShape
<1>3. ASSUME NEW j \in 1 .. n
      PROVE  /\ DOMAIN ms[j] = MemberFields
             /\ \A g \in MemberFields : ms[j][g] = IF g = f THEN v ELSE o.members[j][g]
  <2>1. ms[j] = [o.members[j] EXCEPT ![f] = v] /\ DOMAIN o.members[j] = MemberFields
    BY DEF ObsShape
  <2> HIDE DEF ms
  <2> QED
    BY <2>1
<1> HIDE DEF ms
<1>4. Frame(o, [o EXCEPT !.members = ms], n) /\ [o EXCEPT !.members = ms].members = ms
  BY <1>2, <1>3, FrameOf
<1> QED
  BY <1>1, <1>3, <1>4

LEMMA CompleteReferencedValues ==
  ASSUME NEW o, NEW n \in Nat, ObsShape(o, n)
  PROVE  /\ Frame(o, CompleteReferenced(o), n)
         /\ \A j \in 1 .. n, g \in MemberFields :
              CompleteReferenced(o).members[j][g] =
                IF g = "referenced" /\ o.members[j][g] \in {"not_started", "in_progress"}
                THEN "complete" ELSE o.members[j][g]
<1> DEFINE ms == [i \in DOMAIN o.members |->
                    IF o.members[i].referenced \in {"not_started", "in_progress"}
                    THEN [o.members[i] EXCEPT !.referenced = "complete"] ELSE o.members[i]]
<1>1. CompleteReferenced(o) = [o EXCEPT !.members = ms]
  BY DEF CompleteReferenced
<1>2. DOMAIN ms = 1 .. n
  BY DEF ObsShape
<1>3. ASSUME NEW j \in 1 .. n
      PROVE  /\ DOMAIN ms[j] = MemberFields
             /\ \A g \in MemberFields : ms[j][g] =
                  IF g = "referenced" /\ o.members[j][g] \in {"not_started", "in_progress"}
                  THEN "complete" ELSE o.members[j][g]
  <2>1. /\ ms[j] = IF o.members[j].referenced \in {"not_started", "in_progress"}
                   THEN [o.members[j] EXCEPT !.referenced = "complete"] ELSE o.members[j]
        /\ DOMAIN o.members[j] = MemberFields
    BY DEF ObsShape
  <2> HIDE DEF ms
  <2> QED
    BY <2>1
<1> HIDE DEF ms
<1>4. Frame(o, [o EXCEPT !.members = ms], n) /\ [o EXCEPT !.members = ms].members = ms
  BY <1>2, <1>3, FrameOf
<1> QED
  BY <1>1, <1>3, <1>4

\* The only fields the coverages ask for are the content fields.
Coverages == {"whole_disk_regions", "block_every", "block_selected", "file_every",
              "file_selected", "stream_every", "stream_selected"}

LEMMA CoverageIsOne ==
  ASSUME NEW kind \in Kinds, NEW disk \in BOOLEAN, NEW e \in BOOLEAN
  PROVE  ContentCoverage(kind, disk, e) \in Coverages
BY DEF ContentCoverage, Kinds, Coverages

LEMMA RequestedFields ==
  ASSUME NEW c \in Coverages, NEW selected \in BOOLEAN
  PROVE  /\ Requested(c, selected) \subseteq ContentFields
         /\ selected => "recovery_point" \in Requested(c, selected)
BY DEF Coverages, Requested, ContentFields

LEMMA BeginContentValues ==
  ASSUME NEW o, NEW n \in Nat, NEW c \in Coverages, ObsShape(o, n)
  PROVE  /\ ObsShape(BeginContent(o, c), n)
         /\ BeginContent(o, c).schema = o.schema /\ BeginContent(o, c).scope = o.scope
         /\ BeginContent(o, c).coverage_version = o.coverage_version
         /\ BeginContent(o, c).coverage = Some(c)
         /\ \A j \in 1 .. n, g \in MemberFields :
              BeginContent(o, c).members[j][g] =
                IF g \in Requested(c, j = n) THEN "not_started" ELSE o.members[j][g]
<1> DEFINE ms == [i \in DOMAIN o.members |-> [f \in DOMAIN o.members[i] |->
                    IF f \in Requested(c, i = Len(o.members)) THEN "not_started"
                    ELSE o.members[i][f]]]
           p == [o EXCEPT !.coverage = Some(c), !.members = ms]
<1>1. BeginContent(o, c) = p
  BY DEF BeginContent
<1>2. DOMAIN ms = 1 .. n /\ Len(o.members) = n
  BY DEF ObsShape
<1>3. ASSUME NEW j \in 1 .. n
      PROVE  /\ DOMAIN ms[j] = MemberFields
             /\ \A g \in MemberFields : ms[j][g] =
                  IF g \in Requested(c, j = n) THEN "not_started" ELSE o.members[j][g]
  <2>1. /\ ms[j] = [f \in DOMAIN o.members[j] |->
                      IF f \in Requested(c, j = Len(o.members)) THEN "not_started"
                      ELSE o.members[j][f]]
        /\ DOMAIN o.members[j] = MemberFields
    BY DEF ObsShape
  <2> HIDE DEF ms
  <2> QED
    BY <1>2, <2>1
<1> HIDE DEF ms
<1>4. /\ DOMAIN p = ObsFields /\ p.outcome = o.outcome /\ p.members = ms
      /\ p.schema = o.schema /\ p.scope = o.scope /\ p.coverage_version = o.coverage_version
      /\ p.coverage = Some(c)
  BY DEF ObsShape, ObsFields
<1>5. ObsShape(p, n)
  BY <1>2, <1>3, <1>4 DEF ObsShape
<1> HIDE DEF p
<1> QED
  BY <1>1, <1>3, <1>4, <1>5

-----------------------------------------------------------------------------
\* An attempt that ends early leaves a receipt the ledger takes.
LEMMA EndsRecorded ==
  ASSUME RecordInvariant, stage' = "done", UNCHANGED <<copies, raw>>, ValidAttempt(obs', report')
  PROVE  RecordInvariant'
<1>1. RecorderFollows' /\ AncestryOK' /\ PlanFollowed' /\ CapKept'
  BY DEF RecorderFollows, AncestryOK, PlanFollowed, CapKept, SizedStages
<1>2. ReceiptIsValid'
  BY DEF ReceiptIsValid
<1>3. CaptureStaysWithinCap'
  BY DEF RecordInvariant, CaptureStaysWithinCap, Length
<1> QED
  BY <1>1, <1>2, <1>3 DEF RecordInvariant

LEMMA IncompleteIsValid ==
  ASSUME NEW o, o.schema = 1, o.coverage_version = 1, o.outcome.status = "incomplete",
         ValidPartial(o)
  PROVE  ValidAttempt(o, Absent)
<1>1. o.outcome # IntegrityVerified /\ o.outcome # VerifiedWithLoss
  BY DEF IntegrityVerified, VerifiedWithLoss
<1> QED
  BY <1>1 DEF ValidAttempt, ValidHeader

\* Before the content phase nothing was asked for.
Unasked(o) ==
  /\ DOMAIN o = ObsFields /\ o.schema = 1 /\ o.coverage_version = 1 /\ o.coverage = Absent
  /\ \A i \in DOMAIN o.members : /\ ValidMember(o.members[i])
                                 /\ \A f \in ContentFields : o.members[i][f] = "not_requested"

LEMMA FailRecords ==
  ASSUME RecordInvariant, stage # "done", NEW o, Unasked(o), NEW s, NEW r, CaptureFails(o, s, r)
  PROVE  RecordInvariant'
<1> DEFINE p == [o EXCEPT !.outcome = Incomplete(s, r)]
<1>1. obs' = p /\ stage' = "done" /\ report' = report /\ UNCHANGED <<copies, raw>>
  BY DEF CaptureFails
<1>2. /\ p.schema = 1 /\ p.coverage_version = 1 /\ p.coverage = Absent
      /\ p.outcome.status = "incomplete" /\ p.members = o.members
  BY DEF Unasked, ObsFields, Incomplete
<1> HIDE DEF p
<1>3. ValidPartial(p)
  BY <1>2 DEF ValidPartial, Unasked, Has
<1>4. report = Absent
  BY DEF RecordInvariant, RecorderFollows
<1> QED
  BY <1>1, <1>2, <1>3, <1>4, IncompleteIsValid, EndsRecorded

\* What a failure of the verifier may find: the members are captured and named, and what is
\* in progress is a structure check, or a content check of a chain with sound structure.
Abandoned(m) ==
  /\ m.capture = "complete" /\ Has(m.raw_length) /\ Has(m.digest) /\ Has(m.identity)
  /\ m.structure \in {"not_started", "in_progress", "complete"}
  /\ Has(m.notice) => m.structure = "complete"

LEMMA FailObservationValues ==
  ASSUME NEW o, NEW n \in Nat, ObsShape(o, n), NEW s, NEW r
  PROVE  LET p == FailObservation(o, s, r)
         IN  /\ Frame(o, p, n)
             /\ \A j \in 1 .. n, g \in MemberFields :
                  p.members[j][g] = IF /\ g \in ContentFields \cup {"capture", "structure"}
                                       /\ o.members[j][g] = "in_progress"
                                    THEN "failed" ELSE o.members[j][g]
<1> DEFINE ms == [i \in DOMAIN o.members |-> [f \in DOMAIN o.members[i] |->
                    IF f \in ContentFields \cup {"capture", "structure"}
                       /\ o.members[i][f] = "in_progress"
                    THEN "failed" ELSE o.members[i][f]]]
           p == [o EXCEPT !.outcome = Incomplete(s, r), !.members = ms]
<1>1. FailObservation(o, s, r) = p
  BY DEF FailObservation
<1>2. DOMAIN ms = 1 .. n
  BY DEF ObsShape
<1>3. ASSUME NEW j \in 1 .. n
      PROVE  /\ DOMAIN ms[j] = MemberFields
             /\ \A g \in MemberFields : ms[j][g] =
                  IF /\ g \in ContentFields \cup {"capture", "structure"}
                     /\ o.members[j][g] = "in_progress"
                  THEN "failed" ELSE o.members[j][g]
  <2>1. /\ ms[j] = [f \in DOMAIN o.members[j] |->
                      IF f \in ContentFields \cup {"capture", "structure"}
                         /\ o.members[j][f] = "in_progress"
                      THEN "failed" ELSE o.members[j][f]]
        /\ DOMAIN o.members[j] = MemberFields
    BY DEF ObsShape
  <2> HIDE DEF ms
  <2> QED
    BY <2>1
<1> HIDE DEF ms
<1>4. /\ DOMAIN p = ObsFields /\ p.outcome = Incomplete(s, r) /\ p.members = ms
      /\ p.schema = o.schema /\ p.scope = o.scope /\ p.coverage_version = o.coverage_version
      /\ p.coverage = o.coverage
  BY DEF ObsShape, ObsFields
<1>5. Frame(o, p, n)
  BY <1>2, <1>3, <1>4 DEF ObsShape, Frame, Incomplete
<1> HIDE DEF p
<1> QED
  BY <1>1, <1>3, <1>4, <1>5

LEMMA GiveUpRecords ==
  ASSUME RecordInvariant, stage # "done", NEW o, NEW n \in Nat \ {0}, ObsShape(o, n),
         o.schema = 1, o.coverage_version = 1,
         \A i \in 1 .. n : Abandoned(o.members[i]),
         \/ /\ o.coverage = Absent
            /\ \A i \in 1 .. n, f \in ContentFields : o.members[i][f] = "not_requested"
         \/ /\ Has(o.coverage) /\ o.members[n].recovery_point # "not_requested"
            /\ \A i \in 1 .. n : o.members[i].structure = "complete",
         NEW s, NEW r, GiveUp(o, s, r)
  PROVE  RecordInvariant'
<1> DEFINE p == FailObservation(o, s, ClassifyError(r))
<1>1. obs' = p /\ stage' = "done" /\ report' = report /\ UNCHANGED <<copies, raw>>
  BY DEF GiveUp
<1>2. /\ Frame(o, p, n)
      /\ \A j \in 1 .. n, g \in MemberFields :
            p.members[j][g] = IF /\ g \in ContentFields \cup {"capture", "structure"}
                                 /\ o.members[j][g] = "in_progress"
                              THEN "failed" ELSE o.members[j][g]
  BY FailObservationValues
<1> HIDE DEF p
<1>3. /\ DOMAIN p.members = 1 .. n /\ p.schema = 1 /\ p.coverage_version = 1
      /\ p.outcome.status = "incomplete" /\ p.coverage = o.coverage
  BY <1>2 DEF Frame, ObsShape
<1>4. ASSUME NEW i \in 1 .. n
      PROVE  /\ ValidMember(p.members[i])
             /\ p.members[i].capture = "complete" /\ Has(p.members[i].identity)
             /\ o.members[i].structure = "complete" => p.members[i].structure = "complete"
             /\ \A f \in ContentFields :
                   p.members[i][f] = "not_requested" <=> o.members[i][f] = "not_requested"
  <2> DEFINE m == o.members[i]
             q == p.members[i]
  <2>1. /\ q.capture = m.capture /\ q.raw_length = m.raw_length /\ q.digest = m.digest
        /\ q.identity = m.identity /\ q.notice = m.notice
        /\ q.structure = IF m.structure = "in_progress" THEN "failed" ELSE m.structure
    BY <1>2 DEF Abandoned, MemberFields, ContentFields
  <2>2. \A f \in ContentFields : q[f] = IF m[f] = "in_progress" THEN "failed" ELSE m[f]
    BY <1>2 DEF MemberFields
  <2>3. Abandoned(m)
    OBVIOUS
  <2> HIDE DEF m, q
  <2>4. ValidMember(q)
    BY <2>1, <2>2, <2>3 DEF ValidMember, Abandoned
  <2> QED
    BY <2>1, <2>2, <2>3, <2>4 DEF Abandoned, m, q
<1>5. ValidPartial(p)
  <2>1. CASE /\ o.coverage = Absent
             /\ \A i \in 1 .. n, f \in ContentFields : o.members[i][f] = "not_requested"
    BY <1>3, <1>4, <2>1 DEF ValidPartial, Has
  <2>2. CASE /\ Has(o.coverage) /\ o.members[n].recovery_point # "not_requested"
             /\ \A i \in 1 .. n : o.members[i].structure = "complete"
    <3>1. "recovery_point" \in ContentFields /\ n \in 1 .. n
      BY DEF ContentFields
    <3>2. p.members[n]["recovery_point"] # "not_requested"
      BY <1>4, <2>2, <3>1
    <3> QED
      BY <1>3, <1>4, <2>2, <3>1, <3>2 DEF ValidPartial
  <2> QED
    BY <2>1, <2>2
<1>6. report = Absent
  BY DEF RecordInvariant, RecorderFollows
<1> QED
  BY <1>1, <1>3, <1>5, <1>6, IncompleteIsValid, EndsRecorded

-----------------------------------------------------------------------------
EarlyStages == {"preflight", "scratch", "open", "copy", "identity"}

\* The header of an observation under way.
LEMMA RecorderHeader ==
  ASSUME CaptureInvariant, RecordInvariant, stage # "done"
  PROVE  /\ DOMAIN obs = ObsFields /\ obs.schema = 1 /\ obs.coverage_version = 1
         /\ obs.scope = IF every THEN EveryMember ELSE Selected
         /\ obs.coverage = IF stage = "content" THEN Some(CoverageOf) ELSE Absent
         /\ report = Absent /\ bad \in Nat /\ Len(source) \in Nat \ {0}
         /\ stage = "resolve" => obs.members = <<>>
         /\ stage # "resolve" => /\ ObsShape(obs, Len(source))
                                 /\ \A i \in 1 .. Len(source) : MemberFollows(obs.members[i], i)
<1>1. DOMAIN obs = ObsFields /\ Len(source) \in Nat \ {0}
      /\ (stage # "resolve" => ObsShape(obs, Len(source)))
  BY AttemptUnderWay
<1> QED
  BY <1>1 DEF RecordInvariant, RecorderFollows

LEMMA EarlyMember ==
  ASSUME CaptureInvariant, RecordInvariant, stage \in EarlyStages, NEW i \in 1 .. Len(source)
  PROVE  LET m == obs.members[i]
         IN  /\ m.identity = Absent /\ m.structure = "not_started" /\ m.notice = Absent
             /\ \A f \in ContentFields : m[f] = "not_requested"
             /\ m.capture = "complete" => Has(m.raw_length) /\ Has(m.digest)
             /\ m.capture # "complete" => m.digest = Absent
             /\ m.capture \in {"not_started", "complete"} \/ (stage = "copy" /\ i = idx)
<1> DEFINE m == obs.members[i]
<1>1. MemberFollows(m, i)
  BY RecorderHeader DEF EarlyStages
<1>2. stage \notin NamedStages /\ ~ Checked(i) /\ stage # "content"
  BY DEF EarlyStages, NamedStages, Checked
<1>3. Copied(i) => Sized(i) /\ m.digest = Some(copies[i].blocks)
  <2>1. Len(source) \in Nat /\ (stage \in {"open", "copy"} => idx \in 1 .. Len(source))
    BY AttemptUnderWay DEF CaptureInvariant, PlacesOK, EarlyStages
  <2>2. stage \in {"open", "copy"} /\ i < idx => i \in 1 .. idx - 1
    BY <2>1
  <2> QED
    BY <2>2 DEF Copied, Sized, CopiedStages, SizedStages, EarlyStages, CaptureInvariant, DigestsOK
<1> HIDE DEF m
<1>4. m.identity = Absent /\ m.structure = "not_started" /\ m.notice = Absent
  BY <1>1, <1>2 DEF MemberFollows
<1>5. \A f \in ContentFields : m[f] = "not_requested"
  BY <1>1, <1>2 DEF MemberFollows
<1>6. /\ m.capture = "complete" => Has(m.raw_length) /\ Has(m.digest)
      /\ m.capture # "complete" => m.digest = Absent
      /\ m.capture \in {"not_started", "complete"} \/ (stage = "copy" /\ i = idx)
  BY <1>1, <1>3 DEF MemberFollows, Has, Some, Absent
<1> QED
  BY <1>4, <1>5, <1>6 DEF m

LEMMA EarlyIsUnasked ==
  ASSUME CaptureInvariant, RecordInvariant, stage \in (EarlyStages \ {"copy"}) \cup {"resolve"}
  PROVE  Unasked(obs)
<1>1. stage # "done" /\ stage # "content"
  BY DEF EarlyStages
<1>2. DOMAIN obs = ObsFields /\ obs.schema = 1 /\ obs.coverage_version = 1 /\ obs.coverage = Absent
  BY <1>1, RecorderHeader
<1>3. CASE stage = "resolve"
  <2>1. DOMAIN obs.members = {}
    BY <1>1, <1>3, RecorderHeader
  <2> QED
    BY <1>2, <2>1 DEF Unasked
<1>4. CASE stage # "resolve"
  <2>1. DOMAIN obs.members = 1 .. Len(source)
    BY <1>1, <1>4, RecorderHeader DEF ObsShape
  <2>2. ASSUME NEW i \in 1 .. Len(source)
        PROVE  /\ ValidMember(obs.members[i])
               /\ \A f \in ContentFields : obs.members[i][f] = "not_requested"
    <3> DEFINE m == obs.members[i]
    <3>1. /\ m.identity = Absent /\ m.structure = "not_started" /\ m.notice = Absent
          /\ \A f \in ContentFields : m[f] = "not_requested"
          /\ m.capture = "complete" => Has(m.raw_length) /\ Has(m.digest)
          /\ m.capture # "complete" => m.digest = Absent
          /\ m.capture \in {"not_started", "complete"}
      BY <1>4, EarlyMember
    <3> HIDE DEF m
    <3>2. ValidMember(m)
      BY <3>1 DEF ValidMember, Has
    <3> QED
      BY <3>1, <3>2 DEF m
  <2> QED
    BY <1>2, <2>1, <2>2 DEF Unasked
<1> QED
  BY <1>3, <1>4

LEMMA CopyFailsRecords ==
  ASSUME CaptureInvariant, RecordInvariant, stage \in {"open", "copy"}, NEW r, CopyFails(r)
  PROVE  RecordInvariant'
<1> DEFINE n == Len(source)
           o == SetStage(obs, idx, "capture", "failed")
<1>1. /\ n \in Nat \ {0} /\ ObsShape(obs, n) /\ DOMAIN obs = ObsFields /\ obs.schema = 1
      /\ obs.coverage_version = 1 /\ obs.coverage = Absent
  BY RecorderHeader
<1>2. /\ idx \in 1 .. n /\ \A i \in 1 .. n : i = idx => ~ Copied(i)
  BY <1>1 DEF CaptureInvariant, PlacesOK, Copied, CopiedStages
<1>3. /\ Frame(obs, o, n)
      /\ \A j \in 1 .. n, g \in MemberFields :
            o.members[j][g] = IF j = idx /\ g = "capture" THEN "failed" ELSE obs.members[j][g]
  <2>1. "capture" \in MemberFields
    BY DEF MemberFields
  <2> QED
    BY <1>1, <2>1, SetStageValues
<1> HIDE DEF o
<1>4. ASSUME NEW i \in 1 .. n
      PROVE  /\ ValidMember(o.members[i])
             /\ \A f \in ContentFields : o.members[i][f] = "not_requested"
  <2> DEFINE m == obs.members[i]
             q == o.members[i]
  <2>1. /\ m.identity = Absent /\ m.structure = "not_started" /\ m.notice = Absent
        /\ \A f \in ContentFields : m[f] = "not_requested"
        /\ m.capture = "complete" => Has(m.raw_length) /\ Has(m.digest)
        /\ m.capture # "complete" => m.digest = Absent
        /\ m.capture \in {"not_started", "complete"} \/ i = idx
    BY EarlyMember DEF EarlyStages
  <2>2. MemberFollows(m, i)
    BY RecorderHeader
  <2>3. i = idx => m.digest = Absent
    BY <1>2, <2>2 DEF MemberFollows
  <2>4. /\ q.identity = m.identity /\ q.structure = m.structure /\ q.notice = m.notice
        /\ q.digest = m.digest /\ q.raw_length = m.raw_length
        /\ q.capture = IF i = idx THEN "failed" ELSE m.capture
        /\ \A f \in ContentFields : q[f] = m[f]
    BY <1>3 DEF MemberFields, ContentFields
  <2> HIDE DEF m, q
  <2>5. ValidMember(q)
    BY <2>1, <2>3, <2>4 DEF ValidMember, Has
  <2> QED
    BY <2>1, <2>4, <2>5 DEF q
<1>5. Unasked(o)
  BY <1>1, <1>3, <1>4 DEF Unasked, Frame, ObsShape
<1> QED
  BY <1>5, FailRecords DEF CopyFails, o

\* A step towards the content phase: the recorder is told of what the step did.
LEMMA RecordGoesOn ==
  ASSUME CaptureInvariant, RecordInvariant, stage \notin {"done", "resolve", "content"},
         stage' \notin {"done", "resolve", "content"}, UNCHANGED <<env, report>>,
         Frame(obs, obs', Len(source)),
         \A i \in 1 .. Len(source) : MemberFollows(obs.members[i], i)'
  PROVE  RecorderFollows' /\ PlanFollowed' /\ ReceiptIsValid'
<1>1. /\ obs.schema = 1 /\ obs.coverage_version = 1 /\ obs.coverage = Absent
      /\ obs.scope = IF every THEN EveryMember ELSE Selected
      /\ report = Absent /\ bad \in Nat
  BY RecorderHeader
<1>2. source' = source /\ every' = every /\ bad' = bad /\ report' = report
  BY DEF env
<1>3. RecorderFollows'
  BY <1>1, <1>2 DEF RecorderFollows, Frame
<1> QED
  BY <1>3 DEF PlanFollowed, ReceiptIsValid

LEMMA ResolveRecords ==
  ASSUME CaptureInvariant, RecordInvariant, Resolve
  PROVE  RecordInvariant'
<1>1. stage = "resolve" /\ Unasked(obs)
  BY EarlyIsUnasked DEF Resolve
<1>2. ASSUME NEW s, NEW r, CaptureFails(obs, s, r) PROVE RecordInvariant'
  BY <1>1, <1>2, FailRecords
<1>3. CASE /\ stage' = "preflight"
           /\ obs' = [obs EXCEPT !.members = [i \in DOMAIN source |-> Pending]]
           /\ UNCHANGED <<env, cancelled, idx, blk, headers, raw, copies, work, report>>
  <2>1. /\ DOMAIN obs = ObsFields /\ obs.schema = 1 /\ obs.coverage_version = 1
        /\ obs.coverage = Absent /\ obs.scope = IF every THEN EveryMember ELSE Selected
        /\ report = Absent /\ bad \in Nat /\ Len(source) \in Nat \ {0}
    BY <1>1, RecorderHeader
  <2>2. /\ source' = source /\ every' = every /\ bad' = bad /\ report' = report /\ idx' = 1
        /\ headers' = <<>> /\ raw' = <<>> /\ copies' = <<>> /\ DOMAIN source = 1 .. Len(source)
    BY <1>1, <1>3 DEF env, CaptureInvariant, PlacesOK, SourceOK
  <2>3. /\ obs'.schema = 1 /\ obs'.coverage_version = 1 /\ obs'.coverage = Absent
        /\ obs'.scope = obs.scope /\ obs'.members = [i \in 1 .. Len(source) |-> Pending]
    BY <1>3, <2>1, <2>2 DEF ObsFields
  <2>4. ASSUME NEW i \in 1 .. Len(source) PROVE MemberFollows(obs.members[i], i)'
    <3>1. obs'.members[i] = Pending
      BY <2>3
    <3>2. stage' = "preflight" /\ ~ (i < idx')
      BY <1>3, <2>1, <2>2
    <3>3. ~ Sized(i)' /\ ~ Copied(i)' /\ ~ Checked(i)'
      BY <3>2 DEF Sized, Copied, Checked, SizedStages, CopiedStages
    <3>4. /\ Pending.capture = "not_started" /\ Pending.structure = "not_started"
          /\ Pending.digest = Absent /\ Pending.identity = Absent /\ Pending.notice = Absent
          /\ \A f \in ContentFields : Pending[f] = "not_requested"
      BY DEF Pending, ContentFields
    <3> QED
      BY <3>1, <3>2, <3>3, <3>4 DEF MemberFollows
  <2>5. RecorderFollows'
    BY <1>3, <2>1, <2>2, <2>3, <2>4 DEF RecorderFollows
  <2>6. AncestryOK' /\ PlanFollowed' /\ ReceiptIsValid'
    BY <1>3, <2>2 DEF AncestryOK, PlanFollowed, ReceiptIsValid, NamedStages
  <2>7. CapKept' /\ CaptureStaysWithinCap'
    BY <1>3, <2>2 DEF CapKept, SizedStages, CaptureStaysWithinCap
  <2> QED
    BY <2>5, <2>6, <2>7 DEF RecordInvariant
<1> QED
  BY <1>2, <1>3 DEF Resolve

LEMMA PreflightRecords ==
  ASSUME CaptureInvariant, RecordInvariant, PreflightMember
  PROVE  RecordInvariant'
<1> DEFINE f == source[idx]
           n == Len(source)
           sized == SetStage(obs, idx, "raw_length", Some(Length(f)))
<1>1. stage = "preflight" /\ Unasked(obs)
  BY EarlyIsUnasked DEF PreflightMember, EarlyStages
<1>2. /\ n \in Nat \ {0} /\ ObsShape(obs, n)
      /\ \A i \in 1 .. n : MemberFollows(obs.members[i], i)
  BY <1>1, RecorderHeader
<1>3. /\ Frame(obs, sized, n)
      /\ \A j \in 1 .. n, g \in MemberFields :
            sized.members[j][g] = IF j = idx /\ g = "raw_length" THEN Some(Length(f))
                                  ELSE obs.members[j][g]
  <2>1. "raw_length" \in MemberFields
    BY DEF MemberFields
  <2> QED
    BY <1>2, <2>1, SetStageValues
<1>4. /\ idx \in 1 .. n /\ copies = <<>> /\ Len(headers) = idx - 1 /\ Len(raw) = idx - 1
      /\ headers \in Seq(Superblock) /\ raw \in Seq(Nat)
  BY <1>1 DEF CaptureInvariant, PlacesOK
<1>5. f.header \in Superblock /\ Length(f) \in Nat
  <2>1. f \in SourceFile
    BY <1>4 DEF CaptureInvariant, SourceOK
  <2> QED
    BY <2>1 DEF SourceFile, Length
<1>6. Unasked(sized)
  <2>1. ASSUME NEW i \in 1 .. n
        PROVE  /\ ValidMember(sized.members[i])
               /\ \A g \in ContentFields : sized.members[i][g] = "not_requested"
    <3> DEFINE m == obs.members[i]
               q == sized.members[i]
    <3>1. /\ ValidMember(m) /\ (\A g \in ContentFields : m[g] = "not_requested")
          /\ m.capture = "not_started"
      <4>1. DOMAIN obs.members = 1 .. n
        BY <1>2 DEF ObsShape
      <4>2. MemberFollows(m, i) /\ ~ Copied(i)
        BY <1>1, <1>2 DEF Copied, CopiedStages
      <4> QED
        BY <1>1, <4>1, <4>2 DEF Unasked, MemberFollows
    <3>2. /\ q.identity = m.identity /\ q.structure = m.structure /\ q.notice = m.notice
          /\ q.digest = m.digest /\ q.capture = m.capture
          /\ \A g \in ContentFields : q[g] = m[g]
      BY <1>3 DEF MemberFields, ContentFields
    <3> HIDE DEF m, q
    <3>3. ValidMember(q)
      BY <3>1, <3>2 DEF ValidMember
    <3> QED
      BY <3>1, <3>2, <3>3 DEF q
  <2> HIDE DEF sized
  <2> QED
    BY <1>1, <1>3, <2>1 DEF Unasked, Frame, ObsShape
<1>7. ASSUME NEW s, NEW r, CaptureFails(obs, s, r) \/ CaptureFails(sized, s, r) PROVE RecordInvariant'
  <2> HIDE DEF sized
  <2> QED
    BY <1>1, <1>6, <1>7, FailRecords
<1>8. \/ \E s, r : CaptureFails(obs, s, r) \/ CaptureFails(sized, s, r)
      \/ /\ ~ (Length(f) < 1) /\ f.header.uuid = idx
         /\ ~ (RawTotal(Append(raw, Length(f))) > MaxRawBytes)
         /\ obs' = sized
         /\ raw' = Append(raw, Length(f))
         /\ headers' = Append(headers, f.header)
         /\ idx' = IF idx = n THEN 1 ELSE idx + 1
         /\ stage' = IF idx = n THEN "scratch" ELSE "preflight"
         /\ UNCHANGED <<env, cancelled, blk, copies, work, report>>
  BY DEF PreflightMember, SetStage
<1>9. CASE /\ ~ (Length(f) < 1) /\ f.header.uuid = idx
           /\ ~ (RawTotal(Append(raw, Length(f))) > MaxRawBytes)
           /\ obs' = sized
           /\ raw' = Append(raw, Length(f))
           /\ headers' = Append(headers, f.header)
           /\ idx' = IF idx = n THEN 1 ELSE idx + 1
           /\ stage' = IF idx = n THEN "scratch" ELSE "preflight"
           /\ UNCHANGED <<env, cancelled, blk, copies, work, report>>
  <2> HIDE DEF sized
  <2>1. /\ headers' \in Seq(Superblock) /\ Len(headers') = idx
        /\ raw' \in Seq(Nat) /\ Len(raw') = idx
        /\ \A i \in 1 .. idx : headers'[i] = IF i = idx THEN f.header ELSE headers[i]
        /\ \A i \in 1 .. idx : raw'[i] = IF i = idx THEN Length(f) ELSE raw[i]
    <3> HIDE DEF f, n
    <3> QED
      BY <1>4, <1>5, <1>9, AppendProperties
  <2>2. ASSUME NEW i \in 1 .. n PROVE MemberFollows(obs.members[i], i)'
    <3> DEFINE m == obs.members[i]
               q == obs'.members[i]
    <3>1. MemberFollows(m, i) /\ ~ Copied(i) /\ ~ Checked(i) /\ stage \notin NamedStages
      BY <1>1, <1>2 DEF Copied, Checked, CopiedStages, NamedStages
    <3>2. /\ ~ Copied(i)' /\ ~ Checked(i)' /\ stage' \notin NamedStages /\ stage' # "content"
          /\ stage' # "copy"
      BY <1>9 DEF Copied, Checked, CopiedStages, NamedStages
    <3>3. /\ q.identity = m.identity /\ q.structure = m.structure /\ q.notice = m.notice
          /\ q.digest = m.digest /\ q.capture = m.capture
          /\ \A g \in ContentFields : q[g] = m[g]
      BY <1>3, <1>9 DEF MemberFields, ContentFields
    <3>4. q.raw_length = IF i = idx THEN Some(Length(f)) ELSE m.raw_length
      BY <1>3, <1>9 DEF MemberFields
    <3>5. Sized(i)' => q.raw_length = Some(raw'[i]) /\ raw'[i] # 0
      <4> SUFFICES ASSUME Sized(i)' PROVE q.raw_length = Some(raw'[i]) /\ raw'[i] # 0
        OBVIOUS
      <4>1. i \in 1 .. idx
        BY <1>4, <1>9 DEF Sized, SizedStages
      <4>2. CASE i = idx
        BY <1>5, <1>9, <2>1, <3>4, <4>1, <4>2
      <4>3. CASE i # idx
        <5>1. Sized(i)
          BY <1>4, <4>1, <4>3 DEF Sized
        <5>2. m.raw_length = Some(raw[i]) /\ raw[i] # 0
          BY <3>1, <5>1 DEF MemberFollows
        <5> HIDE DEF m, q
        <5> QED
          BY <2>1, <3>4, <4>1, <4>3, <5>2
      <4> QED
        BY <4>2, <4>3
    <3>6. /\ m.capture = "not_started" /\ m.digest = Absent /\ m.identity = Absent
          /\ m.structure = "not_started" /\ m.notice = Absent
          /\ \A g \in ContentFields : m[g] = "not_requested"
      BY <1>1, <3>1 DEF MemberFollows
    <3> HIDE DEF m
    <3> QED
      BY <3>2, <3>3, <3>5, <3>6 DEF MemberFollows
  <2>3. RecorderFollows' /\ PlanFollowed' /\ ReceiptIsValid'
    <3>1. stage' \notin {"done", "resolve", "content"} /\ UNCHANGED <<env, report>>
      BY <1>9
    <3> QED
      BY <1>1, <1>3, <1>9, <2>2, <3>1, RecordGoesOn
  <2>4. AncestryOK'
    <3>1. stage' \notin NamedStages
      BY <1>9 DEF NamedStages
    <3>2. \A i \in 1 .. idx - 1 : headers[i].uuid = i
      BY <1>1, <1>4 DEF RecordInvariant, AncestryOK
    <3>3. ASSUME NEW i \in DOMAIN headers' PROVE headers'[i].uuid = i
      <4>1. i \in 1 .. idx
        BY <2>1
      <4> HIDE DEF f, n
      <4> QED
        BY <1>4, <1>9, <2>1, <3>2, <4>1
    <3> QED
      BY <3>1, <3>3 DEF AncestryOK
  <2>5. CapKept' /\ CaptureStaysWithinCap'
    <3>1. ~ (RawTotal(raw') > MaxRawBytes) /\ copies' = <<>> /\ stage' # "copy"
      BY <1>4, <1>9
    <3> QED
      BY <3>1 DEF CapKept, CaptureStaysWithinCap
  <2> QED
    BY <2>3, <2>4, <2>5 DEF RecordInvariant
<1> QED
  BY <1>7, <1>8, <1>9

LEMMA ScratchRecords ==
  ASSUME CaptureInvariant, RecordInvariant, Scratch
  PROVE  RecordInvariant'
<1>1. stage = "scratch" /\ Unasked(obs)
  BY EarlyIsUnasked DEF Scratch, EarlyStages
<1>2. ASSUME NEW s, NEW r, CaptureFails(obs, s, r) PROVE RecordInvariant'
  BY <1>1, <1>2, FailRecords
<1>3. CASE /\ stage' = "open"
           /\ UNCHANGED <<env, cancelled, idx, blk, headers, raw, copies, work, obs, report>>
  <2>1. /\ ObsShape(obs, Len(source)) /\ Len(source) \in Nat
        /\ \A i \in 1 .. Len(source) : MemberFollows(obs.members[i], i)
    BY <1>1, RecorderHeader
  <2>2. idx = 1 /\ copies = <<>>
    BY <1>1 DEF CaptureInvariant, PlacesOK
  <2>3. ASSUME NEW i \in 1 .. Len(source) PROVE MemberFollows(obs.members[i], i)'
    <3>1. ~ Copied(i) /\ ~ Copied(i)' /\ ~ Checked(i) /\ ~ Checked(i)' /\ Sized(i)
      BY <1>1, <1>3, <2>1, <2>2 DEF Copied, Checked, Sized, CopiedStages, SizedStages
    <3>2. /\ stage \notin NamedStages /\ stage' \notin NamedStages /\ stage' # "content"
          /\ obs' = obs /\ raw' = raw /\ idx' = idx
      BY <1>1, <1>3 DEF NamedStages
    <3> QED
      BY <1>1, <1>3, <2>1, <3>1, <3>2 DEF MemberFollows
  <2>4. RecorderFollows' /\ PlanFollowed' /\ ReceiptIsValid'
    <3>1. Frame(obs, obs', Len(source)) /\ UNCHANGED <<env, report>>
      BY <1>3, <2>1 DEF Frame
    <3> QED
      BY <1>1, <1>3, <2>3, <3>1, RecordGoesOn
  <2>5. AncestryOK'
    BY <1>1, <1>3 DEF RecordInvariant, AncestryOK, NamedStages
  <2>6. CapKept' /\ CaptureStaysWithinCap'
    BY <1>1, <1>3, <2>2 DEF RecordInvariant, CapKept, CaptureStaysWithinCap, SizedStages
  <2> QED
    BY <2>4, <2>5, <2>6 DEF RecordInvariant
<1> QED
  BY <1>2, <1>3 DEF Scratch

LEMMA OpenMemberRecords ==
  ASSUME CaptureInvariant, RecordInvariant, OpenMember
  PROVE  RecordInvariant'
<1> DEFINE n == Len(source)
           c == [header |-> source[idx].header, blocks |-> <<>>]
<1>1. stage = "open" /\ Unasked(obs)
  BY EarlyIsUnasked DEF OpenMember, EarlyStages
<1>2. ASSUME NEW s, NEW r, CaptureFails(obs, s, r) PROVE RecordInvariant'
  BY <1>1, <1>2, FailRecords
<1>3. ASSUME NEW r, CopyFails(r) PROVE RecordInvariant'
  BY <1>1, <1>3, CopyFailsRecords
<1>4. CASE /\ stage' = "copy" /\ blk' = 1
           /\ obs' = SetStage(obs, idx, "capture", "in_progress")
           /\ copies' = Append(copies, c)
           /\ UNCHANGED <<env, cancelled, idx, headers, raw, work, report>>
  <2>1. /\ n \in Nat \ {0} /\ ObsShape(obs, n)
        /\ \A i \in 1 .. n : MemberFollows(obs.members[i], i)
    BY <1>1, RecorderHeader
  <2>2. /\ Frame(obs, obs', n)
        /\ \A j \in 1 .. n, g \in MemberFields :
              obs'.members[j][g] = IF j = idx /\ g = "capture" THEN "in_progress"
                                   ELSE obs.members[j][g]
    <3>1. "capture" \in MemberFields
      BY DEF MemberFields
    <3> QED
      BY <1>4, <2>1, <3>1, SetStageValues
  <2>3. /\ idx \in 1 .. n /\ Len(copies) = idx - 1 /\ copies \in Seq(PrivateCopy)
        /\ Len(raw) = n /\ raw \in Seq(Nat)
    BY <1>1 DEF CaptureInvariant, PlacesOK, SizedStages
  <2>4. ASSUME NEW i \in 1 .. n PROVE MemberFollows(obs.members[i], i)'
    <3> DEFINE m == obs.members[i]
               q == obs'.members[i]
    <3>1. MemberFollows(m, i) /\ stage \notin NamedStages /\ stage' \notin NamedStages
      BY <1>1, <1>4, <2>1 DEF NamedStages
    <3>2. /\ Copied(i)' <=> Copied(i)
          /\ i = idx => ~ Copied(i)
          /\ ~ Checked(i) /\ ~ Checked(i)' /\ Sized(i) /\ Sized(i)'
      BY <1>1, <1>4, <2>3 DEF Copied, Checked, Sized, CopiedStages, SizedStages
    <3>3. /\ q.identity = m.identity /\ q.structure = m.structure /\ q.notice = m.notice
          /\ q.digest = m.digest /\ q.raw_length = m.raw_length
          /\ q.capture = IF i = idx THEN "in_progress" ELSE m.capture
          /\ \A g \in ContentFields : q[g] = m[g]
      BY <2>2 DEF MemberFields, ContentFields
    <3>4. raw' = raw /\ idx' = idx /\ stage' = "copy"
      BY <1>4
    <3> HIDE DEF m
    <3> QED
      BY <1>1, <3>1, <3>2, <3>3, <3>4 DEF MemberFollows
  <2>5. RecorderFollows' /\ PlanFollowed' /\ ReceiptIsValid'
    <3>1. UNCHANGED <<env, report>>
      BY <1>4
    <3> QED
      BY <1>1, <1>4, <2>2, <2>4, <3>1, RecordGoesOn
  <2>6. AncestryOK'
    BY <1>1, <1>4 DEF RecordInvariant, AncestryOK, NamedStages
  <2>7. CapKept' /\ CaptureStaysWithinCap'
    <3>1. c \in PrivateCopy /\ c.blocks = <<>>
      <4>1. source[idx] \in SourceFile
        BY <2>3 DEF CaptureInvariant, SourceOK
      <4>2. source[idx].header \in Superblock /\ <<>> \in Seq(FileBlock)
        BY <4>1 DEF SourceFile
      <4> QED
        BY <4>2 DEF PrivateCopy
    <3> HIDE DEF c
    <3>2. /\ copies' \in Seq(PrivateCopy) /\ Len(copies') = idx
          /\ \A i \in 1 .. idx : copies'[i] = IF i = idx THEN c ELSE copies[i]
      <4> HIDE DEF n
      <4> QED
        BY <1>4, <2>3, <3>1, AppendProperties
    <3>3. /\ raw' = raw /\ idx' = idx /\ raw[idx] \in Nat
      BY <1>4, <2>3
    <3>4. ~ (RawTotal(raw) > MaxRawBytes)
      BY <1>1 DEF RecordInvariant, CapKept, SizedStages
    <3>5. CapKept'
      BY <1>4, <2>3, <3>1, <3>2, <3>3, <3>4 DEF CapKept
    <3>6. ASSUME NEW i \in DOMAIN copies' PROVE Length(copies'[i]) <= raw[i]
      <4>1. i \in 1 .. idx
        BY <3>2
      <4>2. CASE i = idx
        BY <3>1, <3>2, <3>3, <4>1, <4>2 DEF Length
      <4>3. CASE i # idx
        <5>1. i \in DOMAIN copies /\ copies # <<>> /\ copies'[i] = copies[i]
          BY <2>3, <3>2, <4>1, <4>3
        <5> QED
          BY <5>1 DEF RecordInvariant, CaptureStaysWithinCap, Length
      <4> QED
        BY <4>2, <4>3
    <3> QED
      BY <3>3, <3>4, <3>5, <3>6 DEF CaptureStaysWithinCap, Length
  <2> QED
    BY <2>5, <2>6, <2>7 DEF RecordInvariant
<1> QED
  BY <1>2, <1>3, <1>4 DEF OpenMember

LEMMA CopyBlockRecords ==
  ASSUME CaptureInvariant, RecordInvariant, CopyBlock
  PROVE  RecordInvariant'
<1> DEFINE n == Len(source)
<1>1. stage = "copy" /\ blk <= raw[idx]
  BY DEF CopyBlock
<1>2. ASSUME NEW r, CopyFails(r) PROVE RecordInvariant'
  BY <1>1, <1>2, CopyFailsRecords
<1>3. CASE /\ blk <= Length(source[idx])
           /\ copies' = [copies EXCEPT ![idx] =
                           [header |-> IF blk = 1 THEN source[idx].header ELSE @.header,
                            blocks |-> Append(@.blocks, source[idx].blocks[blk])]]
           /\ blk' = blk + 1
           /\ UNCHANGED <<env, cancelled, stage, idx, headers, raw, work, obs, report>>
  <2>1. ObsShape(obs, n) /\ \A i \in 1 .. n : MemberFollows(obs.members[i], i)
    BY <1>1, RecorderHeader
  <2>2. ASSUME NEW i \in 1 .. n PROVE MemberFollows(obs.members[i], i)'
    <3>1. /\ Copied(i)' <=> Copied(i)
          /\ Checked(i)' <=> Checked(i)
          /\ Sized(i)' <=> Sized(i)
      BY <1>3 DEF Copied, Checked, Sized
    <3>2. obs' = obs /\ raw' = raw /\ idx' = idx /\ stage' = stage
      BY <1>3
    <3> QED
      BY <2>1, <3>1, <3>2 DEF MemberFollows
  <2>3. RecorderFollows' /\ PlanFollowed' /\ ReceiptIsValid'
    <3>1. UNCHANGED <<env, report>> /\ Frame(obs, obs', n)
      BY <1>3, <2>1 DEF Frame
    <3> QED
      BY <1>1, <1>3, <2>2, <3>1, RecordGoesOn
  <2>4. AncestryOK'
    BY <1>1, <1>3 DEF RecordInvariant, AncestryOK, NamedStages
  <2>5. CapKept' /\ CaptureStaysWithinCap'
    <3> DEFINE new == [header |-> IF blk = 1 THEN source[idx].header ELSE copies[idx].header,
                       blocks |-> Append(copies[idx].blocks, source[idx].blocks[blk])]
    <3>1. /\ idx \in 1 .. n /\ Len(copies) = idx /\ copies \in Seq(PrivateCopy)
          /\ Len(raw) = n /\ raw \in Seq(Nat) /\ blk \in Nat \ {0} /\ n \in Nat
      BY <1>1, AttemptUnderWay DEF CaptureInvariant, PlacesOK, SizedStages
    <3>2. copies' = [copies EXCEPT ![idx] = new]
      BY <1>3
    <3>3. copies[idx] \in PrivateCopy /\ Len(copies[idx].blocks) = blk - 1
          /\ ~ (RawTotal(raw) > MaxRawBytes)
      BY <1>1, <3>1 DEF RecordInvariant, CapKept, SizedStages
    <3>4. new.blocks \in Seq(FileBlock) /\ Len(new.blocks) = blk
      <4>1. source[idx] \in SourceFile
        BY <3>1 DEF CaptureInvariant, SourceOK
      <4>2. source[idx].blocks[blk] \in FileBlock
        BY <1>3, <3>1, <4>1 DEF Length, SourceFile
      <4>3. copies[idx].blocks \in Seq(FileBlock)
        BY <3>3 DEF PrivateCopy
      <4> QED
        BY <3>1, <3>3, <4>2, <4>3, AppendProperties
    <3> HIDE DEF new
    <3>5. /\ DOMAIN copies' = DOMAIN copies /\ copies'[idx] = new
          /\ \A i \in DOMAIN copies : i # idx => copies'[i] = copies[i]
      BY <3>1, <3>2
    <3>6. raw' = raw /\ idx' = idx /\ stage' = stage /\ raw[idx] \in Nat
      BY <1>3, <3>1
    <3>7. CapKept'
      BY <1>1, <1>3, <3>1, <3>3, <3>4, <3>5, <3>6 DEF CapKept
    <3>8. ASSUME NEW i \in DOMAIN copies' PROVE Length(copies'[i]) <= raw[i]
      <4>1. copies # <<>>
        BY <3>1
      <4>2. CASE i = idx
        BY <1>1, <3>4, <3>5, <4>2 DEF Length
      <4>3. CASE i # idx
        BY <3>5, <4>1, <4>3 DEF RecordInvariant, CaptureStaysWithinCap, Length
      <4> QED
        BY <4>2, <4>3
    <3> QED
      BY <3>3, <3>6, <3>7, <3>8 DEF CaptureStaysWithinCap, Length
  <2> QED
    BY <2>3, <2>4, <2>5 DEF RecordInvariant
<1> QED
  BY <1>1, <1>2, <1>3 DEF CopyBlock

LEMMA FinishMemberRecords ==
  ASSUME CaptureInvariant, RecordInvariant, FinishMember
  PROVE  RecordInvariant'
<1> DEFINE n == Len(source)
<1>1. stage = "copy"
  BY DEF FinishMember
<1>2. ASSUME NEW r, CopyFails(r) PROVE RecordInvariant'
  BY <1>1, <1>2, CopyFailsRecords
<1>3. CASE /\ obs' = [obs EXCEPT !.members[idx].capture = "complete",
                                 !.members[idx].digest = Some(copies[idx].blocks)]
           /\ idx' = IF idx = Len(raw) THEN 1 ELSE idx + 1
           /\ stage' = IF idx = Len(raw) THEN "identity" ELSE "open"
           /\ UNCHANGED <<env, cancelled, blk, headers, raw, copies, work, report>>
  <2> DEFINE half == SetStage(obs, idx, "capture", "complete")
             d == Some(copies[idx].blocks)
  <2>1. /\ n \in Nat \ {0} /\ ObsShape(obs, n)
        /\ \A i \in 1 .. n : MemberFollows(obs.members[i], i)
    BY <1>1, RecorderHeader
  <2>2. "capture" \in MemberFields /\ "digest" \in MemberFields
    BY DEF MemberFields
  <2>3. /\ Frame(obs, half, n)
        /\ \A j \in 1 .. n, g \in MemberFields :
              half.members[j][g] = IF j = idx /\ g = "capture" THEN "complete"
                                   ELSE obs.members[j][g]
    BY <2>1, <2>2, SetStageValues
  <2>4. obs' = SetStage(half, idx, "digest", d)
    BY <1>3 DEF SetStage
  <2> HIDE DEF half, d
  <2>5. /\ Frame(half, obs', n)
        /\ \A j \in 1 .. n, g \in MemberFields :
              obs'.members[j][g] = IF j = idx /\ g = "digest" THEN d ELSE half.members[j][g]
    <3>1. ObsShape(half, n)
      BY <2>3 DEF Frame
    <3> QED
      BY <2>1, <2>2, <2>4, <3>1, SetStageValues
  <2>6. Frame(obs, obs', n)
    BY <2>3, <2>5 DEF Frame
  <2>7. /\ idx \in 1 .. n /\ Len(raw) = n
    BY <1>1 DEF CaptureInvariant, PlacesOK, SizedStages
  <2>8. ASSUME NEW i \in 1 .. n PROVE MemberFollows(obs.members[i], i)'
    <3> DEFINE m == obs.members[i]
               q == obs'.members[i]
    <3>1. MemberFollows(m, i) /\ stage \notin NamedStages /\ stage' \notin NamedStages
          /\ stage' \in {"identity", "open"}
      BY <1>1, <1>3, <2>1 DEF NamedStages
    <3>2. /\ Copied(i)' <=> (Copied(i) \/ i = idx)
          /\ ~ Checked(i) /\ ~ Checked(i)' /\ Sized(i) /\ Sized(i)'
      BY <1>1, <1>3, <2>7 DEF Copied, Checked, Sized, CopiedStages, SizedStages
    <3>3. /\ q.identity = m.identity /\ q.structure = m.structure /\ q.notice = m.notice
          /\ i # idx => q.digest = m.digest
          /\ q.raw_length = m.raw_length
          /\ q.capture = IF i = idx THEN "complete" ELSE m.capture
          /\ \A g \in ContentFields : q[g] = m[g]
      BY <2>3, <2>5 DEF MemberFields, ContentFields
    <3>4. raw' = raw
      BY <1>3
    <3> HIDE DEF m
    <3> QED
      BY <1>1, <3>1, <3>2, <3>3, <3>4 DEF MemberFollows
  <2>9. RecorderFollows' /\ PlanFollowed' /\ ReceiptIsValid'
    <3>1. UNCHANGED <<env, report>> /\ stage' \in {"identity", "open"}
      BY <1>3
    <3> QED
      BY <1>1, <2>6, <2>8, <3>1, RecordGoesOn
  <2>10. AncestryOK'
    BY <1>1, <1>3 DEF RecordInvariant, AncestryOK, NamedStages
  <2>11. CapKept' /\ CaptureStaysWithinCap'
    BY <1>1, <1>3 DEF RecordInvariant, CapKept, CaptureStaysWithinCap, SizedStages, Length
  <2> QED
    BY <2>9, <2>10, <2>11 DEF RecordInvariant
<1> QED
  BY <1>2, <1>3 DEF FinishMember

LEMMA IdentityRecords ==
  ASSUME CaptureInvariant, RecordInvariant, Identity
  PROVE  RecordInvariant'
<1> DEFINE n == Len(source)
           same(i) == copies[i].blocks[1].intact /\ copies[i].header = headers[i]
           all == \A i \in DOMAIN copies : same(i)
           first == IF all THEN Len(copies) + 1 ELSE Min({i \in DOMAIN copies : ~same(i)})
           ms == [i \in DOMAIN obs.members |->
                    IF i < first THEN [obs.members[i] EXCEPT !.identity = Some(copies[i].header)]
                    ELSE obs.members[i]]
           named == [obs EXCEPT !.members = ms]
           hs == [i \in DOMAIN copies |-> copies[i].header]
<1>1. stage = "identity" /\ Unasked(obs)
  BY EarlyIsUnasked DEF Identity, EarlyStages
<1>2. /\ n \in Nat \ {0} /\ ObsShape(obs, n)
      /\ \A i \in 1 .. n : MemberFollows(obs.members[i], i)
  BY <1>1, RecorderHeader
<1>3. \/ \E s, r : CaptureFails(obs, s, r) \/ CaptureFails(named, s, r)
      \/ /\ CapturedAncestry(hs)
         /\ obs' = named /\ stage' = "structure"
         /\ UNCHANGED <<env, cancelled, idx, blk, headers, raw, copies, work, report>>
  BY DEF Identity
<1> HIDE DEF first
<1>4. DOMAIN ms = 1 .. n
  BY <1>2 DEF ObsShape
<1>5. ASSUME NEW i \in 1 .. n
      PROVE  /\ DOMAIN ms[i] = MemberFields
             /\ \A g \in MemberFields : g # "identity" => ms[i][g] = obs.members[i][g]
             /\ ms[i].identity = obs.members[i].identity
                \/ ms[i].identity = Some(copies[i].header)
  <2>1. ms[i] = IF i < first THEN [obs.members[i] EXCEPT !.identity = Some(copies[i].header)]
                ELSE obs.members[i]
    BY <1>2 DEF ObsShape
  <2>2. DOMAIN obs.members[i] = MemberFields /\ "identity" \in MemberFields
    BY <1>2 DEF ObsShape, MemberFields
  <2> HIDE DEF ms
  <2> QED
    BY <2>1, <2>2
<1> HIDE DEF ms
<1>6. Frame(obs, named, n) /\ named.members = ms
  BY <1>2, <1>4, <1>5, FrameOf
<1> HIDE DEF named
<1>7. ASSUME NEW i \in 1 .. n
      PROVE  /\ obs.members[i].capture = "complete" /\ Copied(i) /\ Sized(i) /\ ~ Checked(i)
             /\ Has(obs.members[i].digest)
  <2>1. Copied(i) /\ Sized(i) /\ ~ Checked(i)
    BY <1>1 DEF Copied, CopiedStages, Sized, SizedStages, Checked
  <2>2. obs.members[i].digest = Some(copies[i].blocks)
    BY <1>1 DEF CaptureInvariant, DigestsOK, CopiedStages
  <2> QED
    BY <1>2, <2>1, <2>2 DEF MemberFollows, Has, Some, Absent
<1>8. Unasked(named)
  <2>1. ASSUME NEW i \in 1 .. n
        PROVE  /\ ValidMember(ms[i]) /\ \A g \in ContentFields : ms[i][g] = "not_requested"
    <3> DEFINE m == obs.members[i]
               q == ms[i]
    <3>1. ValidMember(m) /\ \A g \in ContentFields : m[g] = "not_requested"
      BY <1>1, <1>2 DEF Unasked, ObsShape
    <3>2. /\ q.capture = m.capture /\ q.raw_length = m.raw_length /\ q.digest = m.digest
          /\ q.structure = m.structure /\ q.notice = m.notice
          /\ \A g \in ContentFields : q[g] = m[g]
      BY <1>5 DEF MemberFields, ContentFields
    <3>3. m.capture = "complete" /\ Has(m.digest)
      BY <1>7
    <3>4. m.structure = "not_started"
      BY <1>2, <1>7 DEF MemberFollows
    <3> HIDE DEF m, q
    <3>5. ValidMember(q)
      BY <3>1, <3>2, <3>3, <3>4 DEF ValidMember
    <3> QED
      BY <3>1, <3>2, <3>5 DEF q
  <2> QED
    BY <1>1, <1>4, <1>6, <2>1 DEF Unasked, Frame, ObsShape
<1>9. ASSUME NEW s, NEW r, CaptureFails(obs, s, r) \/ CaptureFails(named, s, r) PROVE RecordInvariant'
  BY <1>1, <1>8, <1>9, FailRecords
<1>10. CASE /\ CapturedAncestry(hs)
            /\ obs' = named /\ stage' = "structure"
            /\ UNCHANGED <<env, cancelled, idx, blk, headers, raw, copies, work, report>>
  <2>1. ASSUME NEW i \in 1 .. n PROVE MemberFollows(obs.members[i], i)'
    <3> DEFINE m == obs.members[i]
    <3>1. MemberFollows(m, i) /\ m.capture = "complete" /\ Copied(i) /\ Sized(i) /\ ~ Checked(i)
      BY <1>2, <1>7
    <3>2. Copied(i)' /\ ~ Checked(i)'
      <4>1. idx' = 1 /\ ~ (i < 1)
        BY <1>1, <1>2, <1>10 DEF CaptureInvariant, PlacesOK
      <4> QED
        BY <1>10, <4>1 DEF Copied, CopiedStages, Checked
    <3>3. obs'.members[i] = ms[i] /\ raw' = raw /\ stage' = "structure"
      BY <1>6, <1>10
    <3>4. /\ ms[i].capture = m.capture /\ ms[i].raw_length = m.raw_length
          /\ ms[i].structure = m.structure /\ ms[i].notice = m.notice
          /\ \A g \in ContentFields : ms[i][g] = m[g]
      BY <1>5 DEF MemberFields, ContentFields
    <3>5. m.raw_length = Some(raw[i]) /\ raw[i] # 0 /\ m.structure = "not_started"
          /\ m.notice = Absent /\ \A g \in ContentFields : m[g] = "not_requested"
      BY <1>1, <3>1 DEF MemberFollows
    <3> HIDE DEF m
    <3> QED
      BY <3>1, <3>2, <3>3, <3>4, <3>5 DEF MemberFollows, NamedStages
  <2>2. RecorderFollows' /\ PlanFollowed' /\ ReceiptIsValid'
    <3>1. UNCHANGED <<env, report>>
      BY <1>10
    <3> QED
      BY <1>1, <1>6, <1>10, <2>1, <3>1, RecordGoesOn
  <2>3. AncestryOK'
    BY <1>1, <1>10 DEF RecordInvariant, AncestryOK
  <2>4. CapKept' /\ CaptureStaysWithinCap'
    BY <1>1, <1>10 DEF RecordInvariant, CapKept, CaptureStaysWithinCap, SizedStages, Length
  <2> QED
    BY <2>2, <2>3, <2>4 DEF RecordInvariant
<1> QED
  BY <1>3, <1>9, <1>10

\* From the identity check on, the members are captured and named.
LEMMA LateMember ==
  ASSUME CaptureInvariant, RecordInvariant, stage \in NamedStages, NEW i \in 1 .. Len(source)
  PROVE  LET m == obs.members[i]
         IN  /\ m.capture = "complete" /\ m.raw_length = Some(raw[i]) /\ raw[i] # 0
             /\ Has(m.digest) /\ m.identity = Some(copies[i].header)
             /\ m.structure = IF Checked(i) THEN "complete" ELSE "not_started"
             /\ ~ Checked(i) => m.notice = Absent
             /\ stage # "content" => \A f \in ContentFields : m[f] = "not_requested"
             /\ Abandoned(m)
<1> DEFINE m == obs.members[i]
<1>1. MemberFollows(m, i)
  BY RecorderHeader DEF NamedStages
<1>2. Copied(i) /\ Sized(i)
  BY DEF NamedStages, Copied, CopiedStages, Sized, SizedStages
<1>3. m.digest = Some(copies[i].blocks) /\ m.identity = Some(copies[i].header)
  BY DEF CaptureInvariant, DigestsOK, NamesOK, NamedStages, CopiedStages
<1> HIDE DEF m
<1>4. /\ m.capture = "complete" /\ m.raw_length = Some(raw[i]) /\ raw[i] # 0
      /\ m.structure = IF Checked(i) THEN "complete" ELSE "not_started"
      /\ ~ Checked(i) => m.notice = Absent
  BY <1>1, <1>2 DEF MemberFollows
<1>5. stage # "content" => \A f \in ContentFields : m[f] = "not_requested"
  BY <1>1 DEF MemberFollows
<1>6. Has(m.digest) /\ Abandoned(m)
  BY <1>3, <1>4 DEF Abandoned, Has, Some, Absent
<1> QED
  BY <1>3, <1>4, <1>5, <1>6 DEF m

LEMMA StructureRecords ==
  ASSUME CaptureInvariant, RecordInvariant, Structure
  PROVE  RecordInvariant'
<1> DEFINE n == Len(source)
           begun == SetStage(obs, idx, "structure", "in_progress")
<1>1. stage = "structure" /\ stage \in NamedStages
  BY DEF Structure, NamedStages
<1>2. /\ n \in Nat \ {0} /\ ObsShape(obs, n) /\ obs.schema = 1 /\ obs.coverage_version = 1
      /\ obs.coverage = Absent /\ \A i \in 1 .. n : MemberFollows(obs.members[i], i)
  BY <1>1, RecorderHeader
<1>3. idx \in 1 .. n /\ Len(copies) = n
  BY <1>1 DEF CaptureInvariant, PlacesOK, CopiedStages
<1>4. "structure" \in MemberFields /\ "notice" \in MemberFields
  BY DEF MemberFields
<1>5. ASSUME NEW s, NEW r, GiveUp(begun, s, r) PROVE RecordInvariant'
  <2>1. /\ Frame(obs, begun, n)
        /\ \A j \in 1 .. n, g \in MemberFields :
              begun.members[j][g] = IF j = idx /\ g = "structure" THEN "in_progress"
                                    ELSE obs.members[j][g]
    BY <1>2, <1>4, SetStageValues
  <2> HIDE DEF begun
  <2>2. ASSUME NEW i \in 1 .. n
        PROVE  /\ Abandoned(begun.members[i])
               /\ \A f \in ContentFields : begun.members[i][f] = "not_requested"
    <3> DEFINE m == obs.members[i]
               q == begun.members[i]
    <3>1. /\ Abandoned(m) /\ (i = idx => m.notice = Absent)
          /\ \A f \in ContentFields : m[f] = "not_requested"
      <4>1. i = idx => ~ Checked(i)
        BY <1>1, <1>3 DEF Checked
      <4> QED
        BY <1>1, <4>1, LateMember
    <3>2. /\ q.capture = m.capture /\ q.raw_length = m.raw_length /\ q.digest = m.digest
          /\ q.identity = m.identity /\ q.notice = m.notice
          /\ q.structure = IF i = idx THEN "in_progress" ELSE m.structure
          /\ \A g \in ContentFields : q[g] = m[g]
      BY <2>1 DEF MemberFields, ContentFields
    <3> HIDE DEF m, q
    <3>3. Abandoned(q)
      BY <3>1, <3>2 DEF Abandoned, Has
    <3> QED
      BY <3>1, <3>2, <3>3 DEF q
  <2>3. /\ ObsShape(begun, n) /\ begun.schema = 1 /\ begun.coverage_version = 1
        /\ begun.coverage = Absent
    BY <1>2, <2>1 DEF Frame
  <2> QED
    BY <1>1, <1>2, <1>5, <2>2, <2>3, GiveUpRecords
<1>6. ASSUME NEW notice,
             obs' = [obs EXCEPT !.members[idx].structure = "complete",
                                !.members[idx].notice = notice],
             idx' = IF idx = Len(copies) THEN 1 ELSE idx + 1,
             stage' = IF idx = Len(copies) THEN "plan" ELSE "structure",
             UNCHANGED <<env, cancelled, blk, headers, raw, copies, work, report>>
      PROVE  RecordInvariant'
  <2> DEFINE half == SetStage(obs, idx, "structure", "complete")
  <2>1. /\ Frame(obs, half, n)
        /\ \A j \in 1 .. n, g \in MemberFields :
              half.members[j][g] = IF j = idx /\ g = "structure" THEN "complete"
                                   ELSE obs.members[j][g]
    BY <1>2, <1>4, SetStageValues
  <2>2. obs' = SetStage(half, idx, "notice", notice)
    BY <1>6 DEF SetStage
  <2> HIDE DEF half
  <2>3. /\ Frame(half, obs', n)
        /\ \A j \in 1 .. n, g \in MemberFields :
              obs'.members[j][g] = IF j = idx /\ g = "notice" THEN notice ELSE half.members[j][g]
    <3>1. ObsShape(half, n)
      BY <2>1 DEF Frame
    <3> QED
      BY <1>2, <1>4, <2>2, <3>1, SetStageValues
  <2>4. Frame(obs, obs', n)
    BY <2>1, <2>3 DEF Frame
  <2>5. ASSUME NEW i \in 1 .. n PROVE MemberFollows(obs.members[i], i)'
    <3> DEFINE m == obs.members[i]
               q == obs'.members[i]
    <3>1. /\ m.capture = "complete" /\ m.raw_length = Some(raw[i]) /\ raw[i] # 0
          /\ m.structure = IF Checked(i) THEN "complete" ELSE "not_started"
          /\ ~ Checked(i) => m.notice = Absent
          /\ \A f \in ContentFields : m[f] = "not_requested"
      BY <1>1, LateMember
    <3>2. /\ stage' \in {"plan", "structure"} /\ stage' \in NamedStages /\ raw' = raw
          /\ Copied(i)' /\ (Checked(i)' <=> (Checked(i) \/ i = idx))
      BY <1>1, <1>3, <1>6 DEF NamedStages, Copied, CopiedStages, Checked
    <3>3. /\ q.capture = m.capture /\ q.raw_length = m.raw_length
          /\ i # idx => q.notice = m.notice
          /\ q.structure = IF i = idx THEN "complete" ELSE m.structure
          /\ \A g \in ContentFields : q[g] = m[g]
      BY <2>1, <2>3 DEF MemberFields, ContentFields
    <3> HIDE DEF m
    <3> QED
      BY <3>1, <3>2, <3>3 DEF MemberFollows
  <2>6. RecorderFollows' /\ PlanFollowed' /\ ReceiptIsValid'
    <3>1. UNCHANGED <<env, report>> /\ stage' \in {"plan", "structure"}
      BY <1>6
    <3> QED
      BY <1>1, <2>4, <2>5, <3>1, RecordGoesOn
  <2>7. AncestryOK'
    BY <1>1, <1>6 DEF RecordInvariant, AncestryOK
  <2>8. CapKept' /\ CaptureStaysWithinCap'
    BY <1>1, <1>6 DEF RecordInvariant, CapKept, CaptureStaysWithinCap, SizedStages, Length
  <2> QED
    BY <2>6, <2>7, <2>8 DEF RecordInvariant
<1> QED
  BY <1>5, <1>6 DEF Structure

-----------------------------------------------------------------------------
\* Each plan makes the calls its coverage allows, and settles every field it asks for.
PlanOK(w, c, n) == /\ AllAllowed(w, c, n)
                   /\ \A i \in 1 .. n : \A f \in Requested(c, i = n) : WillSettle(w, i, f)

LEMMA ConcatCalls ==
  ASSUME NEW s \in Seq(VerifierCall), NEW t \in Seq(VerifierCall)
  PROVE  /\ \A k \in DOMAIN (s \o t) : \/ \E l \in DOMAIN s : (s \o t)[k] = s[l]
                                       \/ \E l \in DOMAIN t : (s \o t)[k] = t[l]
         /\ \A i, f : SettledIn(t, i, f) => SettledIn(s \o t, i, f)
<1> DEFINE z == s \o t
<1>1. z \in Seq(VerifierCall)
  BY ConcatProperties
<1>2. /\ Len(z) = Len(s) + Len(t)
      /\ \A k \in 1 .. Len(s) + Len(t) : z[k] = IF k <= Len(s) THEN s[k] ELSE t[k - Len(s)]
  BY ConcatProperties
<1>3. DOMAIN s = 1 .. Len(s) /\ DOMAIN t = 1 .. Len(t) /\ Len(s) \in Nat /\ Len(t) \in Nat
  OBVIOUS
<1> HIDE DEF z
<1>4. DOMAIN z = 1 .. Len(s) + Len(t)
  BY <1>1, <1>2
<1>5. ASSUME NEW k \in DOMAIN z
      PROVE  (\E l \in DOMAIN s : z[k] = s[l]) \/ (\E l \in DOMAIN t : z[k] = t[l])
  <2>1. CASE k <= Len(s)
    <3>1. k \in DOMAIN s /\ z[k] = s[k]
      BY <1>2, <1>3, <1>4, <2>1
    <3> QED
      BY <3>1
  <2>2. CASE ~ (k <= Len(s))
    <3>1. k - Len(s) \in DOMAIN t /\ z[k] = t[k - Len(s)]
      BY <1>2, <1>3, <1>4, <2>2
    <3> QED
      BY <3>1
  <2> QED
    BY <2>1, <2>2
<1>6. ASSUME NEW i, NEW f, SettledIn(t, i, f) PROVE SettledIn(z, i, f)
  <2>1. PICK k \in DOMAIN t : /\ Settles(t[k], i, f)
                              /\ \A l \in DOMAIN t : l > k => ~ Begins(t[l], i, f)
    BY <1>6 DEF SettledIn
  <2>2. k + Len(s) \in DOMAIN z /\ z[k + Len(s)] = t[k]
    <3>1. /\ k + Len(s) \in 1 .. Len(s) + Len(t) /\ ~ (k + Len(s) <= Len(s))
          /\ (k + Len(s)) - Len(s) = k
      BY <1>3, <2>1
    <3> QED
      BY <1>2, <1>4, <3>1
  <2>3. ASSUME NEW l \in DOMAIN z, l > k + Len(s) PROVE ~ Begins(z[l], i, f)
    <3>1. l - Len(s) \in DOMAIN t /\ z[l] = t[l - Len(s)] /\ l - Len(s) > k
      BY <1>2, <1>3, <1>4, <2>1, <2>3
    <3> QED
      BY <2>1, <3>1
  <2> QED
    BY <2>1, <2>2, <2>3 DEF SettledIn
<1> QED
  BY <1>5, <1>6 DEF z

LEMMA TaskCalls ==
  ASSUME NEW a \in Seq(VerifierCall), NEW s \in Seq(VerifierCall), NEW b \in Seq(VerifierCall)
  PROVE  LET z == a \o s \o b
         IN  /\ \A k \in DOMAIN z : \/ \E l \in DOMAIN a : z[k] = a[l]
                                    \/ \E l \in DOMAIN s : z[k] = s[l]
                                    \/ \E l \in DOMAIN b : z[k] = b[l]
             /\ \A i, f : SettledIn(b, i, f) => SettledIn(z, i, f)
<1>1. a \o s \in Seq(VerifierCall)
  BY ConcatProperties
<1>2. /\ \A k \in DOMAIN (a \o s) : \/ \E l \in DOMAIN a : (a \o s)[k] = a[l]
                                    \/ \E l \in DOMAIN s : (a \o s)[k] = s[l]
  BY ConcatCalls
<1>3. /\ \A k \in DOMAIN (a \o s \o b) : \/ \E l \in DOMAIN (a \o s) : (a \o s \o b)[k] = (a \o s)[l]
                                         \/ \E l \in DOMAIN b : (a \o s \o b)[k] = b[l]
      /\ \A i, f : SettledIn(b, i, f) => SettledIn(a \o s \o b, i, f)
  BY <1>1, ConcatCalls
<1> QED
  BY <1>2, <1>3

LEMMA ReadsCalls ==
  ASSUME NEW S, NEW k \in DOMAIN Reads(S)
  PROVE  Reads(S)[k][1] = "read"
BY DEF Reads

LEMMA DiskPlan ==
  ASSUME NEW n, n = 1
  PROVE  PlanOK(DiskWork(n), "whole_disk_regions", n)
<1> DEFINE task == <<<<"begin", n, "recovery_point">>, <<"open", n>>,
                     <<"complete", n, "recovery_point">>, <<"begin", n, "disk_regions">>,
                     <<"own", n>>, <<"complete", n, "disk_regions">>>>
           w == <<task>>
           R(selected) == Requested("whole_disk_regions", selected)
<1>1. R(TRUE) = {"recovery_point", "disk_regions"}
  BY DEF Requested
<1>2. DOMAIN task = 1 .. 6 /\ DOMAIN w = {1} /\ w[1] = task /\ DiskWork(n) = w
  BY DEF DiskWork
<1>3. \A k \in DOMAIN task : Allowed(task[k], "whole_disk_regions", n)
  <2>1. \A k \in 1 .. 6 : \/ task[k][1] \in {"begin", "complete"} /\ task[k][2] = n
                             /\ task[k][3] \in {"recovery_point", "disk_regions"}
                          \/ task[k][1] \in {"open", "own"}
    OBVIOUS
  <2> HIDE DEF task
  <2> QED
    BY <1>1, <1>2, <2>1 DEF Allowed
<1>4. SettledIn(task, n, "recovery_point") /\ SettledIn(task, n, "disk_regions")
  <2>1. /\ Settles(task[3], n, "recovery_point") /\ Settles(task[6], n, "disk_regions")
    BY DEF Settles
  <2>2. \A l \in 1 .. 6 : l > 3 => ~ Begins(task[l], n, "recovery_point")
    BY DEF Begins
  <2> HIDE DEF task
  <2> QED
    BY <1>2, <2>1, <2>2 DEF SettledIn
<1> HIDE DEF task, w
<1>5. AllAllowed(w, "whole_disk_regions", n)
  BY <1>2, <1>3 DEF AllAllowed
<1>6. ASSUME NEW i \in 1 .. n, NEW f \in R(i = n) PROVE WillSettle(w, i, f)
  <2>1. i = n /\ f \in {"recovery_point", "disk_regions"}
    <3>1. i = n /\ (i = n) = TRUE
      OBVIOUS
    <3> QED
      BY <1>1, <1>6, <3>1
  <2>2. \A u \in DOMAIN w : ~ (u > 1)
    BY <1>2
  <2> QED
    BY <1>2, <1>4, <2>1, <2>2 DEF WillSettle
<1> QED
  BY <1>2, <1>5, <1>6 DEF PlanOK

LEMMA BlockPlan ==
  ASSUME NEW n \in Nat \ {0}, refs \subseteq 1 .. n, every \in BOOLEAN
  PROVE  PlanOK(BlockWork(n), IF every THEN "block_every" ELSE "block_selected", n)
<1> DEFINE a == <<<<"begin", n, "recovery_point">>, <<"open", n>>>>
           b == <<<<"referenced", n>>, <<"complete", n, "recovery_point">>>>
           h == <<<<"begin_all", n>>>>
           d == <<<<"complete_all", n>>>>
           o == [i \in 1 .. n |-> <<"own", i>>]
           view == a \o Reads(refs) \o b
           own == h \o o \o d
           c == IF every THEN "block_every" ELSE "block_selected"
           w == BlockWork(n)
<1>1. Reads(refs) \in Seq(VerifierCall)
  <2>1. IsFiniteSet(1 .. n) /\ refs \in SUBSET (1 .. n)
    BY FS_Interval
  <2>2. IsFiniteSet(refs)
    BY <2>1, FS_Subset
  <2>3. refs \in SUBSET Nat
    BY <2>1
  <2> QED
    BY <2>2, <2>3, ReadsOwners
<1>2. a \in Seq(VerifierCall) /\ b \in Seq(VerifierCall) /\ h \in Seq(VerifierCall)
      /\ d \in Seq(VerifierCall) /\ o \in Seq(VerifierCall)
  <2>1. "recovery_point" \in ContentFields
    BY DEF ContentFields
  <2>2. /\ <<"begin", n, "recovery_point">> \in VerifierCall
        /\ <<"complete", n, "recovery_point">> \in VerifierCall
        /\ <<"open", n>> \in VerifierCall /\ <<"referenced", n>> \in VerifierCall
        /\ <<"begin_all", n>> \in VerifierCall /\ <<"complete_all", n>> \in VerifierCall
    BY <2>1, CallsAreCalls
  <2>3. \A i \in 1 .. n : <<"own", i>> \in VerifierCall
    BY DEF VerifierCall
  <2> QED
    BY <2>2, <2>3
<1>3. /\ \A l \in DOMAIN a : \/ a[l][1] = "begin" /\ a[l][2] = n /\ a[l][3] = "recovery_point"
                             \/ a[l][1] = "open"
      /\ \A l \in DOMAIN b : \/ b[l][1] = "referenced"
                             \/ b[l][1] = "complete" /\ b[l][2] = n /\ b[l][3] = "recovery_point"
      /\ \A l \in DOMAIN h : h[l][1] = "begin_all"
      /\ \A l \in DOMAIN d : d[l][1] = "complete_all"
      /\ \A l \in DOMAIN o : o[l][1] = "own"
  OBVIOUS
<1>4. /\ \A i : SettledIn(b, i, "referenced")
      /\ SettledIn(b, n, "recovery_point")
      /\ \A i : SettledIn(d, i, "every_stored")
  <2>1. DOMAIN b = {1, 2} /\ DOMAIN d = {1}
    OBVIOUS
  <2>2. /\ b[1][1] = "referenced" /\ b[2][1] = "complete" /\ b[2][2] = n
        /\ b[2][3] = "recovery_point" /\ d[1][1] = "complete_all"
    OBVIOUS
  <2> HIDE DEF b, d
  <2> QED
    BY <2>1, <2>2 DEF SettledIn, Settles, Begins
<1> HIDE DEF a, b, h, d, o
<1>5. /\ \A k \in DOMAIN view : \/ \E l \in DOMAIN a : view[k] = a[l]
                                \/ \E l \in DOMAIN Reads(refs) : view[k] = Reads(refs)[l]
                                \/ \E l \in DOMAIN b : view[k] = b[l]
      /\ \A i, f : SettledIn(b, i, f) => SettledIn(view, i, f)
  BY <1>1, <1>2, TaskCalls
<1>6. /\ \A k \in DOMAIN own : \/ \E l \in DOMAIN h : own[k] = h[l]
                               \/ \E l \in DOMAIN o : own[k] = o[l]
                               \/ \E l \in DOMAIN d : own[k] = d[l]
      /\ \A i, f : SettledIn(d, i, f) => SettledIn(own, i, f)
  BY <1>2, TaskCalls
<1>7. w = IF every THEN <<view, own>> ELSE <<view>>
  BY DEF BlockWork, a, b, h, d, o
<1> HIDE DEF view, own, w
<1>8. /\ \A selected \in BOOLEAN : "referenced" \in Requested(c, selected)
      /\ "recovery_point" \in Requested(c, TRUE)
      /\ every => \A selected \in BOOLEAN : "every_stored" \in Requested(c, selected)
      /\ Requested(c, TRUE) \subseteq {"referenced", "recovery_point", "every_stored"}
      /\ Requested(c, FALSE) \subseteq {"referenced", "every_stored"}
      /\ ~ every => "every_stored" \notin Requested(c, TRUE) \cup Requested(c, FALSE)
  BY DEF Requested
<1> HIDE DEF c
<1>9. \A k \in DOMAIN view : Allowed(view[k], c, n)
  <2> SUFFICES ASSUME NEW k \in DOMAIN view PROVE Allowed(view[k], c, n)
    OBVIOUS
  <2> DEFINE op == view[k]
  <2>1. \/ op[1] \in {"begin", "complete"} /\ op[2] = n /\ op[3] = "recovery_point"
        \/ op[1] \in {"open", "referenced", "read"}
    BY <1>3, <1>5, ReadsCalls
  <2>2. op[2] = n => (op[2] = n) = TRUE
    OBVIOUS
  <2> HIDE DEF op
  <2>3. Allowed(op, c, n)
    BY <1>8, <2>1, <2>2 DEF Allowed
  <2> QED
    BY <2>3 DEF op
<1>10. every => \A k \in DOMAIN own : Allowed(own[k], c, n)
  <2> SUFFICES ASSUME every, NEW k \in DOMAIN own PROVE Allowed(own[k], c, n)
    OBVIOUS
  <2>1. own[k][1] \in {"begin_all", "own", "complete_all"}
    BY <1>3, <1>6
  <2> QED
    BY <1>8, <2>1 DEF Allowed
<1>11. \A i, f : f # "every_stored" => ~ BegunIn(own, i, f)
  <2>1. \A k \in DOMAIN own : own[k][1] \in {"begin_all", "own", "complete_all"}
    BY <1>3, <1>6
  <2> QED
    BY <2>1 DEF BegunIn, Begins
<1>12. ASSUME NEW i \in 1 .. n, NEW f \in Requested(c, i = n)
       PROVE  /\ f \in {"referenced", "recovery_point"} => SettledIn(view, i, f)
              /\ f = "every_stored" => every /\ SettledIn(own, i, f)
              /\ f \in {"referenced", "recovery_point", "every_stored"}
  <2>1. CASE i = n
    <3>1. (i = n) = TRUE
      BY <2>1
    <3>2. f \in Requested(c, TRUE)
      BY <1>12, <3>1
    <3> QED
      BY <1>4, <1>5, <1>6, <1>8, <2>1, <3>2
  <2>2. CASE i # n
    <3>1. (i = n) = FALSE
      BY <2>2
    <3>2. f \in Requested(c, FALSE)
      BY <1>12, <3>1
    <3> QED
      BY <1>4, <1>5, <1>6, <1>8, <3>2
  <2> QED
    BY <2>1, <2>2
<1>13. CASE every
  <2>1. DOMAIN w = {1, 2} /\ w[1] = view /\ w[2] = own
    BY <1>7, <1>13
  <2>2. AllAllowed(w, c, n)
    BY <1>9, <1>10, <1>13, <2>1 DEF AllAllowed
  <2>3. ASSUME NEW i \in 1 .. n, NEW f \in Requested(c, i = n) PROVE WillSettle(w, i, f)
    <3>1. /\ f \in {"referenced", "recovery_point"} => SettledIn(view, i, f)
          /\ f = "every_stored" => SettledIn(own, i, f)
          /\ f \in {"referenced", "recovery_point", "every_stored"}
      BY <1>12
    <3> QED
      BY <1>11, <2>1, <3>1 DEF WillSettle
  <2> QED
    BY <2>2, <2>3 DEF PlanOK, c, w
<1>14. CASE ~ every
  <2>1. DOMAIN w = {1} /\ w[1] = view
    BY <1>7, <1>14
  <2>2. AllAllowed(w, c, n)
    BY <1>9, <2>1 DEF AllAllowed
  <2>3. ASSUME NEW i \in 1 .. n, NEW f \in Requested(c, i = n) PROVE WillSettle(w, i, f)
    <3>1. SettledIn(view, i, f)
      BY <1>12, <1>14
    <3> QED
      BY <2>1, <3>1 DEF WillSettle
  <2> QED
    BY <2>2, <2>3 DEF PlanOK, c, w
<1> QED
  BY <1>13, <1>14

\* No member is a target twice.
LEMMA TargetsApart ==
  ASSUME NEW n \in Nat \ {0}, every \in BOOLEAN
  PROVE  /\ \A t, u \in DOMAIN TargetMembers(n) : TargetMembers(n)[t] = TargetMembers(n)[u] => t = u
         /\ ~ every => \A t \in DOMAIN TargetMembers(n) : TargetMembers(n)[t] = n
<1>1. CASE every
  <2>1. TargetMembers(n) = [t \in 1 .. n |-> t]
    BY <1>1 DEF TargetMembers
  <2> QED
    BY <1>1, <2>1
<1>2. CASE ~ every
  <2>1. TargetMembers(n) = <<n>>
    BY <1>2 DEF TargetMembers
  <2> QED
    BY <2>1
<1> QED
  BY <1>1, <1>2

LEMMA StreamPlan ==
  ASSUME NEW n \in Nat \ {0}, every \in BOOLEAN
  PROVE  PlanOK(StreamWork(n), IF every THEN "stream_every" ELSE "stream_selected", n)
<1> DEFINE T == TargetMembers(n)
           member(k) == <<<<"begin", k, "recovery_point">>, <<"begin", k, "every_stored">>,
                          <<"open", k>>, <<"own", k>>, <<"complete", k, "recovery_point">>,
                          <<"complete", k, "every_stored">>>>
           w == [t \in DOMAIN T |-> member(T[t])]
           c == IF every THEN "stream_every" ELSE "stream_selected"
           F == {"recovery_point", "every_stored"}
<1>1. /\ T \in Seq(1 .. n) /\ (\E t \in DOMAIN T : T[t] = n)
      /\ every => \A i \in 1 .. n : \E t \in DOMAIN T : T[t] = i
  BY TargetsCover
<1>2. /\ \A t, u \in DOMAIN T : T[t] = T[u] => t = u
      /\ ~ every => \A t \in DOMAIN T : T[t] = n
  BY TargetsApart
<1> HIDE DEF T
<1>3. ASSUME NEW k \in 1 .. n
      PROVE  /\ \A f \in F : SettledIn(member(k), k, f)
             /\ \A j \in DOMAIN member(k) :
                   \/ /\ member(k)[j][1] \in {"begin", "complete"} /\ member(k)[j][2] = k
                      /\ member(k)[j][3] \in F
                   \/ member(k)[j][1] \in {"open", "own"}
  <2>1. /\ DOMAIN member(k) = 1 .. 6
        /\ \A j \in 1 .. 6 : \/ /\ member(k)[j][1] \in {"begin", "complete"}
                                /\ member(k)[j][2] = k /\ member(k)[j][3] \in F
                             \/ member(k)[j][1] \in {"open", "own"}
    OBVIOUS
  <2>2. /\ member(k)[5][1] = "complete" /\ member(k)[5][2] = k
        /\ member(k)[5][3] = "recovery_point"
        /\ member(k)[6][1] = "complete" /\ member(k)[6][2] = k
        /\ member(k)[6][3] = "every_stored"
    OBVIOUS
  <2> HIDE DEF member
  <2>3. \A j \in 1 .. 6 : j > 5 => ~ Begins(member(k)[j], k, "recovery_point")
    BY <2>2 DEF Begins
  <2> QED
    BY <2>1, <2>2, <2>3 DEF SettledIn, Settles
<1>4. StreamWork(n) = w
  BY DEF StreamWork, T
<1> HIDE DEF member
<1>5. \A t \in DOMAIN T : T[t] \in 1 .. n
  BY <1>1
<1>6. DOMAIN w = DOMAIN T /\ \A t \in DOMAIN T : w[t] = member(T[t])
  OBVIOUS
<1> HIDE DEF w
<1>7. /\ Requested(c, TRUE) = F
      /\ Requested(c, FALSE) = IF every THEN F ELSE {}
  BY DEF Requested
<1> HIDE DEF c
<1>8. AllAllowed(w, c, n)
  <2> SUFFICES ASSUME NEW t \in DOMAIN T, NEW j \in DOMAIN w[t] PROVE Allowed(w[t][j], c, n)
    BY <1>6 DEF AllAllowed
  <2> DEFINE op == w[t][j]
  <2>1. \/ op[1] \in {"begin", "complete"} /\ op[2] = T[t] /\ op[3] \in F
        \/ op[1] \in {"open", "own"}
    BY <1>3, <1>5, <1>6
  <2>2. Requested(c, T[t] = n) = F
    <3>1. CASE T[t] = n
      <4>1. (T[t] = n) = TRUE
        BY <3>1
      <4> QED
        BY <1>7, <4>1
    <3>2. CASE T[t] # n
      <4>1. (T[t] = n) = FALSE /\ every
        BY <1>2, <3>2
      <4> QED
        BY <1>7, <4>1
    <3> QED
      BY <3>1, <3>2
  <2> HIDE DEF op
  <2>3. Allowed(op, c, n)
    BY <2>1, <2>2 DEF Allowed
  <2> QED
    BY <2>3 DEF op
<1>9. ASSUME NEW i \in 1 .. n, NEW f \in Requested(c, i = n) PROVE WillSettle(w, i, f)
  <2>1. f \in F /\ \E t \in DOMAIN T : T[t] = i
    <3>1. CASE i = n
      <4>1. (i = n) = TRUE
        BY <3>1
      <4> QED
        BY <1>1, <1>7, <1>9, <3>1, <4>1
    <3>2. CASE i # n
      <4>1. (i = n) = FALSE
        BY <3>2
      <4> QED
        BY <1>1, <1>7, <1>9, <4>1
    <3> QED
      BY <3>1, <3>2
  <2>2. PICK t \in DOMAIN T : T[t] = i
    BY <2>1
  <2>3. t \in DOMAIN w /\ SettledIn(w[t], i, f)
    BY <1>3, <1>6, <2>1, <2>2
  <2>4. ASSUME NEW u \in DOMAIN w, u > t PROVE ~ BegunIn(w[u], i, f)
    <3>1. u \in DOMAIN T /\ T[u] # i
      <4>1. T \in Seq(1 .. n) /\ DOMAIN T = 1 .. Len(T) /\ Len(T) \in Nat
        BY <1>1
      <4>2. u # t
        BY <1>6, <2>2, <2>4, <4>1
      <4> QED
        BY <1>2, <1>6, <2>2, <4>2
    <3>2. \A j \in DOMAIN w[u] : \/ /\ w[u][j][1] \in {"begin", "complete"}
                                    /\ w[u][j][2] = T[u]
                                 \/ w[u][j][1] \in {"open", "own"}
      BY <1>3, <1>5, <1>6, <3>1
    <3> QED
      BY <3>1, <3>2 DEF BegunIn, Begins
  <2> QED
    BY <2>3, <2>4 DEF WillSettle
<1> QED
  BY <1>4, <1>8, <1>9 DEF PlanOK, c

LEMMA FilePlan ==
  ASSUME NEW n \in Nat \ {0}, refs \subseteq 1 .. n, every \in BOOLEAN
  PROVE  PlanOK(FileWork(n), IF every THEN "file_every" ELSE "file_selected", n)
<1> DEFINE T == TargetMembers(n)
           a(k) == <<<<"begin", k, "recovery_point">>>>
           b(k) == <<<<"complete", k, "recovery_point">>>>
           tree(k) == a(k) \o Reads(refs \cap 1 .. k) \o b(k)
           trees == [t \in DOMAIN T |-> tree(T[t])]
           first == <<<<<<"open", n>>>>>>
           last == <<<<<<"referenced", n>>>>>>
           w == first \o trees \o last
           c == IF every THEN "file_every" ELSE "file_selected"
<1>1. /\ T \in Seq(1 .. n) /\ (\E t \in DOMAIN T : T[t] = n)
      /\ every => \A i \in 1 .. n : \E t \in DOMAIN T : T[t] = i
  BY TargetsCover
<1>2. /\ \A t, u \in DOMAIN T : T[t] = T[u] => t = u
      /\ ~ every => \A t \in DOMAIN T : T[t] = n
  BY TargetsApart
<1> HIDE DEF T
<1>3. ASSUME NEW k \in 1 .. n
      PROVE  /\ tree(k) \in Seq(VerifierCall)
             /\ SettledIn(tree(k), k, "recovery_point")
             /\ \A j \in DOMAIN tree(k) :
                   \/ /\ tree(k)[j][1] \in {"begin", "complete"} /\ tree(k)[j][2] = k
                      /\ tree(k)[j][3] = "recovery_point"
                   \/ tree(k)[j][1] = "read"
  <2>1. k \in Nat /\ "recovery_point" \in ContentFields
    BY DEF ContentFields
  <2>2. /\ <<"begin", k, "recovery_point">> \in VerifierCall
        /\ <<"complete", k, "recovery_point">> \in VerifierCall
    BY <2>1, CallsAreCalls
  <2>3. a(k) \in Seq(VerifierCall) /\ b(k) \in Seq(VerifierCall) /\ a(k) # <<>>
    BY <2>2
  <2>4. IsFiniteSet(1 .. k)
    BY <2>1, FS_Interval
  <2>5. refs \cap 1 .. k \in SUBSET Nat /\ IsFiniteSet(refs \cap 1 .. k)
    BY <2>4, FS_Subset
  <2> DEFINE S == refs \cap 1 .. k
  <2>6. Reads(S) \in Seq(VerifierCall)
    BY <2>5, ReadsOwners
  <2>7. /\ DOMAIN a(k) = {1} /\ DOMAIN b(k) = {1}
        /\ a(k)[1][1] = "begin" /\ a(k)[1][2] = k /\ a(k)[1][3] = "recovery_point"
        /\ b(k)[1][1] = "complete" /\ b(k)[1][2] = k /\ b(k)[1][3] = "recovery_point"
    OBVIOUS
  <2> HIDE DEF a, b, S
  <2>8. SettledIn(b(k), k, "recovery_point")
    BY <2>7 DEF SettledIn, Settles, Begins
  <2> DEFINE z == a(k) \o Reads(S) \o b(k)
  <2>9. z \in Seq(VerifierCall)
    BY <2>3, <2>6, TaskReads
  <2>10. /\ \A j \in DOMAIN z : \/ \E l \in DOMAIN a(k) : z[j] = a(k)[l]
                                \/ \E l \in DOMAIN Reads(S) : z[j] = Reads(S)[l]
                                \/ \E l \in DOMAIN b(k) : z[j] = b(k)[l]
         /\ \A i, f : SettledIn(b(k), i, f) => SettledIn(z, i, f)
    BY <2>3, <2>6, TaskCalls
  <2>11. tree(k) = z
    BY DEF S
  <2> HIDE DEF z, tree
  <2>12. \A j \in DOMAIN z :
            \/ z[j][1] \in {"begin", "complete"} /\ z[j][2] = k /\ z[j][3] = "recovery_point"
            \/ z[j][1] = "read"
    BY <2>7, <2>10, ReadsCalls
  <2> QED
    BY <2>8, <2>9, <2>10, <2>11, <2>12
<1>4. FileWork(n) = w
  BY DEF FileWork, T
<1> HIDE DEF tree
<1>5. DOMAIN T = 1 .. Len(T) /\ Len(T) \in Nat /\ \A t \in DOMAIN T : T[t] \in 1 .. n
  BY <1>1
<1>6. trees \in Seq(Seq(VerifierCall)) /\ Len(trees) = Len(T)
      /\ \A t \in DOMAIN T : trees[t] = tree(T[t])
  BY <1>3, <1>5
<1>7. /\ first \in Seq(Seq(VerifierCall)) /\ last \in Seq(Seq(VerifierCall))
      /\ Len(first) = 1 /\ Len(last) = 1
  <2>1. <<"open", n>> \in VerifierCall /\ <<"referenced", n>> \in VerifierCall
    BY DEF VerifierCall
  <2> QED
    BY <2>1
<1>8. /\ DOMAIN first[1] = {1} /\ first[1][1][1] = "open"
      /\ DOMAIN last[1] = {1} /\ last[1][1][1] = "referenced"
  OBVIOUS
<1> HIDE DEF trees, first, last
<1>9. /\ DOMAIN w = 1 .. Len(T) + 2
      /\ w[1] = first[1] /\ w[Len(T) + 2] = last[1]
      /\ \A t \in DOMAIN T : w[t + 1] = trees[t]
  <2> DEFINE v == first \o trees
             Q == Seq(VerifierCall)
  <2>1. v \in Seq(Q) /\ Len(v) = Len(T) + 1
        /\ \A t \in 1 .. Len(v) : v[t] = IF t <= 1 THEN first[t] ELSE trees[t - 1]
    <3>1. first \in Seq(Q) /\ trees \in Seq(Q)
      BY <1>6, <1>7
    <3> HIDE DEF Q
    <3>2. v \in Seq(Q) /\ Len(v) = Len(first) + Len(trees)
          /\ \A t \in 1 .. Len(first) + Len(trees) :
                v[t] = IF t <= Len(first) THEN first[t] ELSE trees[t - Len(first)]
      BY <3>1, ConcatProperties
    <3>3. Len(first) = 1 /\ Len(trees) = Len(T) /\ Len(T) \in Nat
      BY <1>5, <1>6, <1>7
    <3> HIDE DEF v
    <3> QED
      BY <3>2, <3>3
  <2>2. w = v \o last
    OBVIOUS
  <2>3. last \in Seq(Q)
    BY <1>7
  <2> HIDE DEF v, Q, w
  <2>4. w \in Seq(Q) /\ Len(w) = Len(v) + Len(last)
        /\ \A t \in 1 .. Len(v) + Len(last) :
              w[t] = IF t <= Len(v) THEN v[t] ELSE last[t - Len(v)]
    BY <2>1, <2>2, <2>3, ConcatProperties
  <2>5. DOMAIN w = 1 .. Len(T) + 2
    BY <1>5, <1>7, <2>1, <2>4
  <2>6. w[1] = first[1]
    BY <1>5, <1>7, <2>1, <2>4
  <2>7. w[Len(T) + 2] = last[1]
    <3>1. Len(T) + 2 \in 1 .. Len(v) + Len(last) /\ ~ (Len(T) + 2 <= Len(v))
          /\ (Len(T) + 2) - Len(v) = 1
      BY <1>5, <1>7, <2>1
    <3> QED
      BY <2>4, <3>1
  <2>8. ASSUME NEW t \in DOMAIN T PROVE w[t + 1] = trees[t]
    <3>1. t + 1 \in 1 .. Len(v) + Len(last) /\ t + 1 <= Len(v) /\ t + 1 \in 1 .. Len(v)
          /\ ~ (t + 1 <= 1) /\ (t + 1) - 1 = t
      BY <1>5, <1>7, <2>1
    <3> QED
      BY <2>1, <2>4, <3>1
  <2> QED
    BY <2>5, <2>6, <2>7, <2>8
<1> HIDE DEF w
<1>10. ASSUME NEW t \in DOMAIN w
       PROVE  \/ t = 1 \/ t = Len(T) + 2
              \/ t - 1 \in DOMAIN T /\ w[t] = tree(T[t - 1])
  <2>1. ASSUME t # 1, t # Len(T) + 2 PROVE t - 1 \in DOMAIN T /\ t = (t - 1) + 1
    BY <1>5, <1>9, <2>1
  <2> QED
    BY <1>6, <1>9, <2>1
<1>11. /\ Requested(c, TRUE) = {"referenced", "recovery_point"}
       /\ Requested(c, FALSE) = IF every THEN {"referenced", "recovery_point"} ELSE {"referenced"}
  BY DEF Requested
<1> HIDE DEF c
<1>12. AllAllowed(w, c, n)
  <2> SUFFICES ASSUME NEW t \in DOMAIN w, NEW j \in DOMAIN w[t] PROVE Allowed(w[t][j], c, n)
    BY DEF AllAllowed
  <2> DEFINE op == w[t][j]
  <2>1. CASE t = 1 \/ t = Len(T) + 2
    <3>1. op[1] \in {"open", "referenced"}
      BY <1>8, <1>9, <2>1
    <3> HIDE DEF op
    <3>2. Allowed(op, c, n)
      BY <3>1 DEF Allowed
    <3> QED
      BY <3>2 DEF op
  <2>2. CASE t - 1 \in DOMAIN T /\ w[t] = tree(T[t - 1])
    <3> DEFINE k == T[t - 1]
    <3>1. k \in 1 .. n /\ w[t] = tree(k)
      BY <1>5, <2>2
    <3>2. "recovery_point" \in Requested(c, k = n)
      <4>1. CASE k = n
        <5>1. (k = n) = TRUE
          BY <4>1
        <5> QED
          BY <1>11, <5>1
      <4>2. CASE k # n
        <5>1. (k = n) = FALSE /\ every
          BY <1>2, <2>2, <4>2
        <5> QED
          BY <1>11, <5>1
      <4> QED
        BY <4>1, <4>2
    <3> HIDE DEF k
    <3>3. \/ op[1] \in {"begin", "complete"} /\ op[2] = k /\ op[3] = "recovery_point"
          \/ op[1] = "read"
      BY <1>3, <3>1
    <3>4. \A selected \in BOOLEAN : "referenced" \in Requested(c, selected)
      BY <1>11
    <3> HIDE DEF op
    <3>5. Allowed(op, c, n)
      BY <3>2, <3>3, <3>4 DEF Allowed
    <3> QED
      BY <3>5 DEF op
  <2> QED
    BY <1>10, <2>1, <2>2
<1>13. ASSUME NEW i \in 1 .. n, NEW f \in Requested(c, i = n) PROVE WillSettle(w, i, f)
  <2>1. \/ f = "referenced"
        \/ f = "recovery_point" /\ \E t \in DOMAIN T : T[t] = i
    <3>1. CASE i = n
      <4>1. (i = n) = TRUE
        BY <3>1
      <4> QED
        BY <1>1, <1>11, <1>13, <3>1, <4>1
    <3>2. CASE i # n
      <4>1. (i = n) = FALSE
        BY <3>2
      <4> QED
        BY <1>1, <1>11, <1>13, <4>1
    <3> QED
      BY <3>1, <3>2
  <2>2. CASE f = "referenced"
    <3>1. Len(T) + 2 \in DOMAIN w /\ \A u \in DOMAIN w : ~ (u > Len(T) + 2)
      BY <1>5, <1>9
    <3>2. SettledIn(w[Len(T) + 2], i, f)
      BY <1>8, <1>9, <2>2 DEF SettledIn, Settles, Begins
    <3> QED
      BY <3>1, <3>2 DEF WillSettle
  <2>3. CASE f = "recovery_point" /\ \E t \in DOMAIN T : T[t] = i
    <3>1. PICK t \in DOMAIN T : T[t] = i
      BY <2>3
    <3>2. t + 1 \in DOMAIN w /\ SettledIn(w[t + 1], i, f)
      <4>1. t + 1 \in DOMAIN w
        BY <1>5, <1>9, <3>1
      <4>2. w[t + 1] = tree(i)
        BY <1>6, <1>9, <3>1
      <4> QED
        BY <1>3, <2>3, <4>1, <4>2
    <3>3. ASSUME NEW u \in DOMAIN w, u > t + 1 PROVE ~ BegunIn(w[u], i, f)
      <4>1. CASE u = 1 \/ u = Len(T) + 2
        <5>1. DOMAIN w[u] = {1} /\ w[u][1][1] \in {"open", "referenced"}
          BY <1>8, <1>9, <4>1
        <5> QED
          BY <5>1 DEF BegunIn, Begins
      <4>2. CASE u - 1 \in DOMAIN T /\ w[u] = tree(T[u - 1])
        <5>1. u - 1 # t
          BY <1>5, <1>9, <3>1, <3>3
        <5>2. T[u - 1] # i /\ T[u - 1] \in 1 .. n
          BY <1>2, <1>5, <3>1, <4>2, <5>1
        <5>3. \A j \in DOMAIN w[u] : \/ w[u][j][1] \in {"begin", "complete"}
                                        /\ w[u][j][2] = T[u - 1]
                                     \/ w[u][j][1] = "read"
          BY <1>3, <4>2, <5>2
        <5> QED
          BY <2>3, <5>2, <5>3 DEF BegunIn, Begins
      <4> QED
        BY <1>10, <4>1, <4>2
    <3> QED
      BY <3>2, <3>3 DEF WillSettle
  <2> QED
    BY <2>1, <2>2, <2>3
<1> QED
  BY <1>4, <1>12, <1>13 DEF PlanOK, c

-----------------------------------------------------------------------------
\* One call: what it does to the recorder, and what it leaves of the plan.
LEMMA ApplyTouches ==
  ASSUME NEW o, NEW n \in Nat, NEW op \in VerifierCall, ObsShape(o, n),
         NEW c, Allowed(op, c, n)
  PROVE  LET p == Apply(op, o)
         IN  /\ Frame(o, p, n)
             /\ \A i \in 1 .. n, g \in MemberFields \ ContentFields :
                   p.members[i][g] = o.members[i][g]
             /\ \A i \in 1 .. n, f \in ContentFields :
                   /\ f \notin Requested(c, i = n) => p.members[i][f] = o.members[i][f]
                      \/ (f = "referenced" /\ o.members[i][f] \in {"not_started", "in_progress"})
                   /\ p.members[i][f] \in {o.members[i][f], "in_progress", "complete"}
                   /\ Settles(op, i, f) => \/ p.members[i][f] = "complete"
                                           \/ o.members[i][f] \notin {"not_started", "in_progress"}
                                              /\ p.members[i][f] = o.members[i][f]
                   /\ o.members[i][f] = "complete" /\ ~ Begins(op, i, f) =>
                        p.members[i][f] = "complete"
<1> DEFINE p == Apply(op, o)
<1>1. ContentFields \subseteq MemberFields /\ "referenced" \in ContentFields
      /\ "every_stored" \in ContentFields
  BY DEF ContentFields, MemberFields
<1>2. \/ op[1] \in {"begin", "complete"} /\ op[3] \in ContentFields
      \/ op[1] \in {"open", "referenced", "begin_all", "complete_all", "read", "own"}
  BY DEF VerifierCall
<1>3. CASE op[1] \in {"begin", "complete"}
  <2> DEFINE v == IF op[1] = "begin" THEN "in_progress" ELSE "complete"
  <2>1. p = SetStage(o, op[2], op[3], v)
    BY <1>3 DEF Apply
  <2>2. op[3] \in ContentFields /\ op[3] \in Requested(c, op[2] = n)
    BY <1>2, <1>3 DEF Allowed
  <2>3. /\ Frame(o, p, n)
        /\ \A j \in 1 .. n, g \in MemberFields :
              p.members[j][g] = IF j = op[2] /\ g = op[3] THEN v ELSE o.members[j][g]
    BY <1>1, <2>1, <2>2, SetStageValues
  <2> HIDE DEF p
  <2>4. v \in {"in_progress", "complete"} /\ (op[1] = "complete" => v = "complete")
        /\ (v = "complete" \/ op[1] = "begin")
    BY <1>3
  <2> HIDE DEF v
  <2>5. ASSUME NEW i \in 1 .. n, NEW f \in ContentFields
        PROVE  /\ f \notin Requested(c, i = n) => p.members[i][f] = o.members[i][f]
               /\ p.members[i][f] \in {o.members[i][f], "in_progress", "complete"}
               /\ Settles(op, i, f) => p.members[i][f] = "complete"
               /\ o.members[i][f] = "complete" /\ ~ Begins(op, i, f) =>
                        p.members[i][f] = "complete"
    <3>1. p.members[i][f] = IF i = op[2] /\ f = op[3] THEN v ELSE o.members[i][f]
      BY <1>1, <2>3
    <3>2. Settles(op, i, f) => i = op[2] /\ f = op[3] /\ v = "complete"
      BY <1>3, <2>4 DEF Settles
    <3>3. i = op[2] /\ f = op[3] /\ ~ Begins(op, i, f) => v = "complete"
      BY <1>3, <2>4 DEF Begins
    <3> QED
      BY <2>2, <2>4, <3>1, <3>2, <3>3
  <2> QED
    BY <1>1, <2>2, <2>3, <2>5 DEF p
<1>4. CASE op[1] \in {"begin_all", "complete_all"}
  <2> DEFINE v == IF op[1] = "begin_all" THEN "in_progress" ELSE "complete"
  <2>1. p = SetAll(o, "every_stored", v)
    BY <1>4 DEF Apply
  <2>2. \A selected \in BOOLEAN : "every_stored" \in Requested(c, selected)
    BY <1>4 DEF Allowed
  <2>3. /\ Frame(o, p, n)
        /\ \A j \in 1 .. n, g \in MemberFields :
              p.members[j][g] = IF g = "every_stored" THEN v ELSE o.members[j][g]
    BY <1>1, <2>1, SetAllValues
  <2> HIDE DEF p
  <2>4. v \in {"in_progress", "complete"} /\ (op[1] = "complete_all" => v = "complete")
        /\ (v = "complete" \/ op[1] = "begin_all")
    BY <1>4
  <2> HIDE DEF v
  <2>5. ASSUME NEW i \in 1 .. n, NEW f \in ContentFields
        PROVE  /\ f \notin Requested(c, i = n) => p.members[i][f] = o.members[i][f]
               /\ p.members[i][f] \in {o.members[i][f], "in_progress", "complete"}
               /\ Settles(op, i, f) => p.members[i][f] = "complete"
               /\ o.members[i][f] = "complete" /\ ~ Begins(op, i, f) =>
                        p.members[i][f] = "complete"
    <3>1. p.members[i][f] = IF f = "every_stored" THEN v ELSE o.members[i][f]
      BY <1>1, <2>3
    <3>2. Settles(op, i, f) => f = "every_stored" /\ v = "complete"
      BY <1>4, <2>4 DEF Settles
    <3>3. f = "every_stored" /\ ~ Begins(op, i, f) => v = "complete"
      BY <1>4, <2>4 DEF Begins
    <3>4. "every_stored" \in Requested(c, i = n)
      BY <2>2
    <3> QED
      BY <2>4, <3>1, <3>2, <3>3, <3>4
  <2> QED
    BY <1>1, <2>3, <2>5 DEF p
<1>5. CASE op[1] = "referenced"
  <2>1. p = CompleteReferenced(o)
    BY <1>5 DEF Apply
  <2>2. /\ Frame(o, p, n)
        /\ \A j \in 1 .. n, g \in MemberFields :
              p.members[j][g] =
                IF g = "referenced" /\ o.members[j][g] \in {"not_started", "in_progress"}
                THEN "complete" ELSE o.members[j][g]
    BY <2>1, CompleteReferencedValues
  <2> HIDE DEF p
  <2>3. \A i, f : Settles(op, i, f) => f = "referenced"
    BY <1>5 DEF Settles
  <2>4. ASSUME NEW i \in 1 .. n, NEW f \in ContentFields
        PROVE  p.members[i][f] =
                 IF f = "referenced" /\ o.members[i][f] \in {"not_started", "in_progress"}
                 THEN "complete" ELSE o.members[i][f]
    BY <1>1, <2>2
  <2> QED
    BY <1>1, <2>2, <2>3, <2>4 DEF p
<1>6. CASE op[1] \in {"open", "own"}
  <2>1. p = o /\ \A i, f : ~ Settles(op, i, f)
    BY <1>6 DEF Apply, Settles
  <2> QED
    BY <2>1 DEF Frame
<1>7. CASE op[1] = "read"
  <2> DEFINE done == o.members[op[2]].referenced = "complete"
  <2>1. p = IF done THEN o ELSE SetStage(o, op[2], "referenced", "in_progress")
    BY <1>7 DEF Apply, BeginReferenced
  <2>2. \A selected \in BOOLEAN : "referenced" \in Requested(c, selected)
    BY <1>7 DEF Allowed
  <2>3. /\ Frame(o, p, n)
        /\ \A j \in 1 .. n, g \in MemberFields :
              p.members[j][g] = IF j = op[2] /\ g = "referenced" /\ ~ done THEN "in_progress"
                                ELSE o.members[j][g]
    <3>1. CASE done
      BY <2>1, <3>1 DEF Frame
    <3>2. CASE ~ done
      <4>1. p = SetStage(o, op[2], "referenced", "in_progress")
        BY <2>1, <3>2
      <4> QED
        BY <1>1, <3>2, <4>1, SetStageValues
    <3> QED
      BY <3>1, <3>2
  <2> HIDE DEF p
  <2>4. \A i, f : ~ Settles(op, i, f)
    BY <1>7 DEF Settles
  <2>5. ASSUME NEW i \in 1 .. n, NEW f \in ContentFields
        PROVE  /\ f \notin Requested(c, i = n) => p.members[i][f] = o.members[i][f]
               /\ p.members[i][f] \in {o.members[i][f], "in_progress", "complete"}
               /\ o.members[i][f] = "complete" => p.members[i][f] = "complete"
    <3>1. p.members[i][f] = IF i = op[2] /\ f = "referenced" /\ ~ done THEN "in_progress"
                            ELSE o.members[i][f]
      BY <1>1, <2>3
    <3>2. "referenced" \in Requested(c, i = n)
      BY <2>2
    <3> QED
      BY <3>1, <3>2
  <2> QED
    BY <1>1, <2>3, <2>4, <2>5 DEF p
<1> QED
  BY <1>2, <1>3, <1>4, <1>5, <1>6, <1>7

LEMMA RestShape ==
  ASSUME NEW w, IsWork(w), w # <<>>
  PROVE  LET task == w[1]
             rest == RestOf(w)
         IN  /\ Len(w) \in Nat \ {0} /\ DOMAIN w = 1 .. Len(w) /\ 1 \in DOMAIN w
             /\ Len(task) \in Nat \ {0} /\ DOMAIN task = 1 .. Len(task) /\ 1 \in DOMAIN task
             /\ Head(Head(w)) = task[1]
             /\ Len(task) = 1 => /\ DOMAIN rest = 1 .. Len(w) - 1
                                 /\ \A u \in 1 .. Len(w) - 1 : rest[u] = w[u + 1]
             /\ Len(task) # 1 => /\ DOMAIN rest = 1 .. Len(w)
                                 /\ DOMAIN rest[1] = 1 .. Len(task) - 1
                                 /\ \A k \in 1 .. Len(task) - 1 : rest[1][k] = task[k + 1]
                                 /\ \A u \in 2 .. Len(w) : rest[u] = w[u]
<1> DEFINE Q == Seq(VerifierCall)
           task == Head(w)
           left == Tail(task)
           rest == RestOf(w)
<1>1. w \in Seq(Q) /\ \A t \in DOMAIN w : w[t] # <<>>
  BY DEF IsWork
<1>2. task \in Q /\ task # <<>> /\ task = w[1]
      /\ Len(w) \in Nat \ {0} /\ DOMAIN w = 1 .. Len(w) /\ 1 \in DOMAIN w
  <2> HIDE DEF Q
  <2>1. 1 \in DOMAIN w /\ task = w[1] /\ task \in Q
        /\ Len(w) \in Nat \ {0} /\ DOMAIN w = 1 .. Len(w)
    BY <1>1
  <2> QED
    BY <1>1, <2>1
<1>3. Head(task) = task[1] /\ left \in Q /\ DOMAIN left = 1 .. Len(task) - 1
      /\ Len(task) \in Nat \ {0} /\ \A k \in 1 .. Len(task) - 1 : left[k] = task[k + 1]
      /\ DOMAIN task = 1 .. Len(task)
  <2> HIDE DEF task
  <2> QED
    BY <1>2
<1>4. /\ Tail(w) \in Seq(Q) /\ Len(Tail(w)) = Len(w) - 1 /\ DOMAIN Tail(w) = 1 .. Len(w) - 1
      /\ \A t \in 1 .. Len(w) - 1 : Tail(w)[t] = w[t + 1]
  <2> HIDE DEF Q
  <2> QED
    BY <1>1
<1>5. rest = IF Len(task) = 1 THEN Tail(w) ELSE <<left>> \o Tail(w)
  BY DEF RestOf
<1> HIDE DEF task, left, rest
<1>6. Len(task) = 1 => /\ DOMAIN rest = 1 .. Len(w) - 1
                       /\ \A u \in 1 .. Len(w) - 1 : rest[u] = w[u + 1]
  BY <1>4, <1>5
<1>7. ASSUME Len(task) # 1
      PROVE  /\ DOMAIN rest = 1 .. Len(w) /\ rest[1] = left
             /\ \A u \in 2 .. Len(w) : rest[u] = w[u]
  <2>1. rest = <<left>> \o Tail(w)
    BY <1>5, <1>7
  <2> HIDE DEF Q
  <2>2. <<left>> \in Seq(Q) /\ Len(<<left>>) = 1 /\ <<left>>[1] = left
    BY <1>3
  <2>3. rest \in Seq(Q) /\ Len(rest) = 1 + Len(Tail(w))
        /\ \A u \in 1 .. 1 + Len(Tail(w)) :
              rest[u] = IF u <= 1 THEN <<left>>[u] ELSE Tail(w)[u - 1]
    BY <1>4, <2>1, <2>2, ConcatProperties
  <2>4. 1 + Len(Tail(w)) = Len(w) /\ 1 \in 1 .. Len(w)
    BY <1>2, <1>4
  <2>5. DOMAIN rest = 1 .. Len(w)
    BY <2>3, <2>4
  <2>6. rest[1] = left
    BY <2>2, <2>3, <2>4
  <2>7. ASSUME NEW u \in 2 .. Len(w) PROVE rest[u] = w[u]
    <3>1. u \in 1 .. Len(w) /\ ~ (u <= 1) /\ u - 1 \in 1 .. Len(w) - 1 /\ (u - 1) + 1 = u
      BY <1>2
    <3>2. rest[u] = Tail(w)[u - 1]
      BY <2>3, <2>4, <3>1
    <3> QED
      BY <1>4, <3>1, <3>2
  <2> QED
    BY <2>5, <2>6, <2>7
<1>8. 1 \in DOMAIN task
  BY <1>3
<1> QED
  BY <1>2, <1>3, <1>6, <1>7, <1>8 DEF task, rest

LEMMA PlanAdvances ==
  ASSUME NEW w, IsWork(w), w # <<>>
  PROVE  LET op == Head(Head(w))
             rest == RestOf(w)
         IN  /\ \A c, n : AllAllowed(w, c, n) => Allowed(op, c, n) /\ AllAllowed(rest, c, n)
             /\ \A i, f : Unbegun(w, i, f) => ~ Begins(op, i, f) /\ Unbegun(rest, i, f)
             /\ \A i, f : WillSettle(w, i, f) =>
                            \/ WillSettle(rest, i, f)
                            \/ Settles(op, i, f) /\ Unbegun(rest, i, f)
<1> DEFINE op == Head(Head(w))
           task == w[1]
           rest == RestOf(w)
<1>1. /\ Len(w) \in Nat \ {0} /\ DOMAIN w = 1 .. Len(w) /\ 1 \in DOMAIN w
      /\ Len(task) \in Nat \ {0} /\ DOMAIN task = 1 .. Len(task) /\ 1 \in DOMAIN task
      /\ op = task[1]
      /\ Len(task) = 1 => /\ DOMAIN rest = 1 .. Len(w) - 1
                          /\ \A u \in 1 .. Len(w) - 1 : rest[u] = w[u + 1]
      /\ Len(task) # 1 => /\ DOMAIN rest = 1 .. Len(w)
                          /\ DOMAIN rest[1] = 1 .. Len(task) - 1
                          /\ \A k \in 1 .. Len(task) - 1 : rest[1][k] = task[k + 1]
                          /\ \A u \in 2 .. Len(w) : rest[u] = w[u]
  BY RestShape
<1>2. task = w[1]
  OBVIOUS
<1> HIDE DEF op, rest, task
<1>3. Len(w) \in Nat \ {0} /\ DOMAIN w = 1 .. Len(w)
  BY <1>1
<1>4. ASSUME Len(task) # 1, NEW k \in DOMAIN rest[1]
      PROVE  k \in Nat /\ k + 1 \in DOMAIN task /\ k + 1 > 1 /\ rest[1][k] = task[k + 1]
  <2>1. k \in 1 .. Len(task) - 1
    BY <1>1, <1>4
  <2>2. rest[1][k] = task[k + 1]
    BY <1>1, <1>4, <2>1
  <2> QED
    BY <1>1, <2>1, <2>2
<1>5. ASSUME Len(task) # 1, NEW u \in DOMAIN rest, u # 1
      PROVE  u \in DOMAIN w /\ u > 1 /\ rest[u] = w[u]
  <2>1. u \in 2 .. Len(w)
    <3>1. DOMAIN rest = 1 .. Len(w)
      BY <1>1, <1>5
    <3> QED
      BY <1>5, <1>3, <3>1
  <2>2. rest[u] = w[u]
    BY <1>1, <1>5, <2>1
  <2> QED
    BY <1>1, <2>1, <2>2
\* every call left was there before
<1>6. ASSUME NEW u \in DOMAIN rest, NEW k \in DOMAIN rest[u]
      PROVE  \E t \in DOMAIN w : \E l \in DOMAIN w[t] : rest[u][k] = w[t][l]
  <2>1. CASE Len(task) = 1
    <3>1. u + 1 \in DOMAIN w /\ rest[u] = w[u + 1]
      BY <1>1, <2>1
    <3> QED
      BY <3>1
  <2>2. CASE Len(task) # 1 /\ u = 1
    <3>1. k + 1 \in DOMAIN task /\ rest[u][k] = task[k + 1]
      BY <1>4, <2>2
    <3> QED
      BY <1>1, <1>2, <3>1
  <2>3. CASE Len(task) # 1 /\ u # 1
    <3>1. u \in DOMAIN w /\ rest[u] = w[u]
      BY <1>5, <2>3
    <3> QED
      BY <3>1
  <2> QED
    BY <2>1, <2>2, <2>3
<1>7. ASSUME NEW c, NEW n, AllAllowed(w, c, n)
      PROVE  Allowed(op, c, n) /\ AllAllowed(rest, c, n)
  BY <1>1, <1>6, <1>7, <1>2 DEF AllAllowed
<1>8. ASSUME NEW i, NEW f, Unbegun(w, i, f) PROVE ~ Begins(op, i, f) /\ Unbegun(rest, i, f)
  BY <1>1, <1>6, <1>8, <1>2 DEF Unbegun, BegunIn
<1>9. ASSUME NEW i, NEW f, WillSettle(w, i, f)
      PROVE  WillSettle(rest, i, f) \/ (Settles(op, i, f) /\ Unbegun(rest, i, f))
  <2>1. PICK t \in DOMAIN w : /\ SettledIn(w[t], i, f)
                              /\ \A u \in DOMAIN w : u > t => ~ BegunIn(w[u], i, f)
    BY <1>9 DEF WillSettle
  <2>2. CASE Len(task) = 1 /\ t # 1
    <3>1. t - 1 \in DOMAIN rest /\ rest[t - 1] = w[t]
      <4>1. t - 1 \in 1 .. Len(w) - 1 /\ (t - 1) + 1 = t
        BY <1>1, <2>1, <2>2
      <4> QED
        BY <1>1, <2>2, <4>1
    <3>2. ASSUME NEW u \in DOMAIN rest, u > t - 1 PROVE ~ BegunIn(rest[u], i, f)
      <4>1. u + 1 \in DOMAIN w /\ u + 1 > t /\ rest[u] = w[u + 1]
        BY <1>1, <2>1, <2>2, <3>2
      <4> QED
        BY <2>1, <4>1
    <3> QED
      BY <2>1, <3>1, <3>2 DEF WillSettle
  <2>3. CASE Len(task) # 1 /\ t # 1
    <3>1. t \in DOMAIN rest /\ rest[t] = w[t]
      <4>1. t \in 2 .. Len(w) /\ t \in 1 .. Len(w)
        BY <1>3, <2>1, <2>3
      <4> QED
        BY <1>1, <2>3, <4>1
    <3>2. ASSUME NEW u \in DOMAIN rest, u > t PROVE ~ BegunIn(rest[u], i, f)
      <4>1. u \in DOMAIN w /\ rest[u] = w[u]
        <5>1. u # 1
          BY <1>3, <2>1, <2>3, <3>2
        <5> QED
          BY <1>5, <2>3, <5>1
      <4> QED
        BY <2>1, <3>2, <4>1
    <3> QED
      BY <2>1, <3>1, <3>2 DEF WillSettle
  <2>4. CASE t = 1
    <3>1. PICK k \in DOMAIN task : /\ Settles(task[k], i, f)
                                   /\ \A l \in DOMAIN task : l > k => ~ Begins(task[l], i, f)
      BY <1>2, <2>1, <2>4 DEF SettledIn
    <3>2. CASE k = 1
      <4>1. Settles(op, i, f)
        BY <1>1, <3>1, <3>2
      <4>2. ASSUME NEW u \in DOMAIN rest PROVE ~ BegunIn(rest[u], i, f)
        <5>1. CASE Len(task) = 1
          <6>1. u + 1 \in DOMAIN w /\ u + 1 > 1 /\ rest[u] = w[u + 1]
            BY <1>1, <5>1
          <6> QED
            BY <2>1, <2>4, <6>1
        <5>2. CASE Len(task) # 1 /\ u = 1
          <6>1. ASSUME NEW j \in DOMAIN rest[u] PROVE ~ Begins(rest[u][j], i, f)
            <7>1. j + 1 \in DOMAIN task /\ j + 1 > 1 /\ rest[u][j] = task[j + 1]
              BY <1>4, <5>2
            <7> QED
              BY <3>1, <3>2, <7>1
          <6> QED
            BY <6>1 DEF BegunIn
        <5>3. CASE Len(task) # 1 /\ u # 1
          <6>1. u \in DOMAIN w /\ u > 1 /\ rest[u] = w[u]
            BY <1>5, <5>3
          <6> QED
            BY <2>1, <2>4, <6>1
        <5> QED
          BY <5>1, <5>2, <5>3
      <4> QED
        BY <4>1, <4>2 DEF Unbegun
    <3>3. CASE k # 1
      <4>1. Len(task) # 1 /\ k - 1 \in 1 .. Len(task) - 1 /\ (k - 1) + 1 = k
        BY <1>1, <3>1, <3>3
      <4>2. 1 \in DOMAIN rest /\ k - 1 \in DOMAIN rest[1] /\ rest[1][k - 1] = task[k]
        BY <1>1, <4>1
      <4>3. ASSUME NEW l \in DOMAIN rest[1], l > k - 1 PROVE ~ Begins(rest[1][l], i, f)
        <5>1. l + 1 \in DOMAIN task /\ l + 1 > k /\ rest[1][l] = task[l + 1]
          BY <1>4, <4>1, <4>3
        <5> QED
          BY <3>1, <5>1
      <4>4. SettledIn(rest[1], i, f)
        BY <3>1, <4>2, <4>3 DEF SettledIn
      <4>5. ASSUME NEW u \in DOMAIN rest, u > 1 PROVE ~ BegunIn(rest[u], i, f)
        <5>1. u \in DOMAIN w /\ rest[u] = w[u]
          BY <1>5, <4>1, <4>5
        <5> QED
          BY <2>1, <2>4, <4>5, <5>1
      <4> QED
        BY <4>2, <4>4, <4>5 DEF WillSettle
    <3> QED
      BY <3>2, <3>3
  <2> QED
    BY <2>2, <2>3, <2>4
<1> QED
  BY <1>7, <1>8, <1>9 DEF op, rest

-----------------------------------------------------------------------------
\* The content phase: the recorder changes content fields only, and follows the plan.
LEMMA ContentGoesOn ==
  ASSUME CaptureInvariant, RecordInvariant, stage \in {"plan", "content"}, stage' = "content",
         UNCHANGED <<env, headers, raw, copies, report>>,
         obs'.schema = obs.schema, obs'.coverage_version = obs.coverage_version,
         obs'.scope = obs.scope, obs'.coverage = Some(CoverageOf),
         \A i \in 1 .. Len(source), g \in MemberFields \ ContentFields :
            obs'.members[i][g] = obs.members[i][g],
         PlanFollowed'
  PROVE  RecordInvariant'
<1>1. /\ source' = source /\ every' = every /\ bad' = bad /\ headers' = headers /\ raw' = raw
      /\ copies' = copies /\ report' = report
  BY DEF env
<1>2. CoverageOf' = CoverageOf
  BY <1>1 DEF CoverageOf
<1>3. /\ obs.schema = 1 /\ obs.coverage_version = 1 /\ report = Absent /\ bad \in Nat
      /\ obs.scope = IF every THEN EveryMember ELSE Selected
      /\ \A i \in 1 .. Len(source) : MemberFollows(obs.members[i], i)
  BY RecorderHeader
<1>4. ASSUME NEW i \in 1 .. Len(source) PROVE MemberFollows(obs.members[i], i)'
  <2> DEFINE m == obs.members[i]
  <2>1. /\ Sized(i) /\ Copied(i) /\ Checked(i) /\ Copied(i)' /\ Checked(i)'
    BY DEF Sized, SizedStages, Copied, CopiedStages, Checked
  <2>2. m.raw_length = Some(raw[i]) /\ raw[i] # 0 /\ m.capture = "complete"
        /\ m.structure = "complete"
    BY <1>3, <2>1 DEF MemberFollows
  <2>3. {"raw_length", "capture", "structure"} \subseteq MemberFields \ ContentFields
    BY DEF MemberFields, ContentFields
  <2>4. /\ obs'.members[i].raw_length = m.raw_length /\ obs'.members[i].capture = m.capture
        /\ obs'.members[i].structure = m.structure
    BY <2>3
  <2> HIDE DEF m
  <2> QED
    BY <1>1, <2>1, <2>2, <2>4 DEF MemberFollows, NamedStages
<1>5. RecorderFollows'
  BY <1>1, <1>2, <1>3, <1>4 DEF RecorderFollows
<1>6. AncestryOK'
  BY <1>1 DEF RecordInvariant, AncestryOK, NamedStages
<1>7. CapKept' /\ CaptureStaysWithinCap'
  BY <1>1 DEF RecordInvariant, CapKept, CaptureStaysWithinCap, SizedStages, Length
<1> QED
  BY <1>5, <1>6, <1>7 DEF RecordInvariant, ReceiptIsValid

LEMMA ContentRecords ==
  ASSUME CaptureInvariant, RecordInvariant, Content
  PROVE  RecordInvariant'
<1> DEFINE n == Len(source)
           h == copies[n].header
           c == ContentCoverage(h.kind, h.disk, every)
<1>1. stage = "plan" /\ stage \in NamedStages
  BY DEF Content, NamedStages
<1>2. /\ n \in Nat \ {0} /\ ObsShape(obs, n) /\ obs.schema = 1 /\ obs.coverage_version = 1
      /\ obs.coverage = Absent
  BY <1>1, RecorderHeader
<1>3. /\ copies \in Seq(PrivateCopy) /\ Len(copies) = n /\ Len(headers) = n
      /\ headers \in Seq(Superblock)
  BY <1>1 DEF CaptureInvariant, PlacesOK, CopiedStages, SizedStages
<1>4. /\ h = headers[n] /\ h \in Superblock /\ h.kind = source[1].header.kind
      /\ h.disk = source[1].header.disk
  <2>1. h = headers[n]
    BY <1>1, <1>2 DEF CaptureInvariant, NamesOK
  <2>2. n \in DOMAIN headers
    BY <1>2, <1>3
  <2> QED
    BY <1>3, <2>1, <2>2 DEF CaptureInvariant, PlacesOK
<1>5. h.kind \in Kinds /\ h.disk \in BOOLEAN /\ every \in BOOLEAN
  BY <1>4 DEF Superblock, CaptureInvariant, SourceOK
<1>6. refs \subseteq 1 .. n /\ (h.disk => n = 1 /\ h.kind = "block")
  BY <1>4 DEF CaptureInvariant, SourceOK
<1>7. c = CoverageOf /\ c \in Coverages
  BY <1>3, <1>4, <1>5, CoverageIsOne DEF CoverageOf
<1>8. \A i \in 1 .. n : /\ Abandoned(obs.members[i])
                        /\ \A f \in ContentFields : obs.members[i][f] = "not_requested"
  BY <1>1, LateMember
<1>9. ASSUME NEW s, NEW r, GiveUp(obs, s, r) PROVE RecordInvariant'
  BY <1>1, <1>2, <1>8, <1>9, GiveUpRecords
<1>10. CASE /\ obs' = BeginContent(obs, c)
            /\ work' = CASE h.disk -> DiskWork(n)
                         [] h.kind = "block" /\ ~h.disk -> BlockWork(n)
                         [] h.kind = "file" -> FileWork(n)
                         [] h.kind = "stream" -> StreamWork(n)
            /\ stage' = "content"
            /\ UNCHANGED <<env, cancelled, idx, blk, headers, raw, copies, report>>
  <2>1. /\ obs'.schema = obs.schema /\ obs'.scope = obs.scope
        /\ obs'.coverage_version = obs.coverage_version /\ obs'.coverage = Some(c)
        /\ \A j \in 1 .. n, g \in MemberFields :
              obs'.members[j][g] =
                IF g \in Requested(c, j = n) THEN "not_started" ELSE obs.members[j][g]
    <3> HIDE DEF c, h
    <3> QED
      BY <1>2, <1>7, <1>10, BeginContentValues
  <2>2. PlanOK(work', c, n)
    <3> HIDE DEF h, n
    <3>1. CASE h.disk
      <4>1. work' = DiskWork(n) /\ c = "whole_disk_regions" /\ n = 1
        BY <1>6, <1>10, <3>1 DEF ContentCoverage
      <4> QED
        BY <4>1, DiskPlan
    <3>2. CASE ~ h.disk /\ h.kind = "block"
      <4>1. work' = BlockWork(n) /\ c = IF every THEN "block_every" ELSE "block_selected"
        BY <1>10, <3>2 DEF ContentCoverage
      <4> HIDE DEF c
      <4> QED
        BY <1>2, <1>5, <1>6, <4>1, BlockPlan
    <3>3. CASE ~ h.disk /\ h.kind = "file"
      <4>1. work' = FileWork(n) /\ c = IF every THEN "file_every" ELSE "file_selected"
        BY <1>10, <3>3 DEF ContentCoverage
      <4> HIDE DEF c
      <4> QED
        BY <1>2, <1>5, <1>6, <4>1, FilePlan
    <3>4. CASE ~ h.disk /\ h.kind = "stream"
      <4>1. work' = StreamWork(n) /\ c = IF every THEN "stream_every" ELSE "stream_selected"
        BY <1>10, <3>4 DEF ContentCoverage
      <4> HIDE DEF c
      <4> QED
        BY <1>2, <1>5, <4>1, StreamPlan
    <3> QED
      BY <1>5, <3>1, <3>2, <3>3, <3>4 DEF Kinds
  <2> HIDE DEF c
  <2>3. Requested(c, TRUE) \subseteq ContentFields /\ Requested(c, FALSE) \subseteq ContentFields
        /\ ContentFields \subseteq MemberFields
    BY <1>7, RequestedFields DEF MemberFields
  <2>4. \A i \in 1 .. n, g \in MemberFields \ ContentFields :
           obs'.members[i][g] = obs.members[i][g]
    <3> SUFFICES ASSUME NEW i \in 1 .. n, NEW g \in MemberFields \ ContentFields
                 PROVE  obs'.members[i][g] = obs.members[i][g]
      OBVIOUS
    <3>1. (i = n) \in BOOLEAN
      OBVIOUS
    <3>2. g \notin Requested(c, i = n)
      BY <2>3, <3>1
    <3> QED
      BY <2>1, <3>2
  <2>5. ASSUME NEW i \in 1 .. n PROVE FieldOK(work', obs'.members[i], c, n, i)
    <3>1. ASSUME NEW f \in ContentFields
          PROVE  IF f \in Requested(c, i = n)
                 THEN obs'.members[i][f] = "not_started" /\ WillSettle(work', i, f)
                 ELSE obs'.members[i][f] = "not_requested"
      BY <1>8, <2>1, <2>2, <2>3 DEF PlanOK
    <3> QED
      BY <3>1 DEF FieldOK
  <2>6. source' = source /\ CoverageOf' = c
    BY <1>7, <1>10 DEF CoverageOf, env
  <2>7. PlanFollowed'
    BY <2>2, <2>5, <2>6 DEF PlanFollowed, PlanOK
  <2> QED
    BY <1>1, <1>7, <1>10, <2>1, <2>4, <2>7, ContentGoesOn
<1> QED
  BY <1>3, <1>9, <1>10 DEF Content, OpenRo

LEMMA CoverageAsked ==
  ASSUME CaptureInvariant, stage = "content"
  PROVE  /\ CoverageOf \in Coverages /\ Len(headers) = Len(source)
         /\ headers[Len(source)] = copies[Len(source)].header
         /\ headers[Len(source)] \in Superblock /\ every \in BOOLEAN
         /\ headers[Len(source)].disk => Len(source) = 1 /\ headers[Len(source)].kind = "block"
<1> DEFINE n == Len(source)
           h == headers[n]
<1>1. n \in Nat \ {0}
  BY AttemptUnderWay
<1>2. headers \in Seq(Superblock) /\ Len(headers) = n
  BY DEF CaptureInvariant, PlacesOK, SizedStages
<1>3. n \in DOMAIN headers /\ h \in Superblock
  BY <1>1, <1>2
<1>4. h = copies[n].header
  BY <1>1 DEF CaptureInvariant, NamesOK, NamedStages
<1>5. h.kind \in Kinds /\ h.disk \in BOOLEAN /\ every \in BOOLEAN
  BY <1>3 DEF Superblock, CaptureInvariant, SourceOK
<1>6. h.disk => n = 1 /\ h.kind = "block"
  BY <1>3 DEF CaptureInvariant, PlacesOK, SourceOK
<1> QED
  BY <1>2, <1>3, <1>4, <1>5, <1>6, CoverageIsOne DEF CoverageOf

LEMMA ContentStepRecords ==
  ASSUME CaptureInvariant, RecordInvariant, ContentStep
  PROVE  RecordInvariant'
<1> DEFINE n == Len(source)
           op == Head(Head(work))
           begun == Apply(op, obs)
           c == CoverageOf
           rest == RestOf(work)
<1>1. stage = "content" /\ work # <<>> /\ stage \in NamedStages
  BY DEF ContentStep, NamedStages
<1>2. /\ n \in Nat \ {0} /\ ObsShape(obs, n) /\ obs.schema = 1 /\ obs.coverage_version = 1
      /\ obs.coverage = Some(c)
  BY <1>1, RecorderHeader
<1>3. c \in Coverages
  BY <1>1, CoverageAsked
<1>4. AllAllowed(work, c, n) /\ \A i \in 1 .. n : FieldOK(work, obs.members[i], c, n, i)
  BY <1>1 DEF RecordInvariant, PlanFollowed
<1>5. IsWork(work)
  BY <1>1 DEF CaptureInvariant, WorkOK
<1>6. op \in VerifierCall
  BY <1>1, <1>5, TaskAdvances
<1>7. /\ Allowed(op, c, n) /\ AllAllowed(rest, c, n)
      /\ \A i, f : Unbegun(work, i, f) => ~ Begins(op, i, f) /\ Unbegun(rest, i, f)
      /\ \A i, f : WillSettle(work, i, f) => \/ WillSettle(rest, i, f)
                                             \/ Settles(op, i, f) /\ Unbegun(rest, i, f)
  BY <1>1, <1>4, <1>5, PlanAdvances
<1> HIDE DEF op, c, rest
<1>8. /\ Frame(obs, begun, n)
      /\ \A i \in 1 .. n, g \in MemberFields \ ContentFields :
            begun.members[i][g] = obs.members[i][g]
      /\ \A i \in 1 .. n, f \in ContentFields :
            /\ f \notin Requested(c, i = n) => begun.members[i][f] = obs.members[i][f]
               \/ (f = "referenced" /\ obs.members[i][f] \in {"not_started", "in_progress"})
            /\ begun.members[i][f] \in {obs.members[i][f], "in_progress", "complete"}
            /\ Settles(op, i, f) => \/ begun.members[i][f] = "complete"
                                    \/ obs.members[i][f] \notin {"not_started", "in_progress"}
                                       /\ begun.members[i][f] = obs.members[i][f]
            /\ obs.members[i][f] = "complete" /\ ~ Begins(op, i, f) =>
                 begun.members[i][f] = "complete"
  BY <1>2, <1>6, <1>7, ApplyTouches
<1> HIDE DEF begun
<1>9. ASSUME NEW i \in 1 .. n, NEW f \in ContentFields, f \in Requested(c, i = n)
      PROVE  /\ obs.members[i][f] \in {"not_started", "in_progress", "complete"}
             /\ begun.members[i][f] \in {"not_started", "in_progress", "complete"}
             /\ \/ obs.members[i][f] = "complete" /\ Unbegun(work, i, f)
                \/ WillSettle(work, i, f)
  <2>1. FieldOK(work, obs.members[i], c, n, i)
    BY <1>4
  <2>2. /\ obs.members[i][f] \in {"not_started", "in_progress", "complete"}
        /\ (obs.members[i][f] = "complete" /\ Unbegun(work, i, f)) \/ WillSettle(work, i, f)
    BY <1>9, <2>1 DEF FieldOK
  <2>3. begun.members[i][f] \in {obs.members[i][f], "in_progress", "complete"}
    BY <1>8
  <2> QED
    BY <2>2, <2>3
<1>10. ASSUME NEW o, o = obs \/ o = begun, NEW s, NEW r, GiveUp(o, s, r) PROVE RecordInvariant'
  <2>1. ObsShape(o, n) /\ o.schema = 1 /\ o.coverage_version = 1 /\ o.coverage = Some(c)
    BY <1>2, <1>8, <1>10 DEF Frame
  <2>2. ASSUME NEW i \in 1 .. n PROVE Abandoned(o.members[i]) /\ o.members[i].structure = "complete"
    <3> DEFINE m == obs.members[i]
               q == o.members[i]
    <3>1. Checked(i)
      BY <1>1 DEF Checked
    <3>2. Abandoned(m) /\ m.structure = "complete"
      BY <1>1, <3>1, LateMember
    <3>3. {"capture", "raw_length", "digest", "identity", "structure", "notice"}
             \subseteq MemberFields \ ContentFields
      BY DEF MemberFields, ContentFields
    <3>4. /\ q.capture = m.capture /\ q.raw_length = m.raw_length /\ q.digest = m.digest
          /\ q.identity = m.identity /\ q.notice = m.notice /\ q.structure = m.structure
      BY <1>8, <1>10, <3>3
    <3> HIDE DEF m, q
    <3>5. Abandoned(q) /\ q.structure = "complete"
      BY <3>2, <3>4 DEF Abandoned
    <3> QED
      BY <3>5 DEF q
  <2>3. o.members[n].recovery_point # "not_requested" /\ Has(o.coverage)
    <3>1. n \in 1 .. n /\ "recovery_point" \in ContentFields /\ (n = n) = TRUE
      BY <1>2 DEF ContentFields
    <3>2. "recovery_point" \in Requested(c, TRUE)
      BY <1>3, RequestedFields
    <3>3. "recovery_point" \in Requested(c, n = n)
      BY <3>1, <3>2
    <3>4. /\ obs.members[n]["recovery_point"] \in {"not_started", "in_progress", "complete"}
          /\ begun.members[n]["recovery_point"] \in {"not_started", "in_progress", "complete"}
      BY <1>9, <3>1, <3>3
    <3>5. Has(o.coverage)
      BY <2>1 DEF Has, Some, Absent
    <3> QED
      BY <1>10, <3>4, <3>5
  <2> QED
    BY <1>1, <1>2, <1>10, <2>1, <2>2, <2>3, GiveUpRecords
<1>11. CASE /\ obs' = begun /\ work' = rest
            /\ UNCHANGED <<env, cancelled, stage, idx, blk, headers, raw, copies, report>>
  <2>1. ASSUME NEW i \in 1 .. n PROVE FieldOK(rest, begun.members[i], c, n, i)
    <3>1. ASSUME NEW f \in ContentFields, f \in Requested(c, i = n)
          PROVE  /\ begun.members[i][f] \in {"not_started", "in_progress", "complete"}
                 /\ \/ begun.members[i][f] = "complete" /\ Unbegun(rest, i, f)
                    \/ WillSettle(rest, i, f)
      <4>1. CASE obs.members[i][f] = "complete" /\ Unbegun(work, i, f)
        <5>1. ~ Begins(op, i, f) /\ Unbegun(rest, i, f)
          BY <1>7, <4>1
        <5> QED
          BY <1>8, <4>1, <5>1
      <4>2. CASE WillSettle(work, i, f) /\ ~ WillSettle(rest, i, f)
        <5>1. Settles(op, i, f) /\ Unbegun(rest, i, f)
          BY <1>7, <4>2
        <5>2. begun.members[i][f] = "complete"
          BY <1>8, <1>9, <3>1, <5>1
        <5> QED
          BY <5>1, <5>2
      <4> QED
        BY <1>9, <3>1, <4>1, <4>2
    <3>2. ASSUME NEW f \in ContentFields, f \notin Requested(c, i = n)
          PROVE  begun.members[i][f] = "not_requested"
      <4>1. obs.members[i][f] = "not_requested"
        BY <1>4, <3>2 DEF FieldOK
      <4> QED
        BY <1>8, <3>2, <4>1
    <3> QED
      BY <3>1, <3>2 DEF FieldOK
  <2>2. source' = source /\ CoverageOf' = c
    BY <1>11 DEF CoverageOf, env, c
  <2>3. PlanFollowed'
    BY <1>7, <1>11, <2>1, <2>2 DEF PlanFollowed
  <2>4. /\ obs'.schema = obs.schema /\ obs'.scope = obs.scope
        /\ obs'.coverage_version = obs.coverage_version /\ obs'.coverage = Some(c)
    BY <1>2, <1>8, <1>11 DEF Frame
  <2> QED
    BY <1>1, <1>8, <1>11, <2>3, <2>4, ContentGoesOn DEF c
<1>12. \/ \E s, r : GiveUp(obs, s, r) \/ GiveUp(begun, s, r)
       \/ /\ obs' = begun /\ work' = rest
          /\ UNCHANGED <<env, cancelled, stage, idx, blk, headers, raw, copies, report>>
  BY DEF ContentStep, RestOf, op, begun, rest
<1> QED
  BY <1>10, <1>11, <1>12

-----------------------------------------------------------------------------
\* Success: the fields a coverage asked for are complete, the others were left alone, and that
\* is what the ledger's own table expects of the coverage.
LEMMA TablesAgree ==
  ASSUME NEW c \in Coverages, NEW n \in Nat \ {0}, NEW i \in 1 .. n,
         c = "whole_disk_regions" => n = 1,
         NEW m, \A f \in ContentFields :
                   m[f] = IF f \in Requested(c, i = n) THEN "complete" ELSE "not_requested"
  PROVE  LET e == ExpectedStages(c, i = n)
         IN  /\ MatchesExpected(m.recovery_point, e[1]) /\ MatchesExpected(m.referenced, e[2])
             /\ MatchesExpected(m.every_stored, e[3]) /\ MatchesExpected(m.disk_regions, e[4])
<1>1. "recovery_point" \in ContentFields /\ "referenced" \in ContentFields
      /\ "every_stored" \in ContentFields /\ "disk_regions" \in ContentFields
  BY DEF ContentFields
<1>2. CASE i = n
  <2>1. (i = n) = TRUE
    BY <1>2
  <2> QED
    BY <1>1, <2>1 DEF Coverages, Requested, ExpectedStages, MatchesExpected
<1>3. CASE i # n
  <2>1. (i = n) = FALSE /\ c # "whole_disk_regions"
    BY <1>3
  <2> QED
    BY <1>1, <2>1 DEF Coverages, Requested, ExpectedStages, MatchesExpected
<1> QED
  BY <1>2, <1>3

LEMMA FinishRecords ==
  ASSUME CaptureInvariant, RecordInvariant, FinishVerify
  PROVE  RecordInvariant'
<1> DEFINE n == Len(source)
           c == CoverageOf
           h == headers[n]
           hs == [i \in DOMAIN copies |-> copies[i].header]
           p == FinishObservation(obs, bad)
<1>1. stage = "content" /\ work = <<>> /\ stage \in NamedStages
  BY DEF FinishVerify, NamedStages
<1>2. /\ n \in Nat \ {0} /\ ObsShape(obs, n) /\ obs.schema = 1 /\ obs.coverage_version = 1
      /\ obs.coverage = Some(c) /\ bad \in Nat
      /\ obs.scope = IF every THEN EveryMember ELSE Selected
  BY <1>1, RecorderHeader
<1>3. /\ c \in Coverages /\ Len(headers) = n /\ h = copies[n].header /\ h \in Superblock
      /\ every \in BOOLEAN /\ (h.disk => n = 1 /\ h.kind = "block")
  BY <1>1, CoverageAsked
<1>4. ASSUME NEW i \in 1 .. n
      PROVE  LET m == obs.members[i]
             IN  /\ m.capture = "complete" /\ m.raw_length = Some(raw[i]) /\ raw[i] # 0
                 /\ Has(m.digest) /\ m.identity = Some(copies[i].header)
                 /\ m.structure = "complete" /\ Abandoned(m)
  <2>1. Checked(i)
    BY <1>1 DEF Checked
  <2> QED
    BY <1>1, <2>1, LateMember
<1>5. ASSUME NEW i \in 1 .. n, NEW f \in ContentFields
      PROVE  obs.members[i][f] = IF f \in Requested(c, i = n) THEN "complete"
                                 ELSE "not_requested"
  <2>1. FieldOK(work, obs.members[i], c, n, i)
    BY <1>1 DEF RecordInvariant, PlanFollowed
  <2>2. DOMAIN work = {}
    BY <1>1
  <2>3. ~ WillSettle(work, i, f)
    BY <2>2 DEF WillSettle
  <2> QED
    BY <2>1, <2>3 DEF FieldOK
<1> HIDE DEF c
<1>6. /\ p.members = obs.members /\ p.schema = 1 /\ p.coverage_version = 1
      /\ p.coverage = Some(c) /\ p.scope = obs.scope
      /\ p.outcome = IF bad = 0 THEN IntegrityVerified ELSE VerifiedWithLoss
  BY <1>2 DEF FinishObservation, ObsShape, ObsFields
<1>7. DOMAIN p.members = 1 .. n /\ Len(p.members) = n
  BY <1>2, <1>6 DEF ObsShape
<1> HIDE DEF p
<1>8. "recovery_point" \in Requested(c, n = n) /\ "recovery_point" \in ContentFields
      /\ n \in 1 .. n
  <2>1. (n = n) = TRUE /\ n \in 1 .. n
    BY <1>2
  <2>2. "recovery_point" \in Requested(c, TRUE)
    BY <1>3, RequestedFields
  <2> QED
    BY <2>1, <2>2 DEF ContentFields
<1>9. ValidPartial(p)
  <2>1. ASSUME NEW i \in 1 .. n PROVE ValidMember(p.members[i])
    <3> DEFINE m == obs.members[i]
    <3>1. m.capture = "complete" /\ Has(m.raw_length) /\ Has(m.digest) /\ Has(m.identity)
          /\ m.structure = "complete"
      BY <1>4 DEF Has, Some, Absent
    <3>2. \A f \in ContentFields : m[f] \in {"complete", "not_requested"}
      BY <1>5
    <3>3. p.members[i] = m
      BY <1>6
    <3> HIDE DEF m
    <3> QED
      BY <3>1, <3>2, <3>3 DEF ValidMember
  <2>2. Has(p.coverage)
    BY <1>6 DEF Has, Some, Absent
  <2>3. p.members[n]["recovery_point"] # "not_requested"
    BY <1>5, <1>6, <1>8
  <2>4. \A i \in 1 .. n : /\ p.members[i].capture = "complete" /\ Has(p.members[i].identity)
                          /\ p.members[i].structure = "complete"
    BY <1>4, <1>6 DEF Has, Some, Absent
  <2> QED
    BY <1>7, <1>8, <2>1, <2>2, <2>3, <2>4 DEF ValidPartial
<1>10. DOMAIN copies = 1 .. n /\ copies \in Seq(PrivateCopy)
  BY <1>1 DEF CaptureInvariant, PlacesOK, CopiedStages
<1>11. MemberIdentities(p) = hs
  <2>1. ASSUME NEW i \in 1 .. n
        PROVE  (CHOOSE d \in p.members[i].identity : TRUE) = copies[i].header
    <3>1. p.members[i].identity = {copies[i].header}
      BY <1>4, <1>6 DEF Some
    <3> QED
      BY <3>1
  <2> QED
    BY <1>7, <1>10, <2>1 DEF MemberIdentities
<1>12. ValidAncestry(hs)
  <2>1. CapturedAncestry(hs) /\ \A i \in DOMAIN headers : headers[i].uuid = i
    BY <1>1 DEF RecordInvariant, AncestryOK
  <2>2. \A i \in 1 .. n : hs[i] = headers[i] /\ hs[i].uuid = i
    <3>1. headers \in Seq(Superblock)
      BY DEF CaptureInvariant, PlacesOK
    <3> QED
      BY <1>1, <1>3, <1>10, <2>1, <3>1 DEF CaptureInvariant, NamesOK
  <2>3. DOMAIN hs = 1 .. n /\ Len(hs) = n
    <3>1. hs \in Seq(Superblock)
      <4>1. \A i \in DOMAIN copies : copies[i].header \in Superblock
        <5>1. \A i \in DOMAIN copies : copies[i] \in PrivateCopy
          BY <1>10
        <5> QED
          BY <5>1 DEF PrivateCopy
      <4> QED
        BY <1>2, <1>10, <4>1
    <3> QED
      BY <1>2, <1>10, <3>1
  <2>4. hs[1].disk => n = 1 /\ hs[1].kind = "block"
    <3>1. hs[n].disk = hs[1].disk /\ hs[n].kind = hs[1].kind /\ hs[n] = h
      BY <1>8, <2>1, <2>2, <2>3 DEF CapturedAncestry
    <3> QED
      BY <1>3, <3>1
  <2> HIDE DEF hs
  <2> QED
    BY <2>1, <2>2, <2>3, <2>4 DEF ValidAncestry, CapturedAncestry
<1>13. CoverageMatches(c, hs[n], p.scope)
  <2>1. hs[n] = h
    BY <1>3, <1>8, <1>10
  <2>2. h.kind \in Kinds /\ h.disk \in BOOLEAN
    BY <1>3 DEF Superblock
  <2>3. c = ContentCoverage(h.kind, h.disk, every)
    BY <1>3 DEF c, CoverageOf
  <2> HIDE DEF hs, h
  <2>4. CoverageMatches(c, h, p.scope)
    BY <1>2, <1>3, <1>6, <2>2, <2>3
    DEF ContentCoverage, CoverageMatches, Kinds, EveryMember, Selected
  <2> QED
    BY <2>1, <2>4
<1>14. ValidSuccess(p)
  <2>1. ASSUME NEW i \in 1 .. n
        PROVE  LET m == p.members[i]
               IN  /\ m.capture = "complete" /\ m.structure = "complete"
                   /\ m.raw_length \notin {Absent, Some(0)} /\ Has(m.digest) /\ Has(m.identity)
    BY <1>4, <1>6 DEF Has, Some, Absent
  <2>2. ASSUME NEW i \in 1 .. n
        PROVE  LET m == p.members[i]
                   e == ExpectedStages(c, i = n)
               IN  /\ MatchesExpected(m.recovery_point, e[1])
                   /\ MatchesExpected(m.referenced, e[2])
                   /\ MatchesExpected(m.every_stored, e[3])
                   /\ MatchesExpected(m.disk_regions, e[4])
    <3>1. c = "whole_disk_regions" => n = 1
      <4>1. c = ContentCoverage(h.kind, h.disk, every) /\ h.kind \in Kinds /\ h.disk \in BOOLEAN
        BY <1>3 DEF c, CoverageOf, Superblock
      <4> HIDE DEF h
      <4> QED
        BY <1>3, <4>1 DEF ContentCoverage, Kinds
    <3>2. \A f \in ContentFields :
            p.members[i][f] = IF f \in Requested(c, i = n) THEN "complete" ELSE "not_requested"
      BY <1>5, <1>6
    <3> QED
      BY <1>2, <1>3, <3>1, <3>2, TablesAgree
  <2>3. Has(p.coverage) /\ n > 0
    BY <1>2, <1>6 DEF Has, Some, Absent
  <2>4. \A d \in p.coverage : d = c
    BY <1>6 DEF Some
  <2> HIDE DEF hs, h, n
  <2> QED
    BY <1>7, <1>11, <1>12, <1>13, <2>1, <2>2, <2>3, <2>4 DEF ValidSuccess
<1>15. CASE /\ report' = Some([bad |-> bad, every |-> every \/ Len(copies) = 1])
            /\ obs' = p /\ stage' = "done" /\ UNCHANGED <<raw, copies>>
  <2>1. \E r \in report' : r.bad = bad
    BY <1>15 DEF Some
  <2>2. IntegrityVerified # VerifiedWithLoss /\ IntegrityVerified.status # "incomplete"
        /\ VerifiedWithLoss.status # "incomplete"
    <3>1. IntegrityVerified.status = "integrity_verified"
          /\ VerifiedWithLoss.status = "integrity_verified_with_recorded_loss"
      BY DEF IntegrityVerified, VerifiedWithLoss
    <3> QED
      BY <3>1
  <2>3. ValidAttempt(p, report')
    <3>1. CASE bad = 0
      <4>1. p.outcome = IntegrityVerified /\ \E r \in report' : r.bad = 0
        BY <1>6, <2>1, <3>1
      <4> QED
        BY <1>6, <1>9, <1>14, <2>2, <4>1 DEF ValidAttempt, ValidHeader
    <3>2. CASE bad # 0
      <4>1. p.outcome = VerifiedWithLoss /\ \E r \in report' : r.bad > 0
        BY <1>2, <1>6, <2>1, <3>2
      <4> QED
        BY <1>6, <1>9, <1>14, <2>2, <4>1 DEF ValidAttempt, ValidHeader
    <3> QED
      BY <3>1, <3>2
  <2> QED
    BY <1>15, <2>3, EndsRecorded
<1>16. ASSUME NEW s, NEW r, GiveUp(obs, s, r) PROVE RecordInvariant'
  <2>1. Has(obs.coverage) /\ obs.members[n].recovery_point # "not_requested"
    <3>1. obs.members[n]["recovery_point"] = "complete"
      BY <1>5, <1>8
    <3> QED
      BY <1>2, <3>1 DEF Has, Some, Absent
  <2>2. \A i \in 1 .. n : Abandoned(obs.members[i]) /\ obs.members[i].structure = "complete"
    BY <1>4
  <2> QED
    BY <1>1, <1>2, <1>16, <2>1, <2>2, GiveUpRecords
<1> QED
  BY <1>15, <1>16 DEF FinishVerify, p

-----------------------------------------------------------------------------
\* The outside world does not reach the recorder.
LEMMA WorldRecords ==
  ASSUME RecordInvariant, Len(source') = Len(source),
         UNCHANGED <<every, bad, stage, idx, blk, headers, raw, copies, work, obs, report>>
  PROVE  RecordInvariant'
<1>1. ASSUME NEW i PROVE Sized(i)' = Sized(i) /\ Copied(i)' = Copied(i) /\ Checked(i)' = Checked(i)
  BY DEF Sized, Copied, Checked
<1>2. ASSUME NEW i, MemberFollows(obs.members[i], i) PROVE MemberFollows(obs.members[i], i)'
  <2>1. /\ Sized(i)' = Sized(i) /\ Copied(i)' = Copied(i) /\ Checked(i)' = Checked(i)
        /\ raw' = raw /\ stage' = stage /\ idx' = idx /\ obs' = obs
    BY <1>1
  <2> DEFINE m == obs.members[i]
  <2>2. obs'.members[i] = m /\ MemberFollows(m, i)
    BY <1>2, <2>1
  <2> HIDE DEF m
  <2> QED
    BY <2>1, <2>2 DEF MemberFollows
<1>3. CoverageOf' = CoverageOf
  BY DEF CoverageOf
<1>4. RecorderFollows'
  BY <1>2, <1>3 DEF RecordInvariant, RecorderFollows
<1>5. AncestryOK' /\ PlanFollowed'
  BY <1>3 DEF RecordInvariant, AncestryOK, PlanFollowed
<1>6. CapKept' /\ ReceiptIsValid' /\ CaptureStaysWithinCap'
  BY DEF RecordInvariant, CapKept, ReceiptIsValid, CaptureStaysWithinCap, Length
<1> QED
  BY <1>4, <1>5, <1>6 DEF RecordInvariant

LEMMA ChangeRecords ==
  ASSUME CaptureInvariant, RecordInvariant, NEW i \in DOMAIN source,
         Delete(i) \/ Truncate(i) \/ Extend(i) \/ BitRot(i) \/ Rewrite(i)
  PROVE  RecordInvariant'
<1>1. \E f : Change(i, f)
  BY DEF Delete, Truncate, Extend, BitRot, Rewrite
<1>2. PICK f : Change(i, f)
  BY <1>1
<1>3. /\ source' = [source EXCEPT ![i] = f]
      /\ UNCHANGED <<every, bad, stage, idx, blk, headers, raw, copies, work, obs, report>>
  BY <1>2 DEF Change
<1>4. Len(source') = Len(source)
  <2>1. source \in Seq(SourceFile)
    BY DEF CaptureInvariant, SourceOK
  <2> QED
    BY <1>3, <2>1
<1> QED
  BY <1>3, <1>4, WorldRecords

LEMMA RecordInitial ==
  ASSUME CaptureAssumption, CaptureInit
  PROVE  RecordInvariant
<1>1. /\ stage = "resolve" /\ headers = <<>> /\ copies = <<>> /\ report = Absent
      /\ obs = NewObservation(IF every THEN EveryMember ELSE Selected)
  BY DEF CaptureInit
<1>2. bad \in Nat
  BY DEF CaptureInit
<1>3. /\ obs.schema = 1 /\ obs.coverage_version = 1 /\ obs.coverage = Absent
      /\ obs.scope = (IF every THEN EveryMember ELSE Selected) /\ obs.members = <<>>
  BY <1>1 DEF NewObservation
<1>4. RecorderFollows
  BY <1>1, <1>2, <1>3 DEF RecorderFollows
<1>5. AncestryOK /\ PlanFollowed /\ CapKept
  BY <1>1 DEF AncestryOK, PlanFollowed, CapKept, NamedStages, SizedStages
<1>6. ReceiptIsValid /\ CaptureStaysWithinCap
  BY <1>1 DEF ReceiptIsValid, CaptureStaysWithinCap
<1> QED
  BY <1>4, <1>5, <1>6 DEF RecordInvariant

\* At every point of a captured verification the recorder says of each member what was done
\* with it, and in the content phase the plan still completes every field the coverage asked
\* for and touches no other (verify/observation.rs, capture.rs, verify.rs).
THEOREM RecordInvariance == CaptureAssumption => (CaptureSpec => []RecordInvariant)
<1> SUFFICES ASSUME CaptureAssumption PROVE CaptureSpec => []RecordInvariant
  OBVIOUS
<1>1. CaptureInit => RecordInvariant
  BY RecordInitial
<1>2. CaptureInvariant /\ RecordInvariant /\ [CaptureNext]_captureVars => RecordInvariant'
  <2> SUFFICES ASSUME CaptureInvariant, RecordInvariant, [CaptureNext]_captureVars
               PROVE  RecordInvariant'
    OBVIOUS
  <2>1. CASE Verifier
    BY <2>1, ResolveRecords, PreflightRecords, ScratchRecords, OpenMemberRecords,
       CopyBlockRecords, FinishMemberRecords, IdentityRecords, StructureRecords, ContentRecords,
       ContentStepRecords, FinishRecords
    DEF Verifier
  <2>2. CASE \E i \in DOMAIN source :
               Delete(i) \/ Truncate(i) \/ Extend(i) \/ BitRot(i) \/ Rewrite(i)
    BY <2>2, ChangeRecords
  <2>3. CASE Cancel
    BY <2>3, WorldRecords DEF Cancel, env
  <2>4. CASE UNCHANGED captureVars
    BY <2>4, WorldRecords DEF captureVars, env
  <2> QED
    BY <2>1, <2>2, <2>3, <2>4 DEF CaptureNext, World, Done
<1>3. CaptureSpec => []CaptureInvariant
  BY CaptureInvariance
<1> QED
  BY <1>1, <1>2, <1>3, PTL DEF CaptureSpec

\* However an attempt ends, the receipt it leaves passes the ledger's validate_attempt, and the
\* copies it took stay within the raw-byte cap, for chains of any length and of every kind
\* (verify/observation.rs; history.rs validate_attempt; capture.rs copy_member).
THEOREM AttemptsAreRecordable ==
  CaptureAssumption => (CaptureSpec => []AttemptIsRecordable)
<1> SUFFICES ASSUME CaptureAssumption PROVE CaptureSpec => []AttemptIsRecordable
  OBVIOUS
<1>1. RecordInvariant => AttemptIsRecordable
  BY DEF RecordInvariant, AttemptIsRecordable
<1> QED
  BY <1>1, RecordInvariance, PTL

=============================================================================
