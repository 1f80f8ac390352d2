------------------------------- MODULE Publish -------------------------------
(***************************************************************************)
(* Publication on a remote destination (crates/lr-store/src/publish.rs     *)
(* over the SFTP operations of sftp.rs): a finished temporary file becomes *)
(* an image, which is never replaced, or the catalog, which is.            *)
(*                                                                         *)
(* The server runs a request when it wants to.  A client that gives up on  *)
(* one (timeout, connection lost) does not know whether the server ran it, *)
(* will run it later from the abandoned session, or lost it.               *)
(*                                                                         *)
(* All contents have the size the protocol expects, the hardest case for   *)
(* its reconciliation, which only looks at sizes.                          *)
(***************************************************************************)
EXTENDS Naturals, FiniteSets

CONSTANTS Job,           \* clients that publish to the same final name
          Attempts       \* RETRY_ATTEMPTS

ASSUME PublishAssumption ==
          /\ Attempts \in Nat \ {0}
          /\ "old" \notin Job /\ "nothing" \notin Job

Content == Job \cup {"old"}
NoFile == "nothing"

\* The final name, each job's temporary file, and the name it moves the old
\* catalog aside to; the last two hold a fresh identifier and are never shared.
To == <<"to", "shared">>
Tmp(j) == <<"tmp", j>>
Aside(j) == <<"aside", j>>
Name == {To} \cup {Tmp(j) : j \in Job} \cup {Aside(j) : j \in Job}

VARIABLES
  mode,      \* "image": publish_new_with; "catalog" and "first": replace_with,
             \* with and without an old catalog to replace
  server,    \* what the server offers: posix-rename@openssh.com, fsync@openssh.com
  fs,        \* what each name holds on the server
  flushed,   \* contents the server has on stable storage
  late,      \* requests the server may still run after the client gave up
  step, leg, \* where each job is, and which rename it is working on
  round,     \* attempts of that rename so far
  hard,      \* its last error was not transient
  fromThere  \* what `size(from)` returned while reconciling

publishVars == <<mode, server, fs, flushed, late, step, leg, round, hard, fromThere>>

Replacing == mode # "image"

\* The jobs J have written their temporary files.  Images may collide; only
\* the job that holds the set lock replaces the catalog.
PublishInit ==
  /\ mode \in {"image", "catalog", "first"}
  /\ server \in [posix : BOOLEAN, fsync : BOOLEAN]
  /\ \E J \in SUBSET Job :
       /\ Replacing => \E j \in Job : J = {j}
       /\ fs = [n \in Name |-> CASE n = To /\ mode = "catalog" -> "old"
                                 [] n[1] = "tmp" /\ n[2] \in J -> n[2]
                                 [] OTHER -> NoFile]
       /\ step = [j \in Job |-> IF j \in J THEN "sync" ELSE "idle"]
  /\ flushed = {"old"}
  /\ late = {}
  /\ leg = [j \in Job |-> "main"]
  /\ round = [j \in Job |-> 0]
  /\ hard = [j \in Job |-> FALSE] /\ fromThere = [j \in Job |-> FALSE]

-----------------------------------------------------------------------------
(***************************************************************************)
(* The server.  SSH_FXP_RENAME refuses an existing target, posix-rename    *)
(* replaces it.                                                            *)
(***************************************************************************)
Possible(r) ==
  /\ fs[r.from] # NoFile
  /\ r.op = "rename" => fs[r.to] = NoFile

After(r) ==
  IF r.op = "remove"
  THEN [fs EXCEPT ![r.from] = NoFile]
  ELSE [fs EXCEPT ![r.to] = fs[r.from], ![r.from] = NoFile]

Run(r) == fs' = IF Possible(r) THEN After(r) ELSE fs

\* An abandoned request reaches its turn.
LateRequest ==
  \E r \in late :
    /\ Run(r)
    /\ late' = late \ {r}
    /\ UNCHANGED <<mode, server, flushed, step, leg, round, hard, fromThere>>

-----------------------------------------------------------------------------
Goes(j, label) == step' = [step EXCEPT ![j] = label]

\* `synced`: the temporary file is flushed before anything is renamed, or the
\* server cannot.
Sync(j) ==
  /\ step[j] = "sync"
  /\ flushed' = IF server.fsync THEN flushed \cup {j} ELSE flushed
  /\ Goes(j, IF Replacing /\ ~ server.posix THEN "lookold" ELSE "rename")
  /\ UNCHANGED <<fs, late, leg, round, hard, fromThere>>

\* The flush fails, or `size` does: nothing is renamed, the caller discards.
SyncFails(j) ==
  /\ step[j] = "sync"
  /\ Goes(j, "discard")
  /\ UNCHANGED <<fs, flushed, late, leg, round, hard, fromThere>>

\* Mutant: the old copy is deleted instead of moved aside.
LookOldDeletes(j) ==
  /\ step[j] = "lookold"
  /\ fs' = [fs EXCEPT ![To] = NoFile]
  /\ leg' = [leg EXCEPT ![j] = "final"]
  /\ Goes(j, "rename")
  /\ UNCHANGED <<flushed, late, round, hard, fromThere>>

\* Without an atomic replace, `replace_with` looks whether there is an old
\* copy to move aside first.
LookOld(j) ==
  /\ step[j] = "lookold"
  /\ leg' = [leg EXCEPT ![j] = IF fs[To] # NoFile THEN "aside" ELSE "final"]
  /\ Goes(j, "rename")
  /\ UNCHANGED <<fs, flushed, late, round, hard, fromThere>>

From(j) == IF leg[j] = "aside" THEN To ELSE Tmp(j)
Into(j) == IF leg[j] = "aside" THEN Aside(j) ELSE To
Wanted(j) ==
  [op |-> IF Replacing /\ server.posix THEN "over" ELSE "rename",
   from |-> From(j), to |-> Into(j)]

\* `renamed_with` returns Ok: what comes next in its caller.
Renamed(j) ==
  /\ leg' = [leg EXCEPT ![j] = IF leg[j] = "aside" THEN "final" ELSE leg[j]]
  /\ round' = [round EXCEPT ![j] = 0]
  /\ Goes(j, CASE leg[j] = "aside" -> "rename"
               [] leg[j] = "final" /\ fs[Aside(j)] # NoFile -> "rmaside"
               [] OTHER -> "ok")

\* One attempt, answered.
RenameOk(j) ==
  /\ step[j] = "rename"
  /\ Possible(Wanted(j))
  /\ Run(Wanted(j))
  /\ Renamed(j)
  /\ UNCHANGED <<flushed, late, hard, fromThere>>

\* One attempt, refused by the server: the target exists, the source does not,
\* or a reason of its own (permissions, quota).
RenameRefused(j) ==
  /\ step[j] = "rename"
  /\ hard' = [hard EXCEPT ![j] = TRUE]
  /\ round' = [round EXCEPT ![j] = @ + 1]
  /\ Goes(j, "statfrom")
  /\ UNCHANGED <<fs, flushed, late, leg, fromThere>>

\* Mutant: attempts without an answer are not counted.
RenameUncounted(j) ==
  /\ step[j] = "rename"
  /\ \/ Run(Wanted(j)) /\ UNCHANGED late
     \/ late' = late \cup {Wanted(j)} /\ UNCHANGED fs
     \/ UNCHANGED <<fs, late>>
  /\ hard' = [hard EXCEPT ![j] = FALSE]
  /\ Goes(j, "statfrom")
  /\ UNCHANGED <<flushed, leg, round, fromThere>>

\* One attempt without an answer: run, still to be run, or lost.
RenameUnanswered(j) ==
  /\ step[j] = "rename"
  /\ \/ Run(Wanted(j)) /\ UNCHANGED late
     \/ late' = late \cup {Wanted(j)} /\ UNCHANGED fs
     \/ UNCHANGED <<fs, late>>
  /\ hard' = [hard EXCEPT ![j] = FALSE]
  /\ round' = [round EXCEPT ![j] = @ + 1]
  /\ Goes(j, "statfrom")
  /\ UNCHANGED <<flushed, leg, fromThere>>

-----------------------------------------------------------------------------
(***************************************************************************)
(* Reconciliation: look at the source, then at the target, then decide.    *)
(***************************************************************************)
StatFrom(j) ==
  /\ step[j] = "statfrom"
  /\ fromThere' = [fromThere EXCEPT ![j] = fs[From(j)] # NoFile]
  /\ Goes(j, "statto")
  /\ UNCHANGED <<fs, flushed, late, leg, round, hard>>

ToThere(j) == fs[Into(j)] # NoFile

\* Mutant: the target alone is taken for an earlier success.
RecognisedByTarget(j) == ToThere(j)

\* The source is gone and the target is there: an earlier attempt's success.
Recognised(j) == ~ fromThere[j] /\ ToThere(j)

\* Worth another attempt: a transient error, the source still there, and
\* attempts left.
Again(j) == fromThere[j] /\ ~ hard[j] /\ round[j] < Attempts

StatToOk(j) ==
  /\ step[j] = "statto"
  /\ Recognised(j)
  /\ Renamed(j)
  /\ UNCHANGED <<fs, flushed, late, hard, fromThere>>

StatToRetry(j) ==
  /\ step[j] = "statto"
  /\ Again(j)
  /\ Goes(j, "rename")
  /\ UNCHANGED <<fs, flushed, late, leg, round, hard, fromThere>>

\* A collision, a vanished source, a hard error or the last attempt.
StatToGivesUp(j) ==
  /\ step[j] = "statto"
  /\ ~ Recognised(j) /\ ~ Again(j)
  /\ Goes(j, "discard")
  /\ UNCHANGED <<fs, flushed, late, leg, round, hard, fromThere>>

\* The stat itself fails after its own retries.
StatFails(j) ==
  /\ step[j] \in {"statfrom", "statto", "lookold"}
  /\ Goes(j, "discard")
  /\ UNCHANGED <<fs, flushed, late, leg, round, hard, fromThere>>

\* One removal whose outcome the caller ignores: the old copy after a replace,
\* or the temporary file of a publication that failed.  `run` repeats it after
\* a transient error, so an abandoned request may follow one that was run.
Removal(name) ==
  LET r == [op |-> "remove", from |-> name]
  IN  /\ Run(r) \/ UNCHANGED fs
      /\ late' = late \cup {r} \/ UNCHANGED late

RemoveAside(j) ==
  /\ step[j] = "rmaside"
  /\ Removal(Aside(j))
  /\ Goes(j, "ok")
  /\ UNCHANGED <<flushed, leg, round, hard, fromThere>>

\* `TempGuard` of the caller.
Discard(j) ==
  /\ step[j] = "discard"
  /\ Removal(Tmp(j))
  /\ Goes(j, "failed")
  /\ UNCHANGED <<flushed, leg, round, hard, fromThere>>

Step(j) ==
  /\ \/ Sync(j) \/ SyncFails(j) \/ LookOld(j)
     \/ RenameOk(j) \/ RenameRefused(j) \/ RenameUnanswered(j)
     \/ StatFrom(j) \/ StatToOk(j) \/ StatToRetry(j) \/ StatToGivesUp(j)
     \/ StatFails(j) \/ RemoveAside(j) \/ Discard(j)
  /\ UNCHANGED <<mode, server>>

PublishNext == (\E j \in Job : Step(j)) \/ LateRequest

PublishSpec == PublishInit /\ [][PublishNext]_publishVars

-----------------------------------------------------------------------------
(***************************************************************************)
(* Properties.                                                             *)
(***************************************************************************)

\* Publishing an image never replaces, moves or deletes one that is there,
\* whatever is lost, repeated or late (R18).
ImageStays == [][mode = "image" /\ fs[To] # NoFile => fs'[To] = fs[To]]_publishVars

\* With posix-rename, somebody who looks for the catalog always finds one.
CatalogAlwaysThere == server.posix => fs[To] # NoFile

\* Without posix-rename the old catalog is moved aside first, with it it is
\* replaced: until the replacement reports success, whatever fails or arrives
\* late, a copy that is complete stays on the server under one of the names.
ReplaceKeepsACopy ==
  (\A j \in Job : step[j] # "ok") => \E n \in Name : fs[n] # NoFile

\* Nothing that was not flushed is ever under a final name, on a server that
\* can flush: not after a retry, not through a late request (R19).
PublishedIsFlushed == fs[To] # NoFile => fs[To] \in flushed

\* What publication leaves under a final name: an image stays, a catalog is
\* never gone before its replacement is there, and both are on the disk.
PublishedStays ==
  /\ ImageStays
  /\ [](server.fsync => PublishedIsFlushed)
  /\ [](mode = "catalog" => ReplaceKeepsACopy /\ CatalogAlwaysThere)

\* A publication that reports success has put this job's file in place, image
\* or catalog: a lost reply is never confused with somebody else's success,
\* although the reconciliation only compares sizes.
OkMeansMine ==
  [][\A j \in Job : (step'[j] = "ok" /\ step[j] # "ok") => fs'[To] = j]_publishVars

\* A publication has ended.
Ended(j) == step[j] \in {"idle", "ok", "failed"}
==============================================================================
