------------------------------ MODULE Capture ------------------------------
(***************************************************************************)
(* A captured verification (crates/lr-engine/src/verify/capture.rs and     *)
(* verify.rs): resolve the chain, size it, copy every member once into     *)
(* private anonymous files, check that the copies still are the chain that *)
(* was resolved, and verify the copies.  Meanwhile the destination may     *)
(* lose, truncate, extend or rewrite the source files and the job may be   *)
(* cancelled.                                                              *)
(*                                                                         *)
(* A file is a header and a sequence of blocks; its first block holds the  *)
(* header and the metadata pages, the second the payload.  A block knows   *)
(* the version of the file it belongs to and whether it is intact.         *)
(***************************************************************************)
EXTENDS Observation, FiniteSetsExt, Functions

CONSTANTS
    MaxChain,      \* longest chain
    MaxRawBytes,   \* CaptureOptions::max_raw_bytes, in blocks
    Headroom,      \* CaptureOptions::headroom_bytes, in blocks
    Available,     \* set of free-space figures statvfs may report
    MaxChanges     \* bound on changes of the source files

CaptureAssumption ==
    /\ MaxChain \in Nat \ {0}
    /\ MaxRawBytes \in Nat /\ Headroom \in Nat /\ MaxChanges \in Nat
    /\ Available \subseteq Nat

VARIABLES
    source,    \* the member files of the set, in chain order
    changes,   \* how often they changed
    every,     \* VerifyRequest::chain: check every member
    refs,      \* members whose payload the target's recovery point refers to
    bad,       \* bad sectors the target's manifest records
    cancelled,
    stage, idx, blk,   \* the verifier: its step, member and block
    headers,   \* superblocks read by the preflight
    raw,       \* lengths found by the preflight
    copies,    \* the anonymous captures
    work,      \* what is left of the content phase: tasks, each a sequence of calls
    obs, report

env == <<source, changes, every, refs, bad>>
captureVars == <<env, cancelled, stage, idx, blk, headers, raw, copies, work, obs, report>>

Blocks == 2                     \* blocks of a whole image: metadata, payload
Kinds == {"block", "file", "stream"}

Header(uuid, seq, kind, disk) ==
    [uuid |-> uuid, seq |-> seq, parent |-> uuid - 1, chain |-> 1, kind |-> kind, disk |-> disk]

Image(i, kind, disk) ==
    [there |-> TRUE, header |-> Header(i, i - 1, kind, disk),
     blocks |-> [b \in 1..Blocks |-> [version |-> 0, intact |-> TRUE]]]

Length(f) == Len(f.blocks)
RawTotal(lengths) == FoldFunctionOnSet(+, 0, lengths, DOMAIN lengths)

CaptureInit ==
    /\ \E n \in 1..MaxChain, kind \in Kinds, disk \in BOOLEAN :
        /\ disk => n = 1 /\ kind = "block"
        /\ source = [i \in 1..n |-> Image(i, kind, disk)]
        /\ refs \in IF kind = "stream" \/ disk THEN {{n}} ELSE SUBSET (1..n)
        /\ bad \in (IF kind = "block" THEN {0, 1} ELSE {0})
    /\ changes = 0 /\ every \in BOOLEAN /\ cancelled = FALSE
    /\ stage = "resolve" /\ idx = 1 /\ blk = 1
    /\ headers = << >> /\ raw = << >> /\ copies = << >> /\ work = << >>
    /\ obs = NewObservation(IF every THEN EveryMember ELSE Selected)
    /\ report = Absent

-----------------------------------------------------------------------------
(***************************************************************************)
(* The outside world.                                                      *)
(***************************************************************************)
Change(i, f) ==
    /\ stage # "done" /\ changes < MaxChanges
    /\ changes' = changes + 1
    /\ source' = [source EXCEPT ![i] = f]
    /\ UNCHANGED <<every, refs, bad, cancelled, stage, idx, blk, headers, raw, copies, work, obs, report>>

Delete(i)   == source[i].there /\ Change(i, [source[i] EXCEPT !.there = FALSE])
Truncate(i) == Length(source[i]) > 0
               /\ Change(i, [source[i] EXCEPT !.blocks = SubSeq(@, 1, Length(source[i]) - 1)])
Extend(i)   == Length(source[i]) <= Blocks
               /\ Change(i, [source[i] EXCEPT !.blocks = Append(@, [version |-> 0, intact |-> TRUE])])
BitRot(i)   == \E b \in DOMAIN source[i].blocks :
                  Change(i, [source[i] EXCEPT !.blocks[b].intact = FALSE])
\* another image, of the same length, takes the place of this one
Rewrite(i)  == \E uuid \in {i, i + MaxChain} :
                  Change(i, [source[i] EXCEPT
                       !.header = [@ EXCEPT !.uuid = uuid, !.chain = 2],
                       !.blocks = [b \in DOMAIN @ |-> [version |-> changes + 1, intact |-> TRUE]]])

Cancel == /\ stage # "done" /\ ~cancelled
          /\ cancelled' = TRUE
          /\ UNCHANGED <<env, stage, idx, blk, headers, raw, copies, work, obs, report>>

-----------------------------------------------------------------------------
(***************************************************************************)
(* Capture.  CaptureFails is CaptureFailure turned into the attempt's      *)
(* outcome by verify_image_captured.                                       *)
(***************************************************************************)
CaptureFails(o, where, reason) ==
    /\ obs' = [o EXCEPT !.outcome = Incomplete(where, reason)]
    /\ stage' = "done"
    /\ UNCHANGED <<env, cancelled, idx, blk, headers, raw, copies, work, report>>

\* capture_chain up to the resolved ancestry.  resolve_chain reads every header, so a member
\* that is gone, cut below its superblock or of another chain ends the attempt here.
Resolve ==
    /\ stage = "resolve"
    /\ IF MaxRawBytes = 0 THEN CaptureFails(obs, "scratch_preflight", "invalid_options")
       ELSE IF cancelled THEN CaptureFails(obs, "resolve_ancestry", ClassifyError("Cancelled"))
       ELSE IF \E i \in DOMAIN source : ~source[i].there
       THEN CaptureFails(obs, "resolve_ancestry", ClassifyError("Io"))
       ELSE IF \E i \in DOMAIN source : Length(source[i]) = 0 \/ source[i].header.chain # 1
       THEN CaptureFails(obs, "resolve_ancestry", ClassifyError("Corrupt"))
       ELSE /\ stage' = "preflight"
            /\ obs' = [obs EXCEPT !.members = [i \in DOMAIN source |-> Pending]]
            /\ UNCHANGED <<env, cancelled, idx, blk, headers, raw, copies, work, report>>

\* one round of the preflight loop: length, header, identity, cap
PreflightMember ==
    /\ stage = "preflight"
    /\ LET f == source[idx]
           sized == [obs EXCEPT !.members[idx].raw_length = Some(Length(f))]
       IN  IF cancelled THEN CaptureFails(obs, "scratch_preflight", ClassifyError("Cancelled"))
           ELSE IF ~f.there THEN CaptureFails(obs, "scratch_preflight", ClassifyError("Io"))
           ELSE IF Length(f) < 1 THEN CaptureFails(obs, "resolve_ancestry", "identity_changed")
           ELSE IF ~f.blocks[1].intact THEN CaptureFails(obs, "resolve_ancestry", ClassifyError("Corrupt"))
           ELSE IF f.header.uuid # idx \/ f.header.seq # idx - 1
           THEN CaptureFails(obs, "resolve_ancestry", "identity_changed")
           ELSE IF RawTotal(Append(raw, Length(f))) > MaxRawBytes
           THEN CaptureFails(sized, "scratch_preflight", "raw_cap_exceeded")
           ELSE /\ obs' = sized
                /\ raw' = Append(raw, Length(f))
                /\ headers' = Append(headers, f.header)
                /\ idx' = IF idx = Len(source) THEN 1 ELSE idx + 1
                /\ stage' = IF idx = Len(source) THEN "scratch" ELSE "preflight"
                /\ UNCHANGED <<env, cancelled, blk, copies, work, report>>

\* PinnedScratch::open and the free-space check
Scratch ==
    /\ stage = "scratch"
    /\ \/ CaptureFails(obs, "scratch_preflight", "scratch_untrusted")
       \/ \E available \in Available :
            IF RawTotal(raw) + Headroom > available
            THEN CaptureFails(obs, "scratch_preflight", "headroom_unavailable")
            ELSE /\ stage' = "open"
                 /\ UNCHANGED <<env, cancelled, idx, blk, headers, raw, copies, work, obs, report>>

CopyFails(reason) == CaptureFails(SetStage(obs, idx, "capture", "failed"), "capture", reason)

\* copy_member up to the loop: the member is opened again and must have kept its length
OpenMember ==
    /\ stage = "open"
    /\ IF cancelled THEN CaptureFails(obs, "capture", ClassifyError("Cancelled"))
       ELSE IF ~source[idx].there THEN CopyFails(ClassifyError("Io"))
       ELSE IF Length(source[idx]) # raw[idx] THEN CopyFails("source_changed")
       ELSE /\ stage' = "copy" /\ blk' = 1
            /\ obs' = SetStage(obs, idx, "capture", "in_progress")
            /\ copies' = Append(copies, [header |-> source[idx].header, blocks |-> << >>])
            /\ UNCHANGED <<env, cancelled, idx, headers, raw, work, report>>

\* one read of the copy loop; the open file stays readable when its name is deleted
CopyBlock ==
    /\ stage = "copy" /\ blk <= raw[idx]
    /\ \/ cancelled /\ CopyFails(ClassifyError("Cancelled"))
       \/ ~cancelled /\ blk > Length(source[idx]) /\ CopyFails("source_changed")
       \/ ~cancelled /\ CopyFails(ClassifyError("NoSpace"))
       \/ /\ ~cancelled /\ blk <= Length(source[idx])
          /\ copies' = [copies EXCEPT ![idx] =
                          [header |-> IF blk = 1 THEN source[idx].header ELSE @.header,
                           blocks |-> Append(@.blocks, source[idx].blocks[blk])]]
          /\ blk' = blk + 1
          /\ UNCHANGED <<env, cancelled, stage, idx, headers, raw, work, obs, report>>

\* the rest of copy_member: the file must end here; the digest is of the bytes that were copied
FinishMember ==
    /\ stage = "copy" /\ blk > raw[idx]
    /\ IF cancelled THEN CopyFails(ClassifyError("Cancelled"))
       ELSE IF Length(source[idx]) > raw[idx] THEN CopyFails("source_changed")
       ELSE /\ obs' = [obs EXCEPT !.members[idx].capture = "complete",
                                  !.members[idx].digest = Some(copies[idx].blocks)]
            /\ idx' = IF idx = Len(raw) THEN 1 ELSE idx + 1
            /\ stage' = IF idx = Len(raw) THEN "identity" ELSE "open"
            /\ UNCHANGED <<env, cancelled, blk, headers, raw, copies, work, report>>

\* validate_captured_ancestry, without the geometry fields
CapturedAncestry(hs) ==
    /\ hs[1].seq = 0 /\ hs[1].parent = ZERO
    /\ \A i \in DOMAIN hs :
        /\ hs[i].seq = i - 1
        /\ hs[i].chain = hs[1].chain /\ hs[i].kind = hs[1].kind /\ hs[i].disk = hs[1].disk
        /\ i > 1 => hs[i].parent = hs[i - 1].uuid

\* the copies must be the members the preflight saw; identities are recorded member by member
Identity ==
    LET same(i) == copies[i].blocks[1].intact /\ copies[i].header = headers[i]
        all == \A i \in DOMAIN copies : same(i)
        first == IF all THEN Len(copies) + 1 ELSE Min({i \in DOMAIN copies : ~same(i)})
        named == [obs EXCEPT !.members = [i \in DOMAIN @ |->
                     IF i < first THEN [@[i] EXCEPT !.identity = Some(copies[i].header)]
                     ELSE @[i]]]
    IN  /\ stage = "identity"
        /\ IF cancelled THEN CaptureFails(obs, "identity_validation", ClassifyError("Cancelled"))
           ELSE IF ~all
           THEN CaptureFails(named, "identity_validation",
                     IF copies[first].blocks[1].intact THEN "identity_changed"
                     ELSE ClassifyError("Corrupt"))
           ELSE IF ~CapturedAncestry([i \in DOMAIN copies |-> copies[i].header])
           THEN CaptureFails(named, "identity_validation", "identity_changed")
           ELSE IF headers[Len(headers)].disk /\ Len(headers) # 1
           THEN CaptureFails(named, "identity_validation", "unsupported")
           ELSE /\ obs' = named /\ stage' = "structure"
                /\ UNCHANGED <<env, cancelled, idx, blk, headers, raw, copies, work, report>>

-----------------------------------------------------------------------------
(***************************************************************************)
(* Verification of the copies: verify_members_in_set_inner.                *)
(***************************************************************************)
GiveUp(o, where, error) ==
    /\ obs' = FailObservation(o, where, ClassifyError(error))
    /\ stage' = "done"
    /\ UNCHANGED <<env, cancelled, idx, blk, headers, raw, copies, work, report>>

\* CapturedDestination: the verifier reads nothing but the anonymous copies, by position
OpenRo(i) == copies[i]

StructureOk(c) == Len(c.blocks) = Blocks /\ c.blocks[1].intact
PayloadOk(c) == c.blocks[2].intact /\ c.blocks[2].version = c.blocks[1].version

\* one member of the structure loop; a key that does not open the image fails it too
Structure ==
    /\ stage = "structure"
    /\ LET begun == SetStage(obs, idx, "structure", "in_progress") IN
       \/ cancelled /\ GiveUp(begun, "structure", "Cancelled")
       \/ ~cancelled /\ GiveUp(begun, "structure", "Aead")
       \/ ~cancelled /\ ~StructureOk(OpenRo(idx)) /\ GiveUp(begun, "structure", "Corrupt")
       \/ /\ ~cancelled /\ StructureOk(OpenRo(idx))
          /\ \E notice \in {Absent, Some("repeated_nonce")} :
                obs' = [obs EXCEPT !.members[idx].structure = "complete",
                                   !.members[idx].notice = notice]
          /\ idx' = IF idx = Len(copies) THEN 1 ELSE idx + 1
          /\ stage' = IF idx = Len(copies) THEN "plan" ELSE "structure"
          /\ UNCHANGED <<env, cancelled, blk, headers, raw, copies, work, report>>

\* The content phase as the recorder calls and payload reads it makes, in order.
Reads(owners) == [i \in 1..Cardinality(owners) |-> <<"read", CHOOSE o \in owners :
                      Cardinality({p \in owners : p < o}) = i - 1>>]

\* verify_block_chain: the merged view of the target, then every member's own payloads
BlockWork(n) ==
    LET view == <<<<"begin", n, "recovery_point">>, <<"open", n>>>> \o Reads(refs)
                \o <<<<"referenced", n>>, <<"complete", n, "recovery_point">>>>
        own == <<<<"begin_all", n>>>> \o [i \in 1..n |-> <<"own", i>>]
               \o <<<<"complete_all", n>>>>
    IN  IF every THEN <<view, own>> ELSE <<view>>

\* the members a verification looks at one by one
TargetMembers(n) == IF every THEN [t \in 1..n |-> t] ELSE <<n>>

\* verify_file: the trees of the scope, each with the payloads it refers to
FileWork(n) ==
    LET tree(target) == <<<<"begin", target, "recovery_point">>>>
                        \o Reads(refs \cap 1..target)
                        \o <<<<"complete", target, "recovery_point">>>>
    IN  <<<<<<"open", n>>>>>> \o [t \in DOMAIN TargetMembers(n) |-> tree(TargetMembers(n)[t])]
        \o <<<<<<"referenced", n>>>>>>

\* verify_stream: each member of the scope by itself
StreamWork(n) ==
    LET member(target) ==
          <<<<"begin", target, "recovery_point">>, <<"begin", target, "every_stored">>,
            <<"open", target>>, <<"own", target>>,
            <<"complete", target, "recovery_point">>, <<"complete", target, "every_stored">>>>
    IN  [t \in DOMAIN TargetMembers(n) |-> member(TargetMembers(n)[t])]

\* verify_whole_disk
DiskWork(n) ==
    <<<<<<"begin", n, "recovery_point">>, <<"open", n>>, <<"complete", n, "recovery_point">>,
        <<"begin", n, "disk_regions">>, <<"own", n>>, <<"complete", n, "disk_regions">>>>>>

\* enter_content_phase, the cancellation check, begin_content and the choice of the checker
Content ==
    /\ stage = "plan"
    /\ LET n == Len(copies)
           h == OpenRo(n).header
       IN  IF cancelled THEN GiveUp(obs, "content", "Cancelled")
           ELSE /\ obs' = BeginContent(obs, ContentCoverage(h.kind, h.disk, every))
                /\ work' = CASE h.disk -> DiskWork(n)
                             [] h.kind = "block" /\ ~h.disk -> BlockWork(n)
                             [] h.kind = "file" -> FileWork(n)
                             [] h.kind = "stream" -> StreamWork(n)
                /\ stage' = "content"
                /\ UNCHANGED <<env, cancelled, idx, blk, headers, raw, copies, report>>

\* the observation after one successful call
Apply(op, o) ==
    CASE op[1] = "begin"        -> SetStage(o, op[2], op[3], "in_progress")
      [] op[1] = "complete"     -> SetStage(o, op[2], op[3], "complete")
      [] op[1] = "begin_all"    -> SetAll(o, "every_stored", "in_progress")
      [] op[1] = "complete_all" -> SetAll(o, "every_stored", "complete")
      [] op[1] = "referenced"   -> CompleteReferenced(o)
      [] op[1] \in {"open", "own"} -> o
      [] op[1] = "read"         -> BeginReferenced(o, op[2])

\* A payload read may find a damaged chunk, a report of progress a cancelled job.  Block and
\* disk images report before a chunk is read, files and streams after it.
ContentStep ==
    /\ stage = "content" /\ work # << >>
    /\ LET op == Head(Head(work))
           begun == Apply(op, obs)
           reportsFirst == headers[1].kind = "block"
           payload == op[1] \in {"read", "own"}
           sound == payload => PayloadOk(OpenRo(op[2]))
       IN  \/ /\ payload /\ cancelled /\ (reportsFirst \/ sound)
              /\ GiveUp(IF reportsFirst THEN obs ELSE begun, "content", "Cancelled")
           \/ op[1] = "open" /\ GiveUp(obs, "content", "Io")
           \/ ~sound /\ ~(reportsFirst /\ cancelled) /\ GiveUp(begun, "content", "Corrupt")
           \/ /\ sound /\ (payload => ~cancelled)
              /\ obs' = begun
              /\ work' = IF Len(Head(work)) = 1 THEN Tail(work)
                         ELSE <<Tail(Head(work))>> \o Tail(work)
              /\ UNCHANGED <<env, cancelled, stage, idx, blk, headers, raw, copies, report>>

\* Mutant: the content phase ends before its last task.
FinishVerifyEarly ==
    /\ stage = "content" /\ Len(work) <= 1
    /\ IF cancelled THEN GiveUp(obs, "content", "Cancelled")
       ELSE /\ report' = Some([bad |-> bad, every |-> every \/ Len(copies) = 1])
            /\ obs' = FinishObservation(obs, bad)
            /\ stage' = "done"
            /\ UNCHANGED <<env, cancelled, idx, blk, headers, raw, copies, work>>

\* the last cancellation check, and VerificationRecorder::finish
FinishVerify ==
    /\ stage = "content" /\ work = << >>
    /\ IF cancelled THEN GiveUp(obs, "content", "Cancelled")
       ELSE /\ report' = Some([bad |-> bad, every |-> every \/ Len(copies) = 1])
            /\ obs' = FinishObservation(obs, bad)
            /\ stage' = "done"
            /\ UNCHANGED <<env, cancelled, idx, blk, headers, raw, copies, work>>

Verifier == \/ Resolve \/ PreflightMember \/ Scratch \/ OpenMember \/ CopyBlock \/ FinishMember
            \/ Identity \/ Structure \/ Content \/ ContentStep \/ FinishVerify
World == \/ \E i \in DOMAIN source :
               Delete(i) \/ Truncate(i) \/ Extend(i) \/ BitRot(i) \/ Rewrite(i)
         \/ Cancel
Done == stage = "done" /\ UNCHANGED captureVars

CaptureNext == Verifier \/ World \/ Done
CaptureSpec == CaptureInit /\ [][CaptureNext]_captureVars

-----------------------------------------------------------------------------
(***************************************************************************)
(* Properties.                                                             *)
(***************************************************************************)
ReportsVerified == obs.outcome.status # "incomplete"
\* the members whose payloads the request covers; a file chain is checked by reference
ScopeOf == IF every /\ headers[1].kind # "file" THEN DOMAIN copies ELSE refs

\* However an attempt ends (verified, with recorded loss, cancelled at any check, or failed at
\* any stage), what the recorder left behind passes the ledger's own validate_attempt: the two
\* tables of what a coverage promises, in observation.rs and in history.rs, agree, and no
\* failure path leaves a stage in progress or a fact without the facts it rests on.
ReceiptIsValid == stage = "done" => ValidAttempt(obs, report)

\* An attempt that reports verified checked exactly the bytes whose digest it recorded: the
\* copies are whole images of one chain, and no payload in the scope of the request is damaged
\* or torn between two versions of the file, whatever happened to the sources meanwhile.
VerifiedIsWhatWasCaptured ==
    ReportsVerified =>
        /\ \A i \in DOMAIN copies : /\ obs.members[i].digest = Some(copies[i].blocks)
                                   /\ obs.members[i].identity = Some(copies[i].header)
                                   /\ StructureOk(copies[i])
                                   /\ copies[i].header.chain = copies[1].header.chain
        /\ \A i \in ScopeOf : PayloadOk(copies[i])

\* The copies never take more scratch space than the caller's raw-byte cap, even when a source
\* grows while it is copied: the lengths the preflight added up are within the cap, and
\* copy_member reads the preflighted length of a member and no more.
CaptureStaysWithinCap ==
    copies # << >> => /\ ~ (RawTotal(raw) > MaxRawBytes)
                      /\ \A i \in DOMAIN copies : Length(copies[i]) <= raw[i]

\* What an attempt leaves behind, in the ledger and in the scratch space, is what it may leave:
\* its receipt is valid however it ends, and its copies stay within the raw-byte cap.
AttemptIsRecordable == ReceiptIsValid /\ CaptureStaysWithinCap
=============================================================================
