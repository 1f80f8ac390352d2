---------------------------- MODULE Observation ----------------------------
(***************************************************************************)
(* What a captured verification writes down about each member of a chain,  *)
(* and the rules a receipt must satisfy before the ledger accepts it.      *)
(* Optional fields are sets of at most one element.  The values come from  *)
(* crates/lr-engine/src/verify/observation.rs, the rules from history.rs.  *)
(***************************************************************************)
EXTENDS Naturals, Sequences, FiniteSets

Absent == {}
Some(v) == {v}
ZERO == 0                                  \* ImageId::ZERO, the parent of a full

Selected == "selected_recovery_point"
EveryMember == "every_member"

(***************************************************************************)
(* MemberObservation::pending, VerificationObservation::new.               *)
(***************************************************************************)
Pending == [raw_length |-> Absent, digest |-> Absent, identity |-> Absent,
            capture |-> "not_started", structure |-> "not_started", notice |-> Absent,
            recovery_point |-> "not_requested", referenced |-> "not_requested",
            every_stored |-> "not_requested", disk_regions |-> "not_requested"]

Incomplete(stage, reason) == [status |-> "incomplete", stage |-> stage, reason |-> reason]
IntegrityVerified == [status |-> "integrity_verified"]
VerifiedWithLoss == [status |-> "integrity_verified_with_recorded_loss"]

NewObservation(scope) ==
    [schema |-> 1, coverage_version |-> 1, scope |-> scope, coverage |-> Absent,
     outcome |-> Incomplete("resolve_ancestry", "unavailable"), members |-> << >>]

(***************************************************************************)
(* The recorder: begin_*, complete_*, fail and finish.  A content field is *)
(* one of ContentFields.                                                   *)
(***************************************************************************)
ContentFields == {"recovery_point", "referenced", "every_stored", "disk_regions"}

SetStage(obs, i, field, stage) == [obs EXCEPT !.members[i][field] = stage]
SetAll(obs, field, stage) ==
    [obs EXCEPT !.members = [i \in DOMAIN @ |-> [@[i] EXCEPT ![field] = stage]]]

\* begin_referenced_payload never takes a completed member back
BeginReferenced(obs, i) ==
    IF obs.members[i].referenced = "complete" THEN obs
    ELSE SetStage(obs, i, "referenced", "in_progress")

CompleteReferenced(obs) ==
    [obs EXCEPT !.members = [i \in DOMAIN @ |->
        IF @[i].referenced \in {"not_started", "in_progress"}
        THEN [@[i] EXCEPT !.referenced = "complete"] ELSE @[i]]]

\* content_coverage: what a kind of image and a scope promise to check
ContentCoverage(kind, disk, every) ==
    IF disk THEN "whole_disk_regions" ELSE
    CASE kind = "block"  -> IF every THEN "block_every" ELSE "block_selected"
      [] kind = "file"   -> IF every THEN "file_every" ELSE "file_selected"
      [] kind = "stream" -> IF every THEN "stream_every" ELSE "stream_selected"

\* begin_content: the fields a coverage asks for, of the selected member and of the others
Requested(coverage, selected) ==
    CASE coverage \in {"block_selected", "file_selected"} ->
            {"referenced"} \cup (IF selected THEN {"recovery_point"} ELSE {})
      [] coverage = "block_every" ->
            {"referenced", "every_stored"} \cup (IF selected THEN {"recovery_point"} ELSE {})
      [] coverage = "file_every" -> {"referenced", "recovery_point"}
      [] coverage = "stream_selected" ->
            IF selected THEN {"recovery_point", "every_stored"} ELSE {}
      [] coverage = "stream_every" -> {"recovery_point", "every_stored"}
      [] coverage = "whole_disk_regions" ->
            IF selected THEN {"recovery_point", "disk_regions"} ELSE {}

BeginContent(obs, coverage) ==
    [obs EXCEPT !.coverage = Some(coverage),
                !.members = [i \in DOMAIN @ |-> [f \in DOMAIN @[i] |->
                    IF f \in Requested(coverage, i = Len(obs.members))
                    THEN "not_started" ELSE @[i][f]]]]

\* Mutant: the stages a failure interrupts are left in progress.
FailObservationOutcomeOnly(obs, stage, reason) ==
    [obs EXCEPT !.outcome = Incomplete(stage, reason)]

\* VerificationRecorder::fail: nothing is left in progress
FailObservation(obs, stage, reason) ==
    [obs EXCEPT !.outcome = Incomplete(stage, reason),
                !.members = [i \in DOMAIN @ |-> [f \in DOMAIN @[i] |->
                    IF f \in ContentFields \cup {"capture", "structure"}
                       /\ @[i][f] = "in_progress"
                    THEN "failed" ELSE @[i][f]]]]

\* VerificationRecorder::finish, set_verified
FinishObservation(obs, bad) ==
    [obs EXCEPT !.outcome = IF bad = 0 THEN IntegrityVerified ELSE VerifiedWithLoss]

\* classify_error: the failure a typed error is reported as
ClassifyError(error) ==
    CASE error = "Cancelled"   -> "cancelled"
      [] error = "Aead"        -> "key_or_authentication_failure"
      [] error = "Corrupt"     -> "corrupt"
      [] error = "Unsupported" -> "unsupported"
      [] error \in {"Enospc", "NoSpace"} -> "headroom_unavailable"
      [] OTHER                 -> "unavailable"

-----------------------------------------------------------------------------
(***************************************************************************)
(* validate_attempt and the rules under it, history.rs.                    *)
(***************************************************************************)
Has(option) == option # Absent

ValidHeader(obs) == obs.schema = 1 /\ obs.coverage_version = 1

ValidMember(m) ==
    /\ m.capture \in {"not_started", "failed", "complete"}
    /\ m.capture # "complete" => ~Has(m.digest) /\ ~Has(m.identity)
    /\ m.capture = "complete" => Has(m.raw_length) /\ Has(m.digest)
    /\ Has(m.identity) => Has(m.digest)
    /\ m.structure \in {"not_started", "complete", "failed"}
    /\ m.structure # "not_started" => m.capture = "complete" /\ Has(m.identity)
    /\ Has(m.notice) => m.structure = "complete"
    /\ \A f \in ContentFields : m[f] # "in_progress"

ValidPartial(obs) ==
    LET anyContentFact == \E i \in DOMAIN obs.members, f \in ContentFields :
                              obs.members[i][f] # "not_requested"
    IN  /\ \A i \in DOMAIN obs.members : ValidMember(obs.members[i])
        /\ Has(obs.coverage) <=> anyContentFact
        /\ anyContentFact => \A i \in DOMAIN obs.members :
                /\ obs.members[i].capture = "complete"
                /\ Has(obs.members[i].identity)
                /\ obs.members[i].structure = "complete"

\* valid_ancestry, over the identities of members that all have one; a member's legacy
\* header kind is Full exactly when seq is 0 (chain::member_kind), so seq stands for it
ValidAncestry(ids) ==
    /\ ids[1].parent = ZERO
    /\ ids[1].disk => Len(ids) = 1 /\ ids[1].kind = "block"
    /\ \A i \in DOMAIN ids :
        /\ ids[i].seq = i - 1
        /\ ids[i].chain = ids[1].chain
        /\ ids[i].kind = ids[1].kind
        /\ ids[i].disk = ids[1].disk
        /\ i > 1 => ids[i].parent = ids[i - 1].uuid
    /\ \A i, j \in DOMAIN ids : ids[i].uuid = ids[j].uuid => i = j

MemberIdentities(obs) == [i \in DOMAIN obs.members |-> CHOOSE d \in obs.members[i].identity : TRUE]

\* the coverage a receipt may claim for its target and the scope that was asked for
CoverageMatches(coverage, target, scope) ==
    /\ target.disk <=> coverage = "whole_disk_regions"
    /\ CASE coverage = "whole_disk_regions" -> target.kind = "block"
         [] coverage = "block_selected"  -> target.kind = "block"  /\ scope = Selected
         [] coverage = "block_every"     -> target.kind = "block"  /\ scope = EveryMember
         [] coverage = "file_selected"   -> target.kind = "file"   /\ scope = Selected
         [] coverage = "file_every"      -> target.kind = "file"   /\ scope = EveryMember
         [] coverage = "stream_selected" -> target.kind = "stream" /\ scope = Selected
         [] coverage = "stream_every"    -> target.kind = "stream" /\ scope = EveryMember

\* whether recovery point, referenced, stored and region payloads must be complete
ExpectedStages(coverage, selected) ==
    CASE coverage \in {"block_selected", "file_selected"} -> <<selected, TRUE, FALSE, FALSE>>
      [] coverage = "block_every"        -> <<selected, TRUE, TRUE, FALSE>>
      [] coverage = "file_every"         -> <<TRUE, TRUE, FALSE, FALSE>>
      [] coverage = "stream_selected"    -> <<selected, FALSE, selected, FALSE>>
      [] coverage = "stream_every"       -> <<TRUE, FALSE, TRUE, FALSE>>
      [] coverage = "whole_disk_regions" -> <<selected, FALSE, FALSE, TRUE>>

\* matches_expected_stage: exactly what was promised, nothing more
MatchesExpected(stage, expected) == stage = IF expected THEN "complete" ELSE "not_requested"

ValidSuccess(obs) ==
    LET n == Len(obs.members)
        ids == MemberIdentities(obs)
    IN  /\ n > 0
        /\ Has(obs.coverage)
        /\ \A i \in 1..n : LET m == obs.members[i] IN
            /\ m.capture = "complete" /\ m.structure = "complete"
            /\ m.raw_length \notin {Absent, Some(0)} /\ Has(m.digest) /\ Has(m.identity)
        /\ ValidAncestry(ids)
        /\ \A c \in obs.coverage :
            /\ CoverageMatches(c, ids[n], obs.scope)
            /\ \A i \in 1..n : LET m == obs.members[i]
                                  e == ExpectedStages(c, i = n)
                              IN  /\ MatchesExpected(m.recovery_point, e[1])
                                  /\ MatchesExpected(m.referenced, e[2])
                                  /\ MatchesExpected(m.every_stored, e[3])
                                  /\ MatchesExpected(m.disk_regions, e[4])

\* report is the set of reports the attempt carries: none, or one with its bad-chunk count
ValidAttempt(obs, report) ==
    /\ ValidHeader(obs)
    /\ ValidPartial(obs)
    /\ CASE obs.outcome.status = "incomplete" -> report = Absent
         [] obs.outcome = IntegrityVerified ->
                (\E r \in report : r.bad = 0) /\ ValidSuccess(obs)
         [] obs.outcome = VerifiedWithLoss ->
                (\E r \in report : r.bad > 0) /\ ValidSuccess(obs)
=============================================================================
