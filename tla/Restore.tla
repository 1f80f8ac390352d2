------------------------------ MODULE Restore ------------------------------
(* A restore, from the plan to the last write: the token prepare_restore    *)
(* issues, the key that signs it and the record that it was used, and the   *)
(* checks apply_restore makes between the token and the first write, for    *)
(* block chains, whole disks, Btrfs streams and file trees.                 *)
(*                                                                          *)
(* An image member is a file whose superblock carries an identity; a        *)
(* replacement always brings a fresh one.  A target is a block device or a  *)
(* directory; the path of the request names one of them and may be made to  *)
(* name another.  Chunk i of the image (an entry of a file image, a section *)
(* of a stream) is stored in member Layout[i], or is Zero, or Unused.       *)
EXTENDS Naturals, Integers, FiniteSets, Sequences

CONSTANTS
    Procs,          \* programs that prepare and apply restores
    TokenUsers,     \* their callers
    Targets,        \* devices or directories
    Small,          \* the targets that cannot hold the image
    ImageKinds,     \* image kinds to restore
    ChainLength,    \* members of a chain
    Layout,         \* per chunk: a member, Zero or Unused
    Ttl,            \* life of a token
    MaxTime,        \* bound on the clock
    MaxTokens,      \* bound on prepared restores
    MaxEvents       \* bound on changes of the images and the target by others

Zero == 0
Unused == -1
None == "none"

ASSUME RestoreAssumption ==
    /\ ImageKinds \subseteq {"block", "disk", "stream", "file"}
    /\ ChainLength \in Nat \ {0} /\ Ttl \in Nat /\ MaxTime \in Nat
    /\ Layout \in Seq({Unused, Zero} \cup 1..ChainLength) /\ Small \subseteq Targets
    /\ None \notin Procs
Chunks == 1..Len(Layout)

VARIABLES
    image,      \* what is restored: kind, flagged inconsistent, bad sectors
    store,      \* identity of every member file
    damaged,    \* members whose payload no longer matches its hashes
    path,       \* the target the requested path names
    mounted,    \* devices that carry a mounted file system
    filled,     \* directories that hold something
    content,    \* what every chunk of every target holds
    flushed,    \* targets whose writes are known to be on stable storage
    claim,      \* holder of the exclusive open of every device
    now,        \* the clock
    keyfile,    \* token.key
    tokens,     \* tokens issued
    consumed,   \* records in the consumed directory
    admitted,   \* history: every successful redemption
    touched,    \* history: who wrote to which target
    late,       \* history: programs whose image changed after they verified it
    events,     \* how many of those there have been
    step, secret, job

restoreVars == <<image, store, damaged, path, mounted, filled, content, flushed,
          claim, now, keyfile, tokens, consumed, admitted, touched, late,
          events, step, secret, job>>

envVars == <<image, store, damaged, path, mounted, filled, now, events>>
diskVars == <<content, flushed, touched>>
keyVars == <<keyfile, tokens, consumed, admitted, secret>>

Members == IF image.kind = "disk" THEN {1} ELSE 1..ChainLength

\* The member that stores chunk c.
Holder(c) == IF image.kind = "disk" THEN 1 ELSE Layout[c]

Identities == [m \in Members |-> store[m]]

OnDevice == image.kind # "file"

(* TargetFacts of a device: number, serial, size and a hash of its first    *)
(* blocks; DirectoryFacts of a directory: device, inode, canonical path.    *)
Facts(d) == IF OnDevice THEN <<d, content[d][1]>> ELSE <<d>>

NoToken == [nonce |-> 0, key |-> None, uid |-> None, expires |-> 0, members |-> <<>>,
            target |-> <<>>, merge |-> FALSE]

JobOf(token, user, accept) ==
    [token |-> token, user |-> user, accept |-> accept,
     seen |-> <<>>, opened |-> <<>>, chunks |-> <<>>, facts |-> <<>>, fd |-> None, at |-> 1]

NoJob == JobOf(NoToken, None, FALSE)

RestoreInit ==
    /\ image \in [kind : ImageKinds, inconsistent : BOOLEAN, bad : BOOLEAN]
    /\ image.bad => image.kind \in {"block", "disk"}
    /\ store = [m \in 1..ChainLength |-> 1]
    /\ damaged = {}
    /\ path \in Targets
    /\ mounted = {} /\ filled = {}
    /\ content = [d \in Targets |-> [c \in Chunks |-> <<"old", c>>]]
    /\ flushed = Targets
    /\ claim = [d \in Targets |-> None]
    /\ now = 0
    /\ keyfile = None /\ tokens = {} /\ consumed = {}
    /\ admitted = {} /\ touched = {} /\ late = {}
    /\ events = 0
    /\ step = [p \in Procs |-> "boot"]
    /\ secret = [p \in Procs |-> None]
    /\ job = [p \in Procs |-> NoJob]

Go(p, there) == step' = [step EXCEPT ![p] = there]

Keep(p, j) == job' = [job EXCEPT ![p] = j]

Unclaimed(p) == [d \in Targets |-> IF claim[d] = p THEN None ELSE claim[d]]

\* An error return: the handle is dropped, and with it the claim.
ReturnError(p) ==
    /\ Go(p, IF \E d \in Targets : <<p, d>> \in touched THEN "failed" ELSE "refused")
    /\ claim' = Unclaimed(p)
    /\ UNCHANGED <<envVars, diskVars, keyVars, late, job>>

\* A check of the code: go on, remembering j, or return an error.
Decide(p, here, ok, j, there) ==
    /\ step[p] = here
    /\ \/ /\ ok
          /\ Go(p, there) /\ Keep(p, j)
          /\ UNCHANGED <<envVars, diskVars, keyVars, claim, late>>
       \/ ~ok /\ ReturnError(p)

\* A check that ends with an exclusive open of the device at the path.
TakeClaim(p, here, ok, there) ==
    /\ step[p] = here
    /\ \/ /\ ok
          /\ Go(p, there) /\ Keep(p, [job[p] EXCEPT !.fd = path])
          /\ claim' = [claim EXCEPT ![path] = p]
          /\ UNCHANGED <<envVars, diskVars, keyVars, late>>
       \/ ~ok /\ ReturnError(p)

-----------------------------------------------------------------------------
(* The signing key. *)

\* secret_file::read: a private file of the right length.
KeyReads == keyfile # None

\* token_secret, init_token_secret: one key for the life of the program, read
\* from the file that all programs of the user share.
LoadKey(p) ==
    /\ step[p] = "boot"
    /\ IF KeyReads
       THEN Go(p, "idle") /\ secret' = [secret EXCEPT ![p] = keyfile]
       ELSE Go(p, "keyless") /\ UNCHANGED secret
    /\ UNCHANGED <<envVars, diskVars, keyfile, tokens, consumed, admitted, claim, late, job>>

\* persist_noclobber: the first program to name its key wins.
PersistKey(p) ==
    /\ step[p] = "keyless"
    /\ keyfile' = IF KeyReads THEN keyfile ELSE p
    /\ Go(p, "boot")
    /\ UNCHANGED <<envVars, diskVars, tokens, consumed, admitted, secret, claim, late, job>>

-----------------------------------------------------------------------------
(* prepare_restore: read-only checks, then a token. *)

ExclusiveOpens(d) == d \notin mounted /\ claim[d] = None

\* preflight_target: not mounted, not held, not behind the running system.
Preflight(d) == d \notin mounted

Plannable == ~image.bad

PrepareTarget(merge) ==
    IF OnDevice
    THEN path \notin Small /\ Preflight(path) /\ ExclusiveOpens(path)
    ELSE (merge \/ path \notin filled) /\ path \notin Small

Prepare(p, user, merge) ==
    /\ step[p] = "idle"
    /\ Cardinality(tokens) < MaxTokens
    /\ Plannable
    /\ PrepareTarget(merge) /\ (merge => ~OnDevice)
    /\ tokens' = tokens \cup {[nonce |-> Cardinality(tokens) + 1, key |-> secret[p],
                               uid |-> user, expires |-> now + Ttl, members |-> Identities,
                               target |-> Facts(path), merge |-> merge]}
    /\ UNCHANGED <<envVars, diskVars, keyfile, consumed, admitted, secret, claim, late, step, job>>

-----------------------------------------------------------------------------
(* apply_restore, up to the redeemed token. *)

Valid(p, t) == t.key = secret[p] /\ now <= t.expires

\* What a caller may hand in: an issued token, or one whose content it edited.
Edited(t, u) == [[t EXCEPT !.key = None] EXCEPT !.uid = u]
Presented == tokens \cup {Edited(t, u) : t \in tokens, u \in TokenUsers}

Begin(p, t, user, confirm, accept) ==
    /\ step[p] = "idle"
    /\ confirm /\ Valid(p, t)
    /\ accept => image.inconsistent        \* consent to nothing changes nothing
    /\ Keep(p, JobOf(t, user, accept))
    /\ Go(p, "image")
    /\ UNCHANGED <<envVars, diskVars, keyVars, claim, late>>

BeginRefused(p, t, confirm) ==
    /\ step[p] = "idle"
    /\ ~(confirm /\ Valid(p, t))
    /\ ReturnError(p)

Token(p) == job[p].token

Newest == IF image.kind = "disk" THEN 1 ELSE ChainLength

\* open_image by name; its uuid must be the token's.
OpenImage(p) ==
    Decide(p, "image", store[Newest] = Token(p).members[Newest],
           [job[p] EXCEPT !.opened = Identities],
           IF OnDevice THEN "claim" ELSE "directory")

\* A flagged image needs consent; the O_EXCL open claims the device.
Claim(p) ==
    TakeClaim(p, "claim", (image.inconsistent => job[p].accept) /\ ExclusiveOpens(path), "facts")

\* The facts are read through the path and tied to the handle by its number.
SameTarget(p) ==
    /\ Facts(path) = Token(p).target
    /\ job[p].fd = path
    /\ Preflight(path)

CheckFacts(p) == Decide(p, "facts", SameTarget(p), job[p], "admit")

CheckDirectory(p) ==
    Decide(p, "directory", Facts(path) = Token(p).target, job[p], "admit")

\* check_cancel, then verify once more before the token is spent.
Admit(p) == Decide(p, "admit", Valid(p, Token(p)), job[p], "redeem")

UseRecord(t) == <<t.expires, t.nonce>>

\* consume: records of expired tokens are pruned, then create_new decides.
Pruned == {r \in consumed : ~(now > r[1])}

(* Mutation: the record is created without create_new. *)
FirstUseAlways(t) == TRUE

FirstUse(t) == UseRecord(t) \notin Pruned

(* Mutation: a device restore skips the verification. *)
AfterRedeemUnverified == CASE image.kind = "stream" -> "reopen"
                           [] image.kind = "file" -> "start"
                           [] OTHER -> "retarget"

AfterRedeem == CASE image.kind = "stream" -> "reopen"
                 [] image.kind = "file" -> "start"
                 [] OTHER -> "before"

Redeem(p) ==
    /\ step[p] = "redeem"
    /\ job[p].user = Token(p).uid
    /\ FirstUse(Token(p))
    /\ consumed' = Pruned \cup {UseRecord(Token(p))}
    /\ admitted' = admitted \cup {[proc |-> p, token |-> Token(p), at |-> now]}
    /\ claim' = IF image.kind = "stream" THEN Unclaimed(p) ELSE claim
    /\ Go(p, AfterRedeem)
    /\ UNCHANGED <<envVars, diskVars, keyfile, tokens, secret, late, job>>

RedeemRefused(p) ==
    /\ step[p] = "redeem"
    /\ job[p].user # Token(p).uid \/ ~FirstUse(Token(p))
    /\ consumed' = IF job[p].user = Token(p).uid THEN Pruned ELSE consumed
    /\ Go(p, "refused")
    /\ claim' = Unclaimed(p)
    /\ UNCHANGED <<envVars, diskVars, keyfile, tokens, secret, admitted, late, job>>

-----------------------------------------------------------------------------
(* verify_selected_payloads: identities, every payload, identities again. *)

\* restore_stream_inner claims the device anew; restore_file_inner reads the
\* directory's facts.
Reopen(p) ==
    TakeClaim(p, "reopen",
              ExclusiveOpens(path) /\ Facts(path) = Token(p).target /\ Preflight(path),
              "before")

StartDirectory(p) ==
    Decide(p, "start", Facts(path) = Token(p).target,
           [job[p] EXCEPT !.facts = Facts(path)], "before")

IdentitiesBefore(p) ==
    Decide(p, "before", Identities = Token(p).members,
           [job[p] EXCEPT !.seen = Identities], "payload")

\* verify_members_in_set and ensure_complete_recovery.
PayloadsGood == ~image.bad /\ \A m \in Members : <<m, store[m]>> \notin damaged

VerifyPayloads(p) == Decide(p, "payload", PayloadsGood, job[p], "after")

IdentitiesAfter(p) ==
    Decide(p, "after", Identities = job[p].seen, job[p],
           IF image.kind \in {"file", "stream"} THEN "members" ELSE "retarget")

-----------------------------------------------------------------------------
(* From the verified image to the first write. *)

\* The device once more, after the slow verification.
Retarget(p) ==
    Decide(p, "retarget", SameTarget(p), job[p],
           CASE image.kind = "stream" -> "mkfs"
             [] image.kind = "disk" -> "current"
             [] OTHER -> "members")

\* open_chain, or read_stream_image per member: the manifests and handles of
\* the member files the names lead to now.  A whole disk keeps the manifest of
\* the image it opened first.
OpenMembers(p) ==
    Decide(p, "members", (image.inconsistent => job[p].accept) /\ Plannable,
           [job[p] EXCEPT !.opened = Identities, !.chunks = Identities], "current")

\* validate_open_chain_members compares the open handles and the names;
\* validate_selected_members_current (disk, stream) the names.
StillTheMembers(p) ==
    /\ image.kind \in {"block", "file"} => job[p].opened = Token(p).members
    /\ Identities = Token(p).members

\* The whole disk's chunk reader is opened by name after the comparison.
ValidateOpened(p) ==
    Decide(p, "current", StillTheMembers(p), job[p],
           CASE image.kind = "stream" -> "retarget"
             [] image.kind = "file" -> "dircheck"
             [] image.kind = "disk" -> "chunks"
             [] OTHER -> "write")

OpenChunks(p) ==
    Decide(p, "chunks", Plannable /\ job[p].fd \notin Small,
           [job[p] EXCEPT !.chunks = Identities], "write")

\* restore_stream_inner drops its claim; mkfs.btrfs takes its own through the
\* path and refuses a device in use.
MakeFilesystem(p) ==
    /\ step[p] = "mkfs"
    /\ path \notin mounted /\ claim[path] \in {None, p}
    /\ claim' = Unclaimed(p)
    /\ content' = [content EXCEPT ![path] = [c \in Chunks |-> <<"empty", c>>]]
    /\ flushed' = flushed \ {path}
    /\ touched' = touched \cup {<<p, path>>}
    /\ mounted' = mounted \cup {path}
    /\ Keep(p, [job[p] EXCEPT !.fd = path])
    /\ Go(p, "write")
    /\ UNCHANGED <<image, store, damaged, path, filled, now, events, keyVars, late>>

\* mkfs.btrfs refuses a device in use, and may fail over any other before it writes.
MakeFilesystemFails(p) == step[p] = "mkfs" /\ ReturnError(p)

\* mkfs.btrfs breaks off, or what it made cannot be mounted: the old content is lost.
MakeFilesystemBreaks(p) ==
    /\ step[p] = "mkfs"
    /\ path \notin mounted /\ claim[path] \in {None, p}
    /\ claim' = Unclaimed(p)
    /\ content' = [content EXCEPT ![path] = [c \in Chunks |-> <<"empty", c>>]]
    /\ flushed' = flushed \ {path}
    /\ touched' = touched \cup {<<p, path>>}
    /\ Go(p, "broken")
    /\ UNCHANGED <<envVars, keyVars, late, job>>

\* check_directory_target, prepare_target, and the facts before the root is
\* pinned.
PrepareDirectory(p) ==
    Decide(p, "dircheck",
           Facts(path) = job[p].facts /\ (Token(p).merge \/ path \notin filled),
           job[p], "root")

\* RestoreRoot::open pins whatever the path names.
PinRoot(p) == Decide(p, "root", TRUE, [job[p] EXCEPT !.fd = path], "pinned")

CheckRoot(p) == Decide(p, "pinned", Facts(path) = Token(p).target, job[p], "write")

-----------------------------------------------------------------------------
(* Writing: write_block_chain, restore_whole_disk, restore_entry and the    *)
(* receive loop.                                                            *)

\* The file chunk c is read from: a stream restore opens it by name again.
ChunkFile(p, c) ==
    IF image.kind = "stream" THEN store[Holder(c)] ELSE job[p].chunks[Holder(c)]

\* open_chunk: the record must have the hash the manifest records.
ChunkReads(p, c) ==
    /\ ChunkFile(p, c) = job[p].opened[Holder(c)]
    /\ <<Holder(c), ChunkFile(p, c)>> \notin damaged

Written(p, c) ==
    CASE Layout[c] = Zero -> <<"zero", c>>
      [] Layout[c] = Unused -> content[job[p].fd][c]
      [] OTHER -> <<"image", Holder(c), ChunkFile(p, c)>>

WriteChunk(p) ==
    LET c == job[p].at
        d == job[p].fd IN
    /\ step[p] = "write"
    /\ c \in Chunks
    /\ Layout[c] >= 1 => ChunkReads(p, c)
    /\ content' = [content EXCEPT ![d][c] = Written(p, c)]
    /\ touched' = touched \cup {<<p, d>>}
    /\ flushed' = flushed \ {d}
    /\ filled' = IF OnDevice THEN filled ELSE filled \cup {d}
    /\ Keep(p, [job[p] EXCEPT !.at = c + 1])
    /\ UNCHANGED <<image, store, damaged, path, mounted, now, events,
                   keyVars, claim, late, step>>

\* MountGuard::drop unmounts what a stream restore mounted, and ignores what umount says.
DropMount(p) ==
    \/ mounted' = mounted
    \/ image.kind = "stream" /\ mounted' = mounted \ {job[p].fd}

WriteChunkFails(p) ==
    /\ step[p] = "write"
    /\ job[p].at \in Chunks
    /\ Layout[job[p].at] >= 1 /\ ~ChunkReads(p, job[p].at)
    /\ DropMount(p)
    /\ Go(p, IF \E d \in Targets : <<p, d>> \in touched THEN "failed" ELSE "refused")
    /\ claim' = Unclaimed(p)
    /\ UNCHANGED <<image, store, damaged, path, filled, now, events,
                   diskVars, keyVars, late, job>>

\* The target itself fails: write_at, receive or a file's metadata, regenerate_gpt, sync or
\* syncfs, or a metadata loss under --strict-metadata.  (A chunk that was partly written
\* counts as written or as not.)
TargetFails(p) ==
    /\ step[p] = "write"
    /\ DropMount(p)
    /\ Go(p, "broken")
    /\ claim' = Unclaimed(p)
    /\ UNCHANGED <<image, store, damaged, path, filled, now, events,
                   diskVars, keyVars, late, job>>

\* target.sync or syncfs; nothing syncs what a stream restore received.
FinishWriting(p) ==
    /\ step[p] = "write"
    /\ job[p].at = Len(Layout) + 1
    /\ flushed' = IF image.kind = "stream" THEN flushed ELSE flushed \cup {job[p].fd}
    /\ DropMount(p)
    /\ claim' = Unclaimed(p)
    /\ Go(p, "ok")
    /\ UNCHANGED <<image, store, damaged, path, filled, now, events,
                   content, touched, keyVars, late, job>>

Cancellable == {"admit", "payload", "retarget", "current", "dircheck",
                "pinned", "write"}

\* check_cancel at the points that call it; Reporter::report in the loop.
Cancelled(p) ==
    /\ step[p] \in Cancellable
    /\ Go(p, IF \E d \in Targets : <<p, d>> \in touched THEN "cancelled" ELSE "refused")
    /\ IF step[p] = "write" THEN DropMount(p) ELSE mounted' = mounted
    /\ claim' = Unclaimed(p)
    /\ UNCHANGED <<image, store, damaged, path, filled, now, events,
                   diskVars, keyVars, late, job>>

Working(p) == step[p] \notin {"boot", "keyless", "idle", "ok", "refused", "failed",
                            "broken", "cancelled", "killed"}

\* The program dies: its descriptors close; what it mounted stays mounted.
Killed(p) ==
    /\ Working(p)
    /\ Go(p, "killed")
    /\ claim' = Unclaimed(p)
    /\ UNCHANGED <<envVars, diskVars, keyVars, late, job>>

-----------------------------------------------------------------------------
(* The rest of the system. *)

others == <<diskVars, keyVars, claim, step, job>>

Verified == {"after", "retarget", "members", "current", "chunks", "mkfs", "dircheck",
             "root", "pinned", "write"}

Tardy == late \cup {p \in Procs : step[p] \in Verified}

Replace(m) ==
    /\ events < MaxEvents
    /\ events' = events + 1
    /\ store' = [store EXCEPT ![m] = 2 + events]
    /\ late' = Tardy
    /\ UNCHANGED <<image, damaged, path, mounted, filled, now, others>>

Damage(m) ==
    /\ events < MaxEvents
    /\ events' = events + 1
    /\ damaged' = damaged \cup {<<m, store[m]>>}
    /\ late' = Tardy
    /\ UNCHANGED <<image, store, path, mounted, filled, now, others>>

Swap(d) ==
    /\ events < MaxEvents
    /\ d # path
    /\ events' = events + 1
    /\ path' = d
    /\ UNCHANGED <<image, store, damaged, mounted, filled, now, others, late>>

\* mount(2) claims the device; an exclusive open excludes it.
Mount(d) ==
    /\ OnDevice /\ events < MaxEvents
    /\ ExclusiveOpens(d)
    /\ events' = events + 1
    /\ mounted' = mounted \cup {d}
    /\ UNCHANGED <<image, store, damaged, path, filled, now, others, late>>

Fill(d) ==
    /\ ~OnDevice /\ events < MaxEvents
    /\ events' = events + 1
    /\ filled' = filled \cup {d}
    /\ UNCHANGED <<image, store, damaged, path, mounted, now, others, late>>

Tick ==
    /\ now < MaxTime
    /\ now' = now + 1
    /\ UNCHANGED <<image, store, damaged, path, mounted, filled, events,
                   others, late>>

Environment ==
    \/ \E m \in Members : Replace(m) \/ Damage(m)
    \/ \E d \in Targets : Swap(d) \/ Mount(d) \/ Fill(d)
    \/ Tick

Prepares(p) ==
    \/ LoadKey(p) \/ PersistKey(p)
    \/ \E u \in TokenUsers, merge \in BOOLEAN : Prepare(p, u, merge)
    \/ \E t \in Presented, u \in TokenUsers, a \in BOOLEAN : Begin(p, t, u, TRUE, a)
    \/ \E t \in Presented, c \in BOOLEAN : BeginRefused(p, t, c)

Applies(p) ==
    \/ OpenImage(p) \/ Claim(p) \/ CheckFacts(p) \/ CheckDirectory(p)
    \/ Admit(p) \/ Redeem(p) \/ RedeemRefused(p)
    \/ Reopen(p) \/ StartDirectory(p)
    \/ IdentitiesBefore(p) \/ VerifyPayloads(p) \/ IdentitiesAfter(p)
    \/ Retarget(p) \/ OpenMembers(p) \/ ValidateOpened(p) \/ OpenChunks(p)
    \/ MakeFilesystem(p) \/ MakeFilesystemFails(p) \/ MakeFilesystemBreaks(p)
    \/ PrepareDirectory(p) \/ PinRoot(p) \/ CheckRoot(p)
    \/ WriteChunk(p) \/ WriteChunkFails(p) \/ TargetFails(p) \/ FinishWriting(p)

RestoreNext ==
    \/ Environment
    \/ \E p \in Procs : Prepares(p) \/ Applies(p) \/ Cancelled(p) \/ Killed(p)

RestoreSpec == RestoreInit /\ [][RestoreNext]_restoreVars

-----------------------------------------------------------------------------
(* Properties. *)

\* Three kinds of error: "refused" before the first write, then "failed" when the image does
\* not read and "broken" when the target fails.
Ended == {"ok", "refused", "failed", "broken", "cancelled", "killed"}

\* secret_file::load: whatever the order in which programs start without a
\* key, they all sign and check tokens with the key that token.key holds.
KeysAgree == \A p \in Procs : secret[p] # None => secret[p] = keyfile

\* Two admissions of one token, both while it is valid, cannot happen: the
\* exclusive record of the first is still there for the second.
AdmittedOnceWhileValid ==
    \A a, b \in admitted :
        /\ a.token = b.token
        /\ a.at <= a.token.expires /\ b.at <= b.token.expires
        => a = b

\* "Two applies of one token cannot both write" (RestoreToken::redeem).
TokenWritesOnce ==
    \A a, b \in admitted :
        (a.token = b.token /\ a.proc # b.proc)
            => ~(\E d, e \in Targets : <<a.proc, d>> \in touched /\ <<b.proc, e>> \in touched)

\* Only the user who prepared a restore can have it written, only to the
\* target that was prepared, whatever the path names by then.  (A stream
\* restore leaves its target to mkfs.btrfs by path and is not covered.  A file
\* restore pins its root between two looks at the path, and is led astray only
\* by a path that is changed and changed back in between.)
OnlyThePreparedTarget ==
    \A p \in Procs, d \in Targets :
        (<<p, d>> \in touched /\ image.kind # "stream") =>
            \E a \in admitted :
                /\ a.proc = p /\ a.token.uid = job[p].user
                /\ a.token.target[1] = d \/ (image.kind = "file" /\ events >= 2)

\* From its claim to its last write no block or whole-disk restore shares its
\* device with a mounted file system or with another restore.
WritesAreExclusive ==
    \A p \in Procs :
        (step[p] = "write" /\ image.kind \in {"block", "disk"}) =>
            claim[job[p].fd] = p /\ job[p].fd \notin mounted

\* What a restore puts on a target comes from the members the token binds.
OnlyTheBoundImage ==
    \A d \in Targets, c \in Chunks :
        content[d][c][1] = "image" =>
            \E t \in tokens : t.members[content[d][c][2]] = content[d][c][3]

\* A restore whose image fails it after the first write read a member that was
\* damaged or replaced after it had been verified: what was wrong with the image
\* before the verification leaves the target as it was.
FailsOnlyOnLateChange == \A p \in Procs : step[p] = "failed" => p \in late

\* A device restore that reports success has put every chunk of the bound
\* members on the device, and a block or whole-disk restore has flushed it.  (A
\* stream restore promises no more than that btrfs receive took every section.)
Whole(p) ==
    /\ image.kind # "stream" => job[p].fd \in flushed'
    /\ \A c \in Chunks : Layout[c] >= 1 =>
         content'[job[p].fd][c] = <<"image", Holder(c), Token(p).members[Holder(c)]>>
SucceedsWhole ==
    \A p \in Procs : (step[p] # "ok" /\ step'[p] = "ok" /\ OnDevice) => Whole(p)

\* A restore writes only what was agreed: a token is admitted once while it is
\* valid, for the user and the target it was prepared for, and what reaches the
\* target comes from the members it binds; all programs use one key.
OnlyTheAgreedIsWritten ==
    KeysAgree /\ AdmittedOnceWhileValid /\ OnlyThePreparedTarget /\ OnlyTheBoundImage

\* A restore is whole or refused: its device is its own while it writes; after
\* the first write it fails over its image only when that changed after the
\* verification; and success means that every chunk is there, none of its writes
\* and syncs having failed.
RestoreIsWholeOrRefused ==
    /\ [](WritesAreExclusive /\ FailsOnlyOnLateChange)
    /\ [][SucceedsWhole]_restoreVars
=============================================================================
