----------------------------- MODULE Destinations -----------------------------
(***************************************************************************)
(* Opening a destination and working in it (crates/lr-store/src/lib.rs     *)
(* `open`, uri.rs, named.rs, mount_policy.rs, known_hosts.rs, and the      *)
(* connection of sftp.rs).                                                 *)
(*                                                                         *)
(* A named destination may carry a required mount.  Every operation on a   *)
(* local destination then compares what is mounted at its path with that   *)
(* policy: it resolves both paths, opens the nearest existing directory of *)
(* each, takes the mount ID of the descriptor, and looks the IDs up in a   *)
(* mount table it reads a moment later.  Symlinks are turned and mounts    *)
(* come, go and cover each other at any time, and the kernel gives the     *)
(* number of a mount to another one once the first is gone and no          *)
(* descriptor keeps it.                                                    *)
(*                                                                         *)
(* An SFTP destination has one session of its own: it connects once when   *)
(* it is opened, and again, as often as `run_with` allows, when an         *)
(* operation finds no session.  The server stops, comes back, refuses what *)
(* it is asked, and presents the key it likes.                             *)
(***************************************************************************)
EXTENDS Naturals, Sequences, FiniteSets, FiniteSetsExt, SequencesExt

CONSTANTS Entry,         \* registry entries an administrator may store
          Uri,           \* destinations callers pass, "@nas" among them
          Op,            \* operations callers ask of an open destination
          KnownHosts,    \* known_hosts files: sequences of lines
          Login,         \* ssh-agent and identity file: what they lead to
          Key,           \* keys a server may present
          RetryAttempts, \* attempts of `run_with`
          MaxMounts      \* bound on mounts in the table

\* RETRY_ATTEMPTS is 5.
ASSUME DestinationsAssumption ==
  /\ RetryAttempts \in Nat /\ RetryAttempts > 1
  /\ MaxMounts \in Nat
  /\ Entry \subseteq [scheme : STRING, path : Seq(STRING), guard : BOOLEAN,
                      policyOk : BOOLEAN, wellFormed : BOOLEAN]
  /\ \A u \in Uri : u.path \in Seq(STRING)

VARIABLES registry,  \* what "@nas" is: an entry, or NoEntry
          mounts,    \* the mount table, oldest mount first
          link,      \* where the name <<"l">> leads: a symlink, or the name itself
          pins,      \* mount IDs an observation's descriptors keep
          call,      \* the destination the caller passed to `open`, with its options
          dest,      \* what `open` made of it
          at,        \* how far the opening or the operation is
          op,        \* the operation that runs on the open destination
          reqPath, destPath,  \* what the two paths of the check resolved to
          seenReq, seenDest,  \* the mount IDs it observed
          seenMount, \* the mount its descriptor really is on
          sshd,      \* the server: "up" or "down"
          sess,      \* the destination's session: "none", "live" or "dead"
          srvKey,    \* how the server behind the session was identified
          tries,     \* attempts made by run_with
          steady     \* the server answered, let the client in and granted what it
                     \* was asked throughout this operation: history only

sighted == <<reqPath, destPath, seenReq, seenDest, seenMount>>
local == <<mounts, link, pins, sighted>>
remote == <<sshd, sess, srvKey, tries, steady>>
destVars == <<registry, mounts, link, pins, call, dest, at, op, reqPath, destPath, seenReq,
              seenDest, seenMount, sshd, sess, srvKey, tries, steady>>

NoEntry == [scheme |-> "none"]
NoMount == [id |-> 0, target |-> <<>>, root |-> TRUE, fs |-> "none"]
NoDest == [scheme |-> "none"]
NoCall == [scheme |-> "none", insecure |-> FALSE]
NoKey == [key |-> "none", file |-> <<>>]

-----------------------------------------------------------------------------
(***************************************************************************)
(* Names and URIs.                                                         *)
(***************************************************************************)
\* `uri::parse`: a path and file:// are local; sftp:// needs a host and a
\* path, takes no password and a port in range; every other scheme is refused.
Parsed(u) ==
  IF u.scheme = "local" \/ (u.scheme = "sftp" /\ u.wellFormed) THEN u ELSE NoDest

\* `named::validate`: the name keeps to the grammar, the URI parses and names no
\* other entry, the key files are absolute paths (wellFormed), a guard is set for
\* a local destination only, and names an absolute path, a source and a type
\* (policyOk).
Valid(e) ==
  /\ e # NoEntry
  /\ e.wellFormed /\ Parsed(e) # NoDest
  /\ e.guard => e.scheme = "local" /\ e.policyOk

\* Mutant: a name keeps the caller's permission to skip the host key.
ResolvedWithFlag(u) ==
  IF u.scheme = "@nas"
    THEN IF u.setOk /\ Valid(registry)
           THEN [scheme |-> registry.scheme, path |-> registry.path,
                 guard |-> registry.guard, insecure |-> u.insecure]
           ELSE NoDest
    ELSE IF ~ u.setOk \/ Parsed(u) = NoDest THEN NoDest
         ELSE [scheme |-> u.scheme, path |-> u.path, guard |-> FALSE,
               insecure |-> u.insecure]

\* `resolve_with_policy`: a name brings its own key files and policy, and never
\* the caller's permission to skip the host key.  `open` also refuses a set name
\* outside the grammar.
Resolved(u) ==
  IF u.scheme = "@nas"
    THEN IF u.setOk /\ Valid(registry)
           THEN [scheme |-> registry.scheme, path |-> registry.path,
                 guard |-> registry.guard, insecure |-> FALSE]
           ELSE NoDest
    ELSE IF ~ u.setOk \/ Parsed(u) = NoDest THEN NoDest
         ELSE [scheme |-> u.scheme, path |-> u.path, guard |-> FALSE,
               insecure |-> u.insecure]

\* `upsert` and `save`: an update that says nothing of a guard keeps the old one.
SetDestination(e) ==
  /\ LET kept == IF e.guard \/ registry = NoEntry THEN e
                 ELSE [e EXCEPT !.guard = registry.guard, !.policyOk = registry.policyOk]
     IN  Valid(kept) /\ registry' = kept
  /\ UNCHANGED <<call, dest, at, op, local, remote>>

RemoveDestination ==
  /\ registry # NoEntry
  /\ registry' = NoEntry
  /\ UNCHANGED <<call, dest, at, op, local, remote>>

\* The operations an SFTP destination sends through `run`, and those it sends
\* through `once`.  The rest hold what they open, and use the session as it is.
RepeatedOp == {"open_set", "open_existing_set", "list", "list_set_names", "delete",
               "size", "sync", "remove"}
OnceOp == {"rename", "rename_over"}

\* `lr_store::open`: an SFTP destination connects at once, a local one does not
\* look at its directory yet.
Open(u) ==
  /\ at = "idle"
  /\ call' = u
  /\ dest' = Resolved(u)
  /\ at' = IF dest' = NoDest THEN "not open"
           ELSE IF dest'.scheme = "sftp" THEN "opening" ELSE "ready"
  /\ UNCHANGED <<registry, op, local, remote>>

\* The owner of the destination starts an operation on it.
BeginOp(o) ==
  /\ at = "ready"
  /\ op' = o
  /\ at' = IF dest.scheme = "sftp" THEN "connect"
           ELSE IF dest.guard THEN "check path" ELSE "accepted"
  /\ tries' = 0
  /\ steady' = (sshd = "up")
  /\ UNCHANGED <<registry, call, dest, local, sshd, sess, srvKey>>

\* The operation returns to its caller.
Return ==
  /\ at \in {"accepted", "refused"}
  /\ at' = "ready"
  /\ op' = "none"
  /\ reqPath' = <<>> /\ destPath' = <<>>
  /\ seenReq' = 0 /\ seenDest' = 0 /\ seenMount' = NoMount
  /\ tries' = 0
  /\ UNCHANGED <<registry, call, dest, mounts, link, pins, sshd, sess, srvKey, steady>>

\* The last owner drops the destination, and its session with it.
Close ==
  /\ at \in {"ready", "not open"}
  /\ at' = "idle"
  /\ call' = NoCall /\ dest' = NoDest
  /\ sess' = "none" /\ srvKey' = NoKey
  /\ UNCHANGED <<registry, op, local, sshd, tries, steady>>

-----------------------------------------------------------------------------
(***************************************************************************)
(* The required mount.  The policy is a whole share, mounted at a path     *)
(* that the administrator reaches through a symlink.                       *)
(***************************************************************************)
Required == <<"l">>
Share == "share"

\* `canonicalize`: the kernel follows the symlink a path leads through.
Canonical(path) ==
  IF path # <<>> /\ Head(path) = "l" THEN link \o Tail(path) ELSE path

Covers(m, path) == IsPrefix(m.target, path)
MountSet == Range(mounts)

\* The mount a path is on: of all that cover it, the one mounted last.
Visible(path) == mounts[Max({k \in DOMAIN mounts : Covers(mounts[k], path)})]

Ids == {m.id : m \in MountSet} \cup pins
FreeId == Min((1 .. MaxMounts + 2) \ Ids)

\* Somebody mounts a file system, or a part of one (root = FALSE), somewhere.
Mount(target, fs, root) ==
  /\ Len(mounts) < MaxMounts
  /\ mounts' = Append(mounts, [id |-> FreeId, target |-> target, root |-> root, fs |-> fs])
  /\ UNCHANGED <<registry, call, dest, at, op, link, pins, sighted, remote>>

\* Somebody unmounts, lazily when it is in use, a mount nothing is mounted on.
Umount(k) ==
  /\ k \in 2 .. Len(mounts)
  /\ \A j \in k + 1 .. Len(mounts) : ~ IsPrefix(mounts[k].target, mounts[j].target)
  /\ mounts' = RemoveAt(mounts, k)
  /\ UNCHANGED <<registry, call, dest, at, op, link, pins, sighted, remote>>

\* Somebody turns the symlink, or puts a directory in its place.
Relink(to) ==
  /\ link' = to
  /\ UNCHANGED <<registry, call, dest, at, op, mounts, pins, sighted, remote>>

\* `validate_destination_path`: a path that leads through its parent means one
\* thing to `resolve_existing_prefix` and another to the kernel.
CheckPath ==
  /\ at = "check path"
  /\ at' = IF ".." \in Range(dest.path) THEN "refused" ELSE "resolve required"
  /\ UNCHANGED <<registry, call, dest, op, local, remote>>

\* `resolve_existing_prefix` of the required path, then of the destination's.
ResolveRequired ==
  /\ at = "resolve required"
  /\ at' = "resolve destination"
  /\ reqPath' = Canonical(Required)
  /\ UNCHANGED <<registry, call, dest, op, mounts, link, pins, destPath, seenReq, seenDest,
                 seenMount, remote>>

ResolveDestination ==
  /\ at = "resolve destination"
  /\ at' = "observe required"
  /\ destPath' = Canonical(dest.path)
  /\ UNCHANGED <<registry, call, dest, op, mounts, link, pins, reqPath, seenReq, seenDest,
                 seenMount, remote>>

\* `visible_mount` of the required path; the descriptor stays open.
ObserveRequired ==
  /\ at = "observe required"
  /\ at' = "observe destination"
  /\ seenReq' = Visible(reqPath).id
  /\ pins' = pins \cup {seenReq'}
  /\ UNCHANGED <<registry, call, dest, op, mounts, link, reqPath, destPath, seenDest, seenMount,
                 remote>>

\* Mutant: the descriptor is dropped as soon as its mount ID is known.
ObserveUnpinned ==
  /\ at = "observe destination"
  /\ at' = "judge"
  /\ seenMount' = Visible(destPath)
  /\ seenDest' = seenMount'.id
  /\ pins' = {}
  /\ UNCHANGED <<registry, call, dest, op, mounts, link, reqPath, destPath, seenReq, remote>>

\* `visible_mount` of the destination.
ObserveDestination ==
  /\ at = "observe destination"
  /\ at' = "judge"
  /\ seenMount' = Visible(destPath)
  /\ seenDest' = seenMount'.id
  /\ pins' = pins \cup {seenDest'}
  /\ UNCHANGED <<registry, call, dest, op, mounts, link, reqPath, destPath, seenReq, remote>>

Expected(m) == m.fs = Share

\* `check_mountinfo`: the visible record at the required path is the whole
\* share, and the deepest record over the destination is the same mount.
CheckMountinfo ==
  /\ IsPrefix(reqPath, destPath)
  /\ \E r \in MountSet :
       /\ r.target = reqPath /\ r.id = seenReq
       /\ r.root /\ Expected(r)
       /\ LET over == {m \in MountSet : Covers(m, destPath)}
              deepest == Max({Len(m.target) : m \in over})
          IN  \E c \in over : /\ Len(c.target) = deepest
                              /\ c.id = seenDest
                              /\ c.id = r.id
                              /\ Expected(c)

\* The table is read and judged; only then are the descriptors closed.
Judge ==
  /\ at = "judge"
  /\ at' = IF CheckMountinfo THEN "accepted" ELSE "refused"
  /\ pins' = {}
  /\ UNCHANGED <<registry, call, dest, op, mounts, link, sighted, remote>>

-----------------------------------------------------------------------------
(***************************************************************************)
(* Connecting.                                                             *)
(***************************************************************************)
\* `Entry::matches`: a line applies through a positive pattern, unless a
\* negated one excludes the host.
Applies(line, key) == line.key = key /\ line.host /\ ~ line.excluded

\* `HostKeyVerifier::verify`: one revocation outweighs every trusting line, and
\* a certificate authority trusts no plain key.
Verify(file, key) ==
  /\ \E i \in DOMAIN file : Applies(file[i], key) /\ file[i].marker = "none"
  /\ ~ \E i \in DOMAIN file : Applies(file[i], key) /\ file[i].marker = "revoked"

\* `HostKeyVerifier::load` and `parse`: an unknown marker makes the file unusable.
Loadable(file) == \A i \in DOMAIN file : file[i].marker # "unknown"

\* `check_server_key`
TrustsServer(file, key) == dest.insecure \/ (Loadable(file) /\ Verify(file, key))

\* `authenticate`: the agent's keys first; an agent that fails half-way ends
\* the attempt, one that cannot be reached or has no accepted key does not.
Authenticates(login) ==
  \/ login.agent = "accepted"
  \/ login.agent \in {"absent", "unreachable", "refused"} /\ login.identity = "accepted"

\* `check_identity_permissions`: the identity file, if there is one, is the user's alone.
IdentityIsPrivate(login) == login.identity = "none" \/ login.private

\* `connect_async` succeeds: handshake with a trusted key, login, sessions.  When
\* the destination is being opened the identity file must be private as well.
Connect(file, login, key) ==
  /\ at \in {"opening", "connect"} /\ sess = "none" /\ tries < RetryAttempts
  /\ at = "opening" => IdentityIsPrivate(login)
  /\ sshd = "up"
  /\ TrustsServer(file, key) /\ Authenticates(login)
  /\ sess' = "live"
  /\ srvKey' = [key |-> key, file |-> file]
  /\ at' = IF at = "opening" THEN "ready" ELSE "send"
  /\ UNCHANGED <<registry, call, dest, op, local, sshd, tries, steady>>

\* It fails: no server, no trusted key, no accepted login, no subsystem.  Opening
\* connects once, `run_with` tries again, and the other operations do not.
ConnectFails ==
  /\ at \in {"opening", "connect"} /\ sess = "none" /\ tries < RetryAttempts
  /\ tries' = IF at = "opening" THEN tries ELSE tries + 1
  /\ at' = CASE at = "opening" -> "not open"
             [] at = "connect" /\ op \in RepeatedOp -> "connect"
             [] OTHER -> "refused"
  /\ steady' = FALSE
  /\ UNCHANGED <<registry, call, dest, op, local, sshd, sess, srvKey>>

\* `connection` finds the session, dead or alive.
Reuse ==
  /\ at = "connect" /\ sess # "none" /\ tries < RetryAttempts
  /\ at' = "send"
  /\ UNCHANGED <<registry, call, dest, op, local, remote>>

GiveUp ==
  /\ at = "connect" /\ tries = RetryAttempts
  /\ at' = "refused"
  /\ UNCHANGED <<registry, call, dest, op, local, remote>>

Send ==
  /\ at = "send" /\ sess = "live"
  /\ at' = "accepted"
  /\ UNCHANGED <<registry, call, dest, op, local, remote>>

\* The server answers that it will not: no such file, no permission.  That ends
\* `run_with` at the first attempt, and the session is kept.
SendDenied ==
  /\ at = "send" /\ sess = "live"
  /\ at' = "refused"
  /\ steady' = FALSE
  /\ UNCHANGED <<registry, call, dest, op, local, sshd, sess, srvKey, tries>>

\* Mutant: a failed attempt does not drop the session it failed on.
SendFailsKeeping ==
  /\ at = "send"
  /\ tries' = tries + 1
  /\ at' = IF op \in RepeatedOp /\ tries' < RetryAttempts THEN "connect" ELSE "refused"
  /\ steady' = (steady /\ sess = "dead")
  /\ UNCHANGED <<registry, call, dest, op, local, sshd, sess, srvKey>>

\* A transient failure: a dead session, or an answer that does not come in time.
\* `run_with` drops the session and goes on, except after the last attempt;
\* `once` drops it and ends; any other operation leaves it as it is.
SendFails ==
  /\ at = "send"
  /\ tries' = tries + 1
  /\ LET again == op \in RepeatedOp /\ tries' < RetryAttempts
     IN  /\ at' = IF again THEN "connect" ELSE "refused"
         /\ sess' = IF again \/ op \in OnceOp THEN "none" ELSE sess
  /\ steady' = (steady /\ sess = "dead")
  /\ UNCHANGED <<registry, call, dest, op, local, sshd, srvKey>>

\* The server goes away, with every session it has, and comes back.
ServerStops ==
  /\ sshd = "up"
  /\ sshd' = "down"
  /\ sess' = IF sess = "live" THEN "dead" ELSE sess
  /\ steady' = FALSE
  /\ UNCHANGED <<registry, call, dest, at, op, local, srvKey, tries>>

ServerStarts ==
  /\ sshd = "down"
  /\ sshd' = "up"
  /\ UNCHANGED <<registry, call, dest, at, op, local, sess, srvKey, tries, steady>>

-----------------------------------------------------------------------------
DestInit ==
  /\ registry \in Entry \cup {NoEntry}
  /\ mounts = <<[id |-> 1, target |-> <<>>, root |-> TRUE, fs |-> "disk"]>>
  /\ link = <<"m">>
  /\ pins = {}
  /\ call = NoCall
  /\ at = "idle"
  /\ op = "none"
  /\ dest = NoDest
  /\ reqPath = <<>> /\ destPath = <<>>
  /\ seenReq = 0 /\ seenDest = 0
  /\ seenMount = NoMount
  /\ sshd = "up"
  /\ sess = "none"
  /\ srvKey = NoKey
  /\ tries = 0
  /\ steady = TRUE

Admin == (\E e \in Entry : SetDestination(e)) \/ RemoveDestination

Mounts ==
  \/ \E t \in {<<"m">>, <<"m", "s">>}, fs \in {Share, "other"}, r \in BOOLEAN : Mount(t, fs, r)
  \/ \E k \in 2 .. MaxMounts : Umount(k)
  \/ \E to \in {<<"l">>, <<"m">>} : Relink(to)

CheckMount ==
  CheckPath \/ ResolveRequired \/ ResolveDestination \/ ObserveRequired \/ ObserveDestination
    \/ Judge

Session ==
  \/ \E f \in KnownHosts, l \in Login, k \in Key : Connect(f, l, k)
  \/ ConnectFails \/ Reuse \/ GiveUp \/ Send \/ SendDenied \/ SendFails
  \/ ServerStops \/ ServerStarts

Operations ==
  Admin \/ (\E u \in Uri : Open(u)) \/ (\E o \in Op : BeginOp(o)) \/ Return \/ Close

NextLocal == Operations \/ CheckMount \/ Mounts

NextRemote == Operations \/ Session

DestNext == NextLocal \/ NextRemote

DestSpec == DestInit /\ [][DestNext]_destVars

-----------------------------------------------------------------------------
(***************************************************************************)
(* Properties.                                                             *)
(***************************************************************************)
\* A guarded operation goes ahead only when the directory it observed is on
\* the share, whole, mounted where the required path led, and not on a nested,
\* covering or bind mount, even when mounts and symlinks change between the
\* resolution of the paths, the observation and the reading of the mount table:
\* the open descriptors keep the observed mount's ID from being given away.
AcceptedIsTheShare ==
  (at = "accepted" /\ dest.scheme = "local" /\ dest.guard)
    => seenMount.fs = Share /\ seenMount.root /\ seenMount.target = reqPath

\* There is no session with a server whose key `known_hosts` does not list for
\* the host, or lists as revoked anywhere in the file.  Only a caller that wrote
\* the server's URI itself can waive that: one that names a configured
\* destination cannot, whatever it asks for.
KeyIsKnown ==
  (sess # "none" /\ ~ (call.scheme = "sftp" /\ call.insecure))
    => LET of == {i \in DOMAIN srvKey.file : /\ srvKey.file[i].key = srvKey.key
                                             /\ srvKey.file[i].host
                                             /\ ~ srvKey.file[i].excluded}
           marks == {srvKey.file[i].marker : i \in of}
       IN  "none" \in marks /\ "revoked" \notin marks

\* An operation that may be repeated fails only when, while it ran, the server
\* stopped or did not answer, did not let the client in, or denied what it was
\* asked: a session that died before costs one attempt, whichever operation left
\* it behind.
RepeatedCallSucceeds ==
  (at = "refused" /\ dest.scheme = "sftp" /\ op \in RepeatedOp) => ~ steady

\* An operation works on the destination it was given: a guarded one goes
\* ahead only on the share itself, a named one has no session with a server whose
\* key is unknown or revoked, and one that may be repeated succeeds while the
\* server answers and grants it, also when the session it finds is dead.
DestinationIsTheOneMeant == AcceptedIsTheShare /\ KeyIsKnown /\ RepeatedCallSucceeds
===============================================================================
