------------------------------- MODULE Startup -------------------------------
(* Start of the daemon: the verification policy file, the authorisation     *)
(* backend, and the socket with the access its directory and mode give.     *)
(*                                                                          *)
(* Access is abstracted to three kinds of user: root, a member of the       *)
(* socket group, and a stranger; permission bits to those of the group and  *)
(* of others.                                                               *)
EXTENDS Naturals, FiniteSets

CONSTANTS
    Daemons,    \* processes started on the same socket path
    Options,    \* options of the service: all its daemons have the same
    MaxEdits    \* bound on the edits of the policy file

ASSUME StartupAssumption == MaxEdits \in Nat /\ Daemons \cap {"none", "dead"} = {}

Users == {"root", "member", "stranger"}
NoOwner == "none"

VARIABLES
    dir,        \* socket directory: [bits, gid]
    sock,       \* socket file: [owner, bits, gid]; owner NoOwner when there is none
    groupMade,  \* the socket group exists
    policy,     \* policy file: [ancestors, private, limits, directories, version, changed]
    edits,
    opts, pc,
    unclosed,   \* daemons that could not set the directory's mode
    read        \* daemon -> what it read of the policy: [before, versions]

startupVars == <<dir, unclosed, sock, groupMade, policy, edits, opts, pc, read>>

NoSocket == [owner |-> NoOwner, bits |-> {}, gid |-> "root"]
Stale == [owner |-> "dead", bits |-> {}, gid |-> "root"]
Unread == [before |-> 0, versions |-> {}]

StartupInit ==
    /\ dir \in [bits : SUBSET {"group", "other"}, gid : {"root", "lr"}]
    /\ unclosed = {} /\ sock \in {NoSocket, Stale}
    /\ groupMade \in BOOLEAN
    /\ policy \in [ancestors : BOOLEAN, private : BOOLEAN, limits : BOOLEAN,
                   directories : BOOLEAN, version : {1}, changed : {1}]
    /\ edits = 0
    /\ \E o \in Options : opts = [d \in Daemons |-> o]
    /\ pc = [d \in Daemons |-> "start"] /\ read = [d \in Daemons |-> Unread]

Advance(d, here, there) == pc[d] = here /\ pc' = [pc EXCEPT ![d] = there]
Fail(d, here) ==
    /\ Advance(d, here, "failed")
    /\ UNCHANGED <<dir, unclosed, sock, groupMade, policy, edits, opts, read>>
------------------------------------------------------------------------------
(* The policy file.                                                         *)

\* Owned by root or the daemon, and writable by nobody else.
TrustedAncestor == policy.ancestors

\* Owner, mode, links and ancestors are those of a private file.
OpenPolicyFile == TrustedAncestor /\ policy.private

\* Arguments are parsed; without a policy file the step is skipped.
OpenPolicy(d) ==
    \/ /\ opts[d].policy /\ OpenPolicyFile /\ Advance(d, "start", "read")
       /\ read' = [read EXCEPT ![d].before = policy.changed]
       /\ UNCHANGED <<dir, unclosed, sock, groupMade, policy, edits, opts>>
    \/ opts[d].policy /\ ~OpenPolicyFile /\ Fail(d, "start")
    \/ /\ ~opts[d].policy /\ Advance(d, "start", "auth")
       /\ UNCHANGED <<dir, unclosed, sock, groupMade, policy, edits, opts, read>>

\* read_to_end takes several calls, which may see different contents.
ReadPolicy(d) ==
    /\ Cardinality(read[d].versions) < 2
    /\ Advance(d, "read", "read")
    /\ read' = [read EXCEPT ![d].versions = @ \cup {policy.version}]
    /\ UNCHANGED <<dir, unclosed, sock, groupMade, policy, edits, opts>>

\* The file is still private and nothing about it changed.
SamePolicyFile(before) == policy.private /\ policy.changed = before

\* The scratch and history directories are private ones below trusted ancestors.
ValidateDirectory == policy.directories

\* load_inner: one version, with sensible limits and usable directories.
AcceptPolicy(d) ==
    /\ read[d].versions # {}
    /\ LET good == SamePolicyFile(read[d].before) /\ policy.limits /\ ValidateDirectory
       IN  \/ /\ good /\ Advance(d, "read", "auth")
              /\ UNCHANGED <<dir, unclosed, sock, groupMade, policy, edits, opts, read>>
           \/ ~good /\ Fail(d, "read")

EditPolicy ==
    /\ edits < MaxEdits /\ edits' = edits + 1
    /\ policy' = [[policy EXCEPT !.version = @ + 1] EXCEPT !.changed = @ + 1]
    /\ UNCHANGED <<dir, unclosed, sock, groupMade, opts, pc, read>>
------------------------------------------------------------------------------
(* The authorisation backend.                                               *)

\* A static list needs development mode and at least one uid.
StaticBackend(o) == o.dev /\ o.uids

BuildAuth(d) ==
    \/ /\ opts[d].auth = "static" => StaticBackend(opts[d])
       /\ opts[d].auth \in {"static", "polkit"}
       /\ Advance(d, "auth", "group")
       /\ UNCHANGED <<dir, unclosed, sock, groupMade, policy, edits, opts, read>>
    \/ /\ \/ opts[d].auth = "static" /\ ~StaticBackend(opts[d])
          \/ opts[d].auth = "other"
       /\ Fail(d, "auth")
------------------------------------------------------------------------------
(* The socket.                                                              *)

GroupId(d) == opts[d].group /\ groupMade
\* The group is looked up, and made when that is allowed; groupadd may fail.
ResolveGroup(d) ==
    /\ Advance(d, "group", "directory")
    /\ groupMade' \in IF opts[d].group /\ opts[d].create THEN {groupMade, TRUE} ELSE {groupMade}
    /\ UNCHANGED <<dir, unclosed, sock, policy, edits, opts, read>>

SocketBits(o, hasGroup) ==
    CASE o.mode # "default" -> IF o.mode = "all" THEN {"group", "other"} ELSE {}
      [] o.mode = "default" /\ hasGroup -> {"group"}
      [] OTHER -> {}

\* Mutation: the directory is left as open as it was.
DirectoryAccessAsFound(o, hasGroup) == dir.bits

\* The directory follows the socket's mode.
DirectoryAccess(o, hasGroup) ==
    LET bits == SocketBits(o, hasGroup)
    IN  CASE "other" \in bits -> {"group", "other"}
          [] bits = {"group"} -> {"group"}
          [] OTHER -> {}

\* Before the socket exists, its directory gets its mode; a failure to set it is ignored.
ChmodDirectory(d) ==
    /\ Advance(d, "directory", "chown_directory")
    /\ \/ /\ dir' = [dir EXCEPT !.bits = DirectoryAccess(opts[d], GroupId(d))]
          /\ unclosed' = unclosed
       \/ dir' = dir /\ unclosed' = unclosed \cup {d}
    /\ UNCHANGED <<sock, groupMade, policy, edits, opts, read>>

\* Then its group, if that works; with a socket from systemd this is all there is to do.
ChownDirectory(d) ==
    /\ \/ opts[d].inherited /\ Advance(d, "chown_directory", "ready")
       \/ ~opts[d].inherited /\ Advance(d, "chown_directory", "probe")
    /\ \/ dir' = dir
       \/ GroupId(d) /\ dir' = [dir EXCEPT !.gid = "lr"]
    /\ UNCHANGED <<unclosed, sock, groupMade, policy, edits, opts, read>>

\* A socket that answers belongs to another daemon; one that does not is stale.
Probe(d) ==
    \/ /\ sock.owner \in Daemons /\ Fail(d, "probe")
    \/ /\ sock.owner = "dead" /\ Advance(d, "probe", "unlink")
       /\ UNCHANGED <<dir, unclosed, sock, groupMade, policy, edits, opts, read>>
    \/ /\ sock.owner = NoOwner /\ Advance(d, "probe", "bind")
       /\ UNCHANGED <<dir, unclosed, sock, groupMade, policy, edits, opts, read>>

RemoveStale(d) ==
    /\ Advance(d, "unlink", "bind")
    /\ sock' = NoSocket
    /\ UNCHANGED <<dir, unclosed, groupMade, policy, edits, opts, read>>

\* bind gives the socket what the umask leaves; an existing path fails it.
Bind(d) ==
    \/ /\ sock.owner = NoOwner /\ Advance(d, "bind", "chown")
       /\ \E bits \in {{}, {"group", "other"}} :
             sock' = [owner |-> d, bits |-> bits, gid |-> "root"]
       /\ UNCHANGED <<dir, unclosed, groupMade, policy, edits, opts, read>>
    \/ sock.owner # NoOwner /\ Fail(d, "bind")

\* The group is set unless the mode was given; a failure keeps it to root.
\* Both calls name the path, and reach whichever socket is there by now.
ChownSocket(d) ==
    /\ \/ /\ opts[d].mode = "default" /\ GroupId(d) /\ sock.owner # NoOwner
          /\ Advance(d, "chown", "chmod_group") /\ sock' = [sock EXCEPT !.gid = "lr"]
       \/ Advance(d, "chown", "chmod") /\ sock' = sock
    /\ UNCHANGED <<dir, unclosed, groupMade, policy, edits, opts, read>>

ChmodSocket(d) ==
    \/ /\ sock.owner # NoOwner
       /\ \/ Advance(d, "chmod_group", "ready") /\ sock' = [sock EXCEPT !.bits = {"group"}]
          \/ Advance(d, "chmod", "ready") /\ sock' = [sock EXCEPT !.bits = SocketBits(opts[d], FALSE)]
       /\ UNCHANGED <<dir, unclosed, groupMade, policy, edits, opts, read>>
    \/ sock.owner = NoOwner /\ (Fail(d, "chmod_group") \/ Fail(d, "chmod"))

\* A daemon that ends, also because its socket's mode cannot be set, leaves its socket file.
Die(d) ==
    /\ pc[d] \in {"chown", "chmod_group", "chmod", "ready"}
    /\ pc' = [pc EXCEPT ![d] = "failed"]
    /\ sock' = IF sock.owner = d THEN [sock EXCEPT !.owner = "dead"] ELSE sock
    /\ UNCHANGED <<dir, unclosed, groupMade, policy, edits, opts, read>>

StartupNext ==
    \/ \E d \in Daemons :
          \/ OpenPolicy(d) \/ ReadPolicy(d) \/ AcceptPolicy(d) \/ BuildAuth(d)
          \/ ResolveGroup(d) \/ ChmodDirectory(d) \/ ChownDirectory(d) \/ Probe(d) \/ RemoveStale(d)
          \/ Bind(d) \/ ChownSocket(d) \/ ChmodSocket(d) \/ Die(d)
    \/ EditPolicy

StartupSpec == StartupInit /\ [][StartupNext]_startupVars
------------------------------------------------------------------------------
May(user, node) ==
    \/ user = "root"
    \/ IF user = "member" /\ node.gid = "lr" THEN "group" \in node.bits ELSE "other" \in node.bits
Connects == {u \in Users : May(u, dir) /\ May(u, sock)}
Intended(o) ==
    {"root"} \cup (IF o.mode = "all" THEN Users ELSE {})
             \cup (IF o.mode = "default" /\ o.group /\ groupMade THEN {"member"} ELSE {})

(* From the moment the socket is bound nobody can connect whom the options  *)
(* do not name, whatever the umask and whatever the directory was before.   *)
(* A daemon that could not set the directory's mode promises this only once *)
(* its socket has its own: `let _ = set_permissions` leaves it open, between *)
(* bind and chmod, to everybody the old directory and the umask admit.      *)
OnlyTheIntendedConnect ==
    LET d == sock.owner
    IN  d \in Daemons /\ (d \in unclosed => pc[d] = "ready") => Connects \subseteq Intended(opts[d])

(* A policy that was accepted is one version of the file, not two halves.   *)
PolicyIsOneVersion ==
    \A d \in Daemons : pc[d] \notin {"start", "read", "failed"} =>
        Cardinality(read[d].versions) <= 1

(* What a start promises: both of the above.                                *)
StartIsGuarded == OnlyTheIntendedConnect /\ PolicyIsOneVersion
=============================================================================
