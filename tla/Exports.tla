------------------------------- MODULE Exports -------------------------------
(***************************************************************************)
(* Block exports: an image is served by an NBD server, a kernel device is  *)
(* attached to it through a Unix socket, and the device is mounted read    *)
(* only.  Two front ends do this: `export mount` of the command line, which *)
(* starts a server process of its own on a socket named after its pid, and *)
(* the daemon, which serves from a thread; all exports of one daemon use   *)
(* the same socket path, so every server that starts takes the path over   *)
(* and every server that stops removes it, whoever owns it by then.        *)
(*                                                                         *)
(* A caller is one process or one call of the daemon, which runs any       *)
(* number of them at once.  The steps of a caller are the external         *)
(* commands it runs; between any two of them other callers and the servers *)
(* run.  A server serves the image of the call that started it.            *)
(***************************************************************************)
EXTENDS Naturals, TLC

CONSTANTS
    Cli,            \* command lines without a daemon
    Tasks,          \* calls of the daemon
    MountsOf,       \* MountsOf[c]: the mountpoints the caller c exports at
    Devices,        \* the /dev/nbdN numbers
    MaxServers,     \* bound on the servers ever started
    None

Callers == Cli \cup Tasks
Mountpoints == UNION {MountsOf[c] : c \in Callers}
Servers == 1..MaxServers

ExportsAssumption ==
    /\ Cli \cap Tasks = {}
    /\ \A b, c \in Callers : b # c => MountsOf[b] \cap MountsOf[c] = {}
    /\ Devices \subseteq Nat
    /\ None \notin Servers \cup Devices

VARIABLES
    socket,     \* socket[path]: the server listening there, or None
    server,     \* server[s]: state, socket path, stop flag
    device,     \* device[d]: the server the kernel is connected to, or None
    mount,      \* mount[m]: the device mounted there, or None
    saved,      \* saved[m]: the state file of the mountpoint, or None
    flags,      \* flags[m]: the server whose stop flag the daemon keeps, or None
    caller,     \* caller[c]: where the call stands
    up,         \* up[m]: [server, device] of the export reported there and not taken down
    crossed     \* servers whose export another call interfered with

vars == <<socket, server, device, mount, saved, flags, caller, up, crossed>>

\* service.rs: one path for the whole daemon; main.rs: one per process
SocketOf(c) == IF c \in Tasks THEN "daemon" ELSE c

NoServer == [state |-> "none", path |-> None, stop |-> FALSE]

Idle == [pc |-> "idle", at |-> None, server |-> None, device |-> None, peer |-> None,
         state |-> None]

Init ==
    /\ socket = [p \in {"daemon"} \cup Cli |-> None]
    /\ server = [s \in Servers |-> NoServer]
    /\ device = [d \in Devices |-> None]
    /\ mount = [m \in Mountpoints |-> None]
    /\ saved = [m \in Mountpoints |-> None]
    /\ flags = [m \in Mountpoints |-> None]
    /\ caller = [c \in Callers |-> Idle]
    /\ up = [m \in Mountpoints |-> None] /\ crossed = {}

Go(c, r) == caller' = [caller EXCEPT ![c] = r @@ caller[c]]
Done(c) == caller' = [caller EXCEPT ![c] = Idle]

(***************************************************************************)
(* Helpers on devices and servers.                                         *)
(***************************************************************************)
\* free_devices: those without a pid file, in order
Free(d) == device[d] = None

\* nbd-client -d: the kernel drops the connection and the server, which was
\* blocked in a read, goes back to its accept loop.  The command may fail, and
\* every caller goes on as if it had not.
Detached(d, fails) ==
    IF ~fails /\ device[d] # None /\ server[device[d]].state = "connected"
    THEN [server EXCEPT ![device[d]].state = "listening"] ELSE server

Detaching(d, owner, fails) ==
    /\ device' = IF fails THEN device ELSE [device EXCEPT ![d] = None]
    /\ crossed' = IF device[d] \in {None, owner} THEN crossed ELSE crossed \cup {device[d]}

SaveState(m, st) == saved' = [saved EXCEPT ![m] = st]
LoadState(m) == saved[m]
ClearState(m) == saved' = [saved EXCEPT ![m] = None]

\* The stop flag of a thread, the signal of a process: a killed process leaves
\* its socket file and the kernel loses the connection.
Stopped(c, s, srv) ==
    IF c \in Tasks THEN [srv EXCEPT ![s].stop = TRUE] ELSE [srv EXCEPT ![s].state = "gone"]

(***************************************************************************)
(* export_with, export_mount.                                              *)
(***************************************************************************)
\* The servers that may still bind the path, or that a caller still waits for.
Contending(path) ==
    {s \in Servers : server[s].state = "starting" /\ server[s].path = path}
      \cup {caller[c].server : c \in {b \in Callers : SocketOf(b) = path /\
                                          caller[b].pc \in {"wait", "attach", "handshake"}}}

\* The image opens, the mountpoint is an empty directory, and the server starts.
StartServer(c, m) ==
    /\ caller[c].pc = "idle"
    /\ mount[m] = None
    /\ \E s \in Servers :
         LET others == Contending(SocketOf(c)) IN
         /\ server[s].state = "none" /\ \A t \in 1..(s - 1) : server[t].state # "none"
         /\ server' = [server EXCEPT ![s] = [state |-> "starting", path |-> SocketOf(c),
                                             stop |-> FALSE]]
         /\ Go(c, [pc |-> "wait", at |-> m, server |-> s])
         /\ crossed' = IF others = {} THEN crossed ELSE crossed \cup others \cup {s}
    /\ UNCHANGED <<device, mount, saved, flags, up>>

\* Mutation of Begin: the socket file an earlier server left is kept.
KeepStaleSocket(c, m) == StartServer(c, m) /\ UNCHANGED socket

\* The old socket file is removed first.
Begin(c, m) == StartServer(c, m) /\ socket' = [socket EXCEPT ![SocketOf(c)] = None]

\* The socket exists and a device is free: the first one is chosen.
Choose(c) ==
    /\ caller[c].pc = "wait"
    /\ socket[SocketOf(c)] # None
    /\ \E d \in Devices :
         /\ Free(d) /\ \A e \in Devices : Free(e) => d <= e
         /\ Go(c, [pc |-> "attach", device |-> d])
    /\ UNCHANGED <<socket, server, device, mount, saved, flags, up, crossed>>

\* Ten seconds of polls without a socket or a free device: the server is stopped.
TimesOut(c) ==
    /\ caller[c].pc = "wait"
    /\ socket[SocketOf(c)] = None \/ \A d \in Devices : ~Free(d)
    /\ server' = Stopped(c, caller[c].server, server)
    /\ Done(c)
    /\ UNCHANGED <<socket, device, mount, saved, flags, up, crossed>>

\* nbd-client connects to whoever listens on the path ...
Attach(c) ==
    LET s == socket[SocketOf(c)] IN
    /\ caller[c].pc = "attach"
    /\ s # None /\ server[s].state # "gone"
    /\ Go(c, [pc |-> "handshake", peer |-> s])
    /\ UNCHANGED <<socket, server, device, mount, saved, flags, up, crossed>>

\* ... and waits until that server has no other connection.
Handshake(c) ==
    LET s == caller[c].peer d == caller[c].device IN
    /\ caller[c].pc = "handshake"
    /\ server[s].state = "listening" /\ Free(d)
    /\ device' = [device EXCEPT ![d] = s]
    /\ server' = [server EXCEPT ![s].state = "connected"]
    /\ Go(c, [pc |-> "mount"])
    /\ UNCHANGED <<socket, mount, saved, flags, up, crossed>>

\* The path is gone, nobody listens behind it, the server ended, or the device
\* was taken: the error is returned; only the command line stops its server.
AttachFails(c) ==
    LET s == socket[SocketOf(c)] IN
    /\ \/ caller[c].pc = "attach" /\ s = None
       \/ caller[c].pc = "attach" /\ s # None /\ server[s].state = "gone"
       \/ caller[c].pc = "handshake" /\ server[caller[c].peer].state = "gone"
       \/ caller[c].pc = "handshake" /\ ~Free(caller[c].device)
    /\ server' = IF c \in Cli THEN Stopped(c, caller[c].server, server) ELSE server
    /\ Done(c)
    /\ UNCHANGED <<socket, device, mount, saved, flags, up, crossed>>

\* The command line opens the image for its type: an error leaves the device
\* attached and the server running.
OpenFails(c) ==
    /\ c \in Cli /\ caller[c].pc = "mount"
    /\ Done(c)
    /\ UNCHANGED <<socket, server, device, mount, saved, flags, up, crossed>>

\* mount(8), which needs a device that answers.
Mount(c) ==
    LET s == device[caller[c].device] IN
    /\ caller[c].pc = "mount"
    /\ s # None /\ server[s].state = "connected"
    /\ mount' = [mount EXCEPT ![caller[c].at] = caller[c].device]
    /\ Go(c, [pc |-> "save"])
    /\ UNCHANGED <<socket, server, device, saved, flags, up, crossed>>

\* mount(8) fails: the device is detached and the server stopped.
MountFails(c, fails) ==
    /\ caller[c].pc = "mount"
    /\ Detaching(caller[c].device, caller[c].peer, fails)
    /\ server' = Stopped(c, caller[c].server, Detached(caller[c].device, fails))
    /\ Done(c)
    /\ UNCHANGED <<socket, mount, saved, flags, up>>

\* save_state; the daemon then remembers the stop flag, and the caller is told.
Save(c) ==
    LET m == caller[c].at IN
    /\ caller[c].pc = "save"
    /\ SaveState(m, [device |-> caller[c].device, socket |-> SocketOf(c),
                     server |-> caller[c].server, in_process |-> c \in Tasks])
    /\ flags' = IF c \in Tasks THEN [flags EXCEPT ![m] = caller[c].server] ELSE flags
    /\ up' = [up EXCEPT ![m] = [server |-> caller[c].server, device |-> caller[c].device]]
    /\ Done(c)
    /\ UNCHANGED <<socket, server, device, mount, crossed>>

\* The state file cannot be written: what was there is kept or cut, and the
\* mount, the device and the server stay with nobody to take them down.
SaveFails(c) ==
    /\ caller[c].pc = "save"
    /\ UNCHANGED saved \/ ClearState(caller[c].at)
    /\ Done(c)
    /\ UNCHANGED <<socket, server, device, mount, flags, up, crossed>>

(***************************************************************************)
(* unexport_with, export_umount.                                           *)
(***************************************************************************)
\* The state is loaded and the mountpoint unmounted; an umount that fails is
\* returned before anything has changed.
Unexport(c, m) ==
    /\ caller[c].pc = "idle" /\ LoadState(m) # None
    /\ LoadState(m).in_process => c \in Tasks
    /\ mount' = [mount EXCEPT ![m] = None]
    /\ up' = [up EXCEPT ![m] = None]
    /\ crossed' = crossed \cup {caller[b].server : b \in {e \in Callers :
                                    caller[e].pc = "save" /\ caller[e].at = m}}
    /\ Go(c, [pc |-> "detach", at |-> m, state |-> LoadState(m)])
    /\ UNCHANGED <<socket, server, device, saved, flags>>

\* The device of the state that was loaded, whoever has it by now.
Detach(c, fails) ==
    LET st == caller[c].state IN
    /\ caller[c].pc = "detach"
    /\ Detaching(st.device, st.server, fails) /\ server' = Detached(st.device, fails)
    /\ Go(c, [pc |-> "stop"])
    /\ UNCHANGED <<socket, mount, saved, flags, up>>

\* The flag is the one kept for the mountpoint now.
StopServer(c) ==
    LET m == caller[c].at st == caller[c].state IN
    /\ caller[c].pc = "stop"
    /\ IF st.in_process
       THEN /\ server' = IF flags[m] = None THEN server
                         ELSE [server EXCEPT ![flags[m]].stop = TRUE]
            /\ flags' = [flags EXCEPT ![m] = None]
            /\ crossed' = IF flags[m] \in {None, st.server} THEN crossed
                          ELSE crossed \cup {flags[m]}
       ELSE /\ server' = [server EXCEPT ![st.server].state = "gone"]
            /\ UNCHANGED <<flags, crossed>>
    /\ Go(c, [pc |-> "clear"])
    /\ UNCHANGED <<socket, device, mount, saved, up>>

\* The socket file is removed, whoever is bound to it, then the state file, if
\* it can be.
Clear(c) ==
    /\ caller[c].pc = "clear"
    /\ socket' = [socket EXCEPT ![caller[c].state.socket] = None]
    /\ ClearState(caller[c].at) \/ UNCHANGED saved
    /\ Done(c)
    /\ UNCHANGED <<server, device, mount, flags, up, crossed>>

(***************************************************************************)
(* serve_unix: bind_private renames the bound socket over the path, so the *)
(* path leads to the newest server.                                        *)
(***************************************************************************)
Bind(s) ==
    /\ server[s].state = "starting"
    /\ server' = [server EXCEPT ![s].state = "listening"]
    /\ socket' = [socket EXCEPT ![server[s].path] = s]
    /\ UNCHANGED <<device, mount, saved, flags, caller, up, crossed>>

\* The socket cannot be bound, or the server process cannot open the image.
BindFails(s) ==
    /\ server[s].state = "starting"
    /\ server' = [server EXCEPT ![s].state = "gone"]
    /\ UNCHANGED <<socket, device, mount, saved, flags, caller, up, crossed>>

\* The stop flag is seen between two connections; the path is removed.
ServerEnds(s) ==
    /\ server[s].state = "listening" /\ server[s].stop
    /\ server' = [server EXCEPT ![s].state = "gone"]
    /\ socket' = [socket EXCEPT ![server[s].path] = None]
    /\ UNCHANGED <<device, mount, saved, flags, caller, up, crossed>>

\* A request comes on a connection that could not be detached: it is answered,
\* then the flag is seen, the connection closed and the path removed.
ConnectionEnds(s) ==
    /\ server[s].state = "connected" /\ server[s].stop
    /\ server' = [server EXCEPT ![s].state = "gone"]
    /\ socket' = [socket EXCEPT ![server[s].path] = None]
    /\ UNCHANGED <<device, mount, saved, flags, caller, up, crossed>>

\* The kernel gives up a device whose server is gone.
ConnectionLost(d) ==
    /\ device[d] # None /\ server[device[d]].state = "gone"
    /\ device' = [device EXCEPT ![d] = None]
    /\ UNCHANGED <<socket, server, mount, saved, flags, caller, up, crossed>>

\* What a caller that has begun goes on with.
GoesOn(c) ==
    \/ Choose(c) \/ TimesOut(c) \/ Attach(c) \/ Handshake(c) \/ AttachFails(c)
    \/ OpenFails(c) \/ Mount(c) \/ Save(c) \/ SaveFails(c)
    \/ \E fails \in BOOLEAN : MountFails(c, fails) \/ Detach(c, fails)
    \/ StopServer(c) \/ Clear(c)

Calling(c) ==
    \/ \E m \in MountsOf[c] : Begin(c, m)
    \/ \E m \in Mountpoints : Unexport(c, m)
    \/ GoesOn(c)

Serving ==
    \/ \E s \in Servers : Bind(s) \/ BindFails(s) \/ ServerEnds(s) \/ ConnectionEnds(s)
    \/ \E d \in Devices : ConnectionLost(d)

Next == Serving \/ \E c \in Callers : Calling(c)

Fairness ==
    /\ \A c \in Callers : WF_vars(GoesOn(c))
    /\ \A s \in Servers : WF_vars(Bind(s) \/ BindFails(s)) /\ WF_vars(ServerEnds(s))

Spec == Init /\ [][Next]_vars /\ Fairness

(***************************************************************************)
(* Properties.                                                             *)
(***************************************************************************)
\* The mountpoint of an export that a caller was told has succeeded shows the
\* image it named: the device mounted there is connected to the running server
\* of that very call, whatever other exports start, fail, end and leave behind.
\* The exports it does not hold for are those `crossed` names: of two daemon
\* calls that wait for the one socket path at the same time either may attach to
\* the other's server, and an unexport takes down the mountpoint, the device and
\* the flag its state names although a later export has taken them by then.
MountShowsItsImage ==
    \A m \in Mountpoints :
        up[m] # None /\ up[m].server \notin crossed =>
            LET s == up[m].server IN
            /\ mount[m] = up[m].device
            /\ device[up[m].device] = s
            /\ server[s].state = "connected" /\ ~server[s].stop

\* A server whose export was taken down is not left behind: each of the finitely
\* many that are told to stop ends, unless its device could not be detached.
UnexportedServerEnds ==
    []<>(\A s \in Servers : server[s].stop =>
            server[s].state = "gone" \/ \E d \in Devices : device[d] = s)
=============================================================================
