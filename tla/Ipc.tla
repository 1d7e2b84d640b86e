-------------------------------- MODULE Ipc --------------------------------
(***************************************************************************)
(* The IPC server (ipc.c, objects/ipc.c), in two parts that share no state.*)
(* First its socket file, ipc_init() and ipc_cleanup(), between            *)
(* compositors that start, exit and crash at one path; one step per system *)
(* call.  The calls' own failures are left out.  A file is known by the    *)
(* instance that bound it, as by its inode.                                *)
(*                                                                         *)
(* Then the clients of one instance: connections, the commands of one      *)
(* read, subscriptions and broadcasts.  A command's text and its answer    *)
(* are left out, and so are handlers that broadcast before they return;    *)
(* the kernel hands out the lowest free descriptor.                        *)
(***************************************************************************)
EXTENDS Naturals, FiniteSets, FiniteSetsExt

CONSTANTS
    Instance,   \* compositors, each started once
    NoFile,     \* nothing at the path
    Retries,    \* how often a held path is probed again
    Overlap     \* whether an instance may start while another one starts

VARIABLES
    file,       \* whose file is at the path
    pc,         \* what each instance is about to do
    left,       \* the retries it has left
    stat        \* ipc_socket_stat

socketVars == <<file, pc, left, stat>>

Starting == {i \in Instance : pc[i] \in {"probe", "unlink", "bind", "stat", "listen"}}

Listening == {i \in Instance : pc[i] \in {"run", "leave", "close"}}

SocketInit ==
    /\ file = NoFile
    /\ pc = [i \in Instance |-> "off"]
    /\ left = [i \in Instance |-> Retries]
    /\ stat = [i \in Instance |-> NoFile]

Goes(i, step) == pc' = [pc EXCEPT ![i] = step]

Start(i) ==
    /\ pc[i] = "off"
    /\ Overlap \/ Starting = {}
    /\ Goes(i, "probe")
    /\ UNCHANGED <<file, left, stat>>

(* ipc_probe_socket(), again after a while if something listens.           *)
Probe(i) ==
    /\ pc[i] = "probe"
    /\ \/ file \notin Listening /\ Goes(i, "unlink") /\ UNCHANGED left
       \/ file \in Listening /\ left[i] > 0 /\ left' = [left EXCEPT ![i] = @ - 1] /\ UNCHANGED pc
       \/ file \in Listening /\ left[i] = 0 /\ Goes(i, "noipc") /\ UNCHANGED left
    /\ UNCHANGED <<file, stat>>

Unlink(i) ==
    /\ pc[i] = "unlink"
    /\ file' = NoFile
    /\ Goes(i, "bind")
    /\ UNCHANGED <<left, stat>>

Bind(i) ==
    /\ pc[i] = "bind"
    /\ IF file = NoFile THEN file' = i /\ Goes(i, "stat")
       ELSE UNCHANGED file /\ Goes(i, "noipc")
    /\ UNCHANGED <<left, stat>>

Stat(i) ==
    /\ pc[i] = "stat"
    /\ stat' = [stat EXCEPT ![i] = file]
    /\ Goes(i, "listen")
    /\ UNCHANGED <<file, left>>

Listen(i) ==
    /\ pc[i] = "listen"
    /\ Goes(i, "run")
    /\ UNCHANGED <<file, left, stat>>

(* ipc_cleanup(): the file is compared, unlinked, and the listener closed. *)
Compare(i) ==
    /\ pc[i] = "run"
    /\ Goes(i, IF file = stat[i] /\ file # NoFile THEN "leave" ELSE "close")
    /\ UNCHANGED <<file, left, stat>>

Leave(i) ==
    /\ pc[i] = "leave"
    /\ file' = NoFile
    /\ Goes(i, "close")
    /\ UNCHANGED <<left, stat>>

(* The listener closes, at the end of the cleanup or with the process.     *)
Close(i) ==
    /\ pc[i] \notin {"off", "gone"}
    /\ Goes(i, "gone")
    /\ UNCHANGED <<file, left, stat>>

SocketNext ==
    \E i \in Instance : \/ Start(i) \/ Probe(i) \/ Unlink(i) \/ Bind(i) \/ Stat(i) \/ Listen(i)
                        \/ Compare(i) \/ Leave(i) \/ Close(i)

SocketSpec == SocketInit /\ [][SocketNext]_socketVars

-----------------------------------------------------------------------------
(* The clients of one instance.                                            *)

CONSTANTS
    Conn,           \* connections, each made once
    NoConn,         \* no connection
    MaxClients,     \* IPC_MAX_CLIENTS
    MaxLines        \* commands in one read

ASSUME ConnAssumption == IsFiniteSet(Conn)

VARIABLES
    clients,    \* ipc_clients: each with the descriptor it was accepted on
    subscribed, \* the clients with the flag
    total,      \* ipc_subscriber_count
    gone,       \* connections whose peer has hung up
    spent,      \* connections that were made
    handled,    \* the client whose read is being handled
    lines       \* the commands of that read still to be processed

ipcVars == <<clients, subscribed, total, gone, spent, handled, lines>>

NoFd == 0
Fds == {clients[c] : c \in DOMAIN clients}
LowestFree == Min({n \in 1..(Cardinality(Conn) + 1) : n \notin Fds})
Idling == handled = NoConn

IpcInit ==
    /\ clients = [c \in {} |-> NoFd] /\ subscribed = {} /\ total = 0
    /\ gone = {} /\ spent = {}
    /\ handled = NoConn /\ lines = 0

(* ipc_handle_connection(): one too many is told so and closed.            *)
Connect(c) ==
    /\ Idling /\ c \notin spent
    /\ spent' = spent \cup {c}
    /\ clients' = (IF Cardinality(DOMAIN clients) >= MaxClients THEN clients
                   ELSE [x \in DOMAIN clients \cup {c} |-> IF x = c THEN LowestFree ELSE clients[x]])
    /\ UNCHANGED <<subscribed, total, gone, handled, lines>>

HangUp(c) ==
    /\ c \in spent \ gone
    /\ gone' = gone \cup {c}
    /\ UNCHANGED <<clients, subscribed, total, spent, handled, lines>>

\* ipc_client_destroy() of each
Destroyed(dead) ==
    /\ clients' = [c \in DOMAIN clients \ dead |-> clients[c]]
    /\ subscribed' = subscribed \ dead
    /\ total' = total - Cardinality(dead \cap subscribed)

(* ipc_handle_client_data(): a read that ends the connection, or that      *)
(* overflows the buffer, or one with commands.                             *)
Read(c) ==
    /\ Idling /\ c \in DOMAIN clients
    /\ \/ Destroyed({c}) /\ UNCHANGED <<handled, lines>>
       \/ /\ handled' = c /\ lines' \in 1..MaxLines
          /\ UNCHANGED <<clients, subscribed, total>>
    /\ UNCHANGED <<gone, spent>>

NextLine == /\ lines' = lines - 1
            /\ handled' = (IF lines = 1 THEN NoConn ELSE handled)

\* Mutant: subscribing again counts again.
ipc_subscribe_client_again(c) == subscribed' = subscribed \cup {c} /\ total' = total + 1

ipc_subscribe_client(c) ==
    /\ subscribed' = subscribed \cup {c}
    /\ total' = (IF c \in subscribed THEN total ELSE total + 1)

Subscribe ==
    /\ ~Idling
    /\ NextLine
    /\ \E c \in DOMAIN clients : clients[c] = clients[handled] /\ ipc_subscribe_client(c)
    /\ UNCHANGED <<clients, gone, spent>>

(* Any other command.                                                      *)
Command ==
    /\ ~Idling
    /\ NextLine
    /\ UNCHANGED <<clients, subscribed, total, gone, spent>>

(* ipc_broadcast(): a write that fails ends that client.                   *)
Broadcast ==
    /\ Idling /\ total > 0
    /\ Destroyed(subscribed \cap gone)
    /\ UNCHANGED <<gone, spent, handled, lines>>

IpcNext ==
    \/ \E c \in Conn : Connect(c) \/ HangUp(c) \/ Read(c)
    \/ Subscribe \/ Command \/ Broadcast

IpcSpec == IpcInit /\ [][IpcNext]_ipcVars

-----------------------------------------------------------------------------
(* Properties.                                                             *)

SocketTypeOK ==
    /\ file \in Instance \cup {NoFile}
    /\ left \in [Instance -> 0..Retries]
    /\ stat \in [Instance -> Instance \cup {NoFile}]
    /\ \A i \in Instance : pc[i] \in {"off", "probe", "unlink", "bind", "stat", "listen", "run",
                                      "leave", "close", "noipc", "gone"}

(* "never take a running compositor's path", nor on the way out ("so        *)
(* cleanup can tell its own file from one a later instance bound"): who     *)
(* serves has its own file at the path until it removes it itself.          *)
RunningKeepsPath == \A i \in Instance : pc[i] \in {"run", "leave"} => file = i

IpcTypeOK ==
    /\ DOMAIN clients \subseteq spent /\ spent \cup gone \subseteq Conn
    /\ \A c \in DOMAIN clients : clients[c] \in 1..MaxClients
    /\ subscribed \subseteq DOMAIN clients
    /\ total \in 0..MaxClients
    /\ handled \in Conn \cup {NoConn} /\ lines \in 0..MaxLines

(* "Is any connected client subscribed?": the count that C keeps across    *)
(* hot reloads is that of the connected subscribers, each counted once     *)
(* however it subscribes and goes, and every client has its own descriptor.*)
SubscribersCounted ==
    /\ total = Cardinality(subscribed)
    /\ \A c, d \in DOMAIN clients : c # d => clients[c] # clients[d]
=============================================================================
