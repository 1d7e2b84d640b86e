---------------------------- MODULE TestInstances ----------------------------
(* Nested compositors for tests (test_orchestrator.c): somewm-client test start *)
(* and stop of one name, against the compositor they start, which may fail to   *)
(* load a configuration, hang, or exit at any time.                             *)
(*                                                                              *)
(* Each command is a process of its own; all they share is the state directory  *)
(* $XDG_RUNTIME_DIR/somewm-test/<name>: a pid file, a socket and a log.         *)
EXTENDS Naturals, FiniteSets

CONSTANTS Cmd,         \* commands
          Proc,        \* compositors
          MaxGiven,    \* how many commands are given
          Beside,      \* may a command run beside another?
          NoProc

ASSUME ProcAssumption == NoProc \notin Proc

VARIABLES
    dir,      \* the state directory
    proc,     \* what became of each compositor
    child,    \* of each compositor, the command it is a child of
    cmd,      \* what each command is at
    given,    \* how many commands were given
    started   \* what was started with success, and not stopped or replaced since
testVars == <<dir, proc, child, cmd, given, started>>

NoDir   == [there |-> FALSE, pid |-> NoProc, sock |-> NoProc, log |-> NoProc]
MadeDir == [NoDir EXCEPT !.there = TRUE]
Asleep  == [at |-> "idle", then |-> "none", force |-> FALSE, pid |-> NoProc, exit |-> 0]

(* pid_alive(): kill(pid, 0) finds zombies as well.                              *)
pid_alive(p)  == p # NoProc /\ proc[p] \notin {"none", "dead"}
Works(p)      == p # NoProc /\ proc[p] \in {"starting", "up", "fatal", "leaving"}
Ends(p)       == [proc EXCEPT ![p] = IF child[p] = NoProc THEN "dead" ELSE "zombie"]
CmdAt(c, what)   == cmd[c].at = what
CmdGoes(c, what) == cmd' = [cmd EXCEPT ![c].at = what]
Quiet            == \A c \in Cmd : CmdAt(c, "idle")

TestInit ==
    /\ dir = NoDir /\ proc = [p \in Proc |-> "none"] /\ child = [p \in Proc |-> NoProc]
    /\ cmd = [c \in Cmd |-> Asleep] /\ given = 0 /\ started = NoProc

(* A command ends; its children become those of init, which waits for them.      *)
ExitWith(c, code) ==
    /\ cmd' = [cmd EXCEPT ![c] = [Asleep EXCEPT !.exit = code, !.pid = cmd[c].pid]]
    /\ child' = [p \in Proc |-> IF child[p] = c THEN NoProc ELSE child[p]]
    /\ proc' = [p \in Proc |-> IF child[p] = c /\ proc[p] = "zombie" THEN "dead" ELSE proc[p]]

BeginCmd(c, force, what) ==
    /\ given < MaxGiven /\ CmdAt(c, "idle") /\ (Beside \/ Quiet)
    /\ given' = given + 1
    /\ cmd' = [d \in Cmd |-> IF d = c THEN [Asleep EXCEPT !.at = what, !.force = force]
                             ELSE [cmd[d] EXCEPT !.exit = 0]]
    /\ UNCHANGED <<dir, proc, child, started>>

-----------------------------------------------------------------------------
(* kill_and_wait(): SIGTERM, which a compositor that hangs does not hear.         *)
KillBegins(c, p, then) == cmd' = [cmd EXCEPT ![c].at = "kill", ![c].pid = p, ![c].then = then]
Terminate(c) ==
    /\ CmdAt(c, "kill")
    /\ LET p == cmd[c].pid
       IN \/ ~pid_alive(p) /\ CmdGoes(c, cmd[c].then) /\ UNCHANGED proc
          \/ /\ pid_alive(p) /\ CmdGoes(c, "term")
             /\ \E hears \in BOOLEAN :
                    proc' = [proc EXCEPT ![p] = IF hears /\ Works(p) THEN "leaving" ELSE @]
    /\ UNCHANGED <<dir, child, given, started>>

(* SIGKILL when that took too long, or the socket is gone before the process is;  *)
(* then it waits no more than a while.                                            *)
SIGKILL(p) == IF Works(p) THEN Ends(p) ELSE proc
Killed(c) ==
    /\ CmdAt(c, "term")
    /\ proc' = SIGKILL(cmd[c].pid) /\ CmdGoes(c, cmd[c].then)
    /\ UNCHANGED <<dir, child, given, started>>

-----------------------------------------------------------------------------
(* test_start(): one that is running is replaced by --force only.                 *)
StatStart(c) ==
    /\ CmdAt(c, "start")
    /\ IF dir.there /\ pid_alive(dir.pid)
       THEN IF cmd[c].force THEN KillBegins(c, dir.pid, "clear") /\ UNCHANGED <<proc, child>>
            ELSE ExitWith(c, 2)
       ELSE CmdGoes(c, "clear") /\ UNCHANGED <<proc, child>>
    /\ UNCHANGED <<dir, given, started>>

(* rmtree(), mkdir_p(). *)
Clear(c) ==
    /\ CmdAt(c, "clear") /\ dir' = MadeDir /\ CmdGoes(c, "made")
    /\ started' = IF cmd[c].force \/ ~Works(started) THEN NoProc ELSE started
    /\ UNCHANGED <<proc, child, given>>

(* No such configuration, or no display to be nested in: nothing is left.         *)
Refuse(c) ==
    /\ CmdAt(c, "made") /\ dir' = NoDir /\ ExitWith(c, 6)
    /\ UNCHANGED <<given, started>>

Fork(c) ==
    /\ CmdAt(c, "made")
    /\ \E p \in Proc :
           /\ proc[p] = "none" /\ proc' = [proc EXCEPT ![p] = "starting"]
           /\ child' = [child EXCEPT ![p] = c]
           /\ cmd' = [cmd EXCEPT ![c].at = "forked", ![c].pid = p]
           /\ dir' = IF dir.there THEN [dir EXCEPT !.log = p] ELSE dir
    /\ UNCHANGED <<given, started>>

(* write_pidfile_excl(): never over another's.                                    *)
PidFile(c) ==
    /\ CmdAt(c, "forked")
    /\ IF dir.there /\ dir.pid = NoProc
       THEN /\ dir' = [dir EXCEPT !.pid = cmd[c].pid] /\ CmdGoes(c, "waiting")
            /\ UNCHANGED <<proc, child>>
       ELSE dir' = NoDir /\ ExitWith(c, 6)
    /\ UNCHANGED <<given, started>>

(* wait_for_socket(): it answers, and log_has_fatal() ...                          *)
Answered(c) ==
    /\ CmdAt(c, "waiting") /\ dir.sock # NoProc /\ proc[dir.sock] \in {"up", "fatal"}
    /\ IF dir.log # NoProc /\ proc[dir.log] = "fatal"
       THEN KillBegins(c, cmd[c].pid, "failed") /\ UNCHANGED <<proc, child, started>>
       ELSE ExitWith(c, 0) /\ started' = cmd[c].pid
    /\ UNCHANGED <<dir, given>>
(* ... or it has exited, and is waited for ...                                     *)
Exited(c) ==
    /\ CmdAt(c, "waiting") /\ proc[cmd[c].pid] = "zombie"
    /\ proc' = [proc EXCEPT ![cmd[c].pid] = "dead"] /\ KillBegins(c, cmd[c].pid, "failed")
    /\ UNCHANGED <<dir, child, given, started>>
(* ... or nothing comes for too long.                                              *)
TimedOut(c) ==
    /\ CmdAt(c, "waiting") /\ KillBegins(c, cmd[c].pid, "failed")
    /\ UNCHANGED <<dir, proc, child, given, started>>
Failed(c) ==
    /\ CmdAt(c, "failed") /\ ExitWith(c, 5)
    /\ UNCHANGED <<dir, given, started>>

-----------------------------------------------------------------------------
(* test_stop_named(). *)
StatStop(c) ==
    /\ CmdAt(c, "stop")
    /\ IF ~dir.there THEN ExitWith(c, 3)
       ELSE KillBegins(c, dir.pid, "remove") /\ UNCHANGED <<proc, child>>
    /\ UNCHANGED <<dir, given, started>>
RemoveTree(c) ==
    /\ CmdAt(c, "remove") /\ dir' = NoDir /\ started' = NoProc /\ ExitWith(c, 0)
    /\ UNCHANGED given

-----------------------------------------------------------------------------
(* The compositor: with its configuration, or limping; it binds the socket when    *)
(* it finds the directory and nobody answers there.                                *)
InstanceUp(p) ==
    /\ proc[p] = "starting"
    /\ \E to \in {"up", "fatal"} : proc' = [proc EXCEPT ![p] = to]
    /\ dir' = IF dir.there /\ ~Works(dir.sock) THEN [dir EXCEPT !.sock = p] ELSE dir
    /\ UNCHANGED <<child, cmd, given, started>>
Unbind(p) ==
    /\ proc[p] = "leaving" /\ dir.sock = p /\ dir' = [dir EXCEPT !.sock = NoProc]
    /\ UNCHANGED <<proc, child, cmd, given, started>>
Crash(p) ==
    /\ Works(p) /\ proc' = Ends(p)
    /\ UNCHANGED <<dir, child, cmd, given, started>>

TestNext ==
    \/ \E c \in Cmd, force \in BOOLEAN : BeginCmd(c, force, "start")
    \/ \E c \in Cmd : BeginCmd(c, FALSE, "stop")
    \/ \E c \in Cmd :
           \/ Terminate(c) \/ Killed(c) \/ StatStart(c) \/ Clear(c) \/ Refuse(c) \/ Fork(c)
           \/ PidFile(c) \/ Answered(c) \/ Exited(c) \/ TimedOut(c) \/ Failed(c) \/ StatStop(c) \/ RemoveTree(c)
    \/ \E p \in Proc : InstanceUp(p) \/ Unbind(p) \/ Crash(p)

TestSpec == TestInit /\ [][TestNext]_testVars

-----------------------------------------------------------------------------
TestTypeOK ==
    /\ {dir.pid, dir.sock, dir.log, started} \subseteq Proc \cup {NoProc}
    /\ proc \in [Proc -> {"none", "starting", "up", "fatal", "leaving", "zombie", "dead"}]
    /\ child \in [Proc -> Cmd \cup {NoProc}] /\ given <= MaxGiven
    /\ \A c \in Cmd : cmd[c].exit \in {0, 2, 3, 5, 6} /\ cmd[c].pid \in Proc \cup {NoProc}

(* Whatever runs is found by its name: between commands no compositor runs but the *)
(* one of the pid file, which is the one that answers.                              *)
NoneIsLeftBehind ==
    Quiet => \A p \in Proc : Works(p) => dir.pid = p /\ dir.sock \in {p, NoProc}

(* What was started with success is there until it exits, is stopped, or replaced   *)
(* by force: a second start of its name leaves it alone.                            *)
StartedStays ==
    started # NoProc => dir.pid = started /\ (proc[started] = "up" => dir.sock = started)

(* "Past this point a failure keeps the state directory. The log is the only        *)
(* account of why the start failed."                                                *)
FailureKeepsLog ==
    \A c \in Cmd : Quiet /\ cmd[c].exit = 5 => dir.log = cmd[c].pid /\ ~Works(cmd[c].pid)
=============================================================================
