----------------------------- MODULE Lifecycle -----------------------------
(***************************************************************************)
(* The commands of xcover and the daemon, which know each other only       *)
(* through two paths: the PID file (/tmp/xcover.pid) and the socket file   *)
(* (/tmp/xcover.sock).  Sessions are shells, each in a role it keeps:      *)
(*                                                                         *)
(*    script      the sequence of the README, again and again, each        *)
(*                command only if the one before it has succeeded:         *)
(*                xcover run --detach; xcover wait; (tests); xcover stop   *)
(*    free        the same commands, in any order and at any time          *)
(*    foreground  xcover run, until ^C or another shell's stop ends it     *)
(*    observe     xcover wait or xcover stop, at any time                  *)
(*    none        nothing                                                  *)
(*                                                                         *)
(* A daemon is a process of xcover run in either mode.  Every system call  *)
(* on the PID file is a step of its own and may fail: os.WriteFile         *)
(* truncates the file before it writes it, and writes to the file it has   *)
(* opened even if the path was removed meanwhile.  The protocol on the     *)
(* socket is HealthCheck's and the inside of Run is EventPipeline's; here  *)
(* they are one step each.                                                 *)
(***************************************************************************)
EXTENDS Naturals, FiniteSets

CONSTANTS
  Sessions,  \* the shells
  Roles,     \* the ways to give each shell its role
  Pids,      \* the daemon processes that were or may be started
  Left,      \* those of earlier runs, which were killed
  NoPid,     \* no process: the path does not exist, or nothing is known
  Empty,     \* the PID file exists and was truncated
  MaxPolls   \* how often stop looks before it kills (50)

ASSUME LifecycleAssumption ==
  /\ NoPid \notin Pids
  /\ Empty \notin Pids
  /\ NoPid # Empty
  /\ Sessions \cap Pids = {}
  /\ Left \subseteq Pids
  /\ Roles \subseteq [Sessions -> {"script", "free", "foreground", "observe", "none"}]
  /\ MaxPolls \in Nat

VARIABLES
  role,      \* role[s]: the role of shell s
  pidFile,   \* NoPid when absent, Empty, or the PID it holds
  handles,   \* the writers that have opened the present PID file
  socket,    \* the process whose listener owns the socket path
  daemon,    \* daemon[p]: where process p is in run.go and tracer.go
  signalled, \* the daemons whose context a SIGTERM has cancelled
  outcome,   \* outcome[p]: how p's run ended
  reportFile, \* NoPid when absent, Empty, or the process whose report it holds
  session    \* session[s]: the command shell s is in, the PID it has in hand,
             \* and how often its stop has polled

vars == <<role, pidFile, handles, socket, daemon, signalled, outcome, reportFile,
          session>>
daemonVars == <<role, socket, daemon, signalled, outcome, reportFile>>

\* An earlier run that was killed has left its files, or one of them.
Init ==
  /\ pidFile \in Left \cup {NoPid, Empty}
  /\ handles = {}
  /\ socket \in Left \cup {NoPid}
  /\ daemon = [p \in Pids |-> IF p \in Left THEN "crashed" ELSE "unborn"]
  /\ signalled = {}
  /\ outcome = [p \in Pids |-> IF p \in Left THEN "killed" ELSE "none"]
  /\ reportFile = NoPid
  /\ role \in Roles
  /\ session = [s \in Sessions |-> [at |-> "idle", pid |-> NoPid, polls |-> 0]]

Alive(p) == p \in Pids /\ daemon[p] \notin {"unborn", "exited", "crashed"}

\* common.IsDaemonRunning: a PID can be read and takes signal 0.
IsDaemonRunning == Alive(pidFile)

----------------------------------------------------------------------------
(* os.WriteFile and os.Remove on the PID file.                             *)

Truncate(writer) ==
  /\ pidFile' = Empty
  /\ handles' = handles \cup {writer}

\* A file removed since it was opened takes the bytes with it.
Write(writer, p) ==
  /\ pidFile' = IF writer \in handles THEN p ELSE pidFile
  /\ handles' = handles \ {writer}

\* The write fails and leaves the file as the truncation did.
GiveUpWrite(writer) ==
  /\ handles' = handles \ {writer}
  /\ UNCHANGED pidFile

Remove ==
  /\ pidFile' = NoPid
  /\ handles' = {}

----------------------------------------------------------------------------
(* The daemon: run.go from its first line, then Init and Run of the tracer. *)

Advance(p, from, to) ==
  /\ daemon[p] = from
  /\ daemon' = [daemon EXCEPT ![p] = to]

\* Execute installs the signal handler.
HandleSignals(p) ==
  /\ Advance(p, "boot", "store")
  /\ UNCHANGED <<role, pidFile, handles, socket, signalled, outcome, reportFile,
                 session>>

\* os.WriteFile of the PID, whose error is ignored, in two steps: the first one
\* creates or truncates the file.
StorePidOpen(p) ==
  /\ \/ Advance(p, "store", "write") /\ Truncate(p)
     \/ Advance(p, "store", "init") /\ UNCHANGED <<pidFile, handles>>
  /\ UNCHANGED <<role, socket, signalled, outcome, reportFile, session>>

StorePidWrite(p) ==
  /\ Advance(p, "write", "init")
  /\ Write(p, p) \/ GiveUpWrite(p)
  /\ UNCHANGED <<role, socket, signalled, outcome, reportFile, session>>

\* InitializeListener takes the path, whoever owned it, and may fail.
InitializeListener(p) ==
  /\ \/ Advance(p, "init", "listening") /\ socket' = p /\ UNCHANGED outcome
     \/ /\ Advance(p, "init", "leaving")
        /\ socket' = NoPid
        /\ outcome' = [outcome EXCEPT ![p] = "error"]
  /\ UNCHANGED <<role, pidFile, handles, signalled, reportFile, session>>

\* The rest of Init, attachProbe and InitEventBuf: readiness, or an error that
\* leaves the listener and its socket file to the end of the process.
BecomeReady(p) ==
  /\ \/ Advance(p, "listening", "tracing") /\ UNCHANGED outcome
     \/ /\ Advance(p, "listening", "leaving")
        /\ outcome' = [outcome EXCEPT ![p] = "error"]
  /\ UNCHANGED <<role, pidFile, handles, socket, signalled, reportFile, session>>

\* wg.Wait returns; or ingestEvents is blocked on a full feed that nobody reads
\* any more (EventPipeline) and it never does.
Join(p) ==
  /\ p \in signalled
  /\ Advance(p, "tracing", "joined") \/ Advance(p, "tracing", "hung")
  /\ UNCHANGED <<role, pidFile, handles, socket, signalled, outcome, reportFile, session>>

\* Fault: the PID file is removed with the socket, before the report.
ShutdownRemovesPid(p) ==
  /\ Advance(p, "joined", "stopped")
  /\ socket' = NoPid
  /\ Remove
  /\ UNCHANGED <<role, signalled, outcome, reportFile, session>>

\* ShutdownListener removes the socket file, be it p's or not; if it cannot, Run
\* fails without a report.
ShutdownListener(p) ==
  /\ \/ Advance(p, "joined", "stopped") /\ socket' = NoPid /\ UNCHANGED outcome
     \/ /\ Advance(p, "joined", "leaving")
        /\ outcome' = [outcome EXCEPT ![p] = "error"]
        /\ UNCHANGED socket
  /\ UNCHANGED <<role, pidFile, handles, signalled, reportFile, session>>

\* os.Create truncates the report of an earlier run, or fails.
CreateReport(p) ==
  /\ \/ Advance(p, "stopped", "writing") /\ reportFile' = Empty /\ UNCHANGED outcome
     \/ /\ Advance(p, "stopped", "leaving")
        /\ outcome' = [outcome EXCEPT ![p] = "error"]
        /\ UNCHANGED reportFile
  /\ UNCHANGED <<role, pidFile, handles, socket, signalled, session>>

WriteReport(p) ==
  /\ Advance(p, "writing", "leaving")
  /\ \/ reportFile' = p /\ outcome' = [outcome EXCEPT ![p] = "reported"]
     \/ outcome' = [outcome EXCEPT ![p] = "error"] /\ UNCHANGED reportFile
  /\ UNCHANGED <<role, pidFile, handles, socket, signalled, session>>

\* Fault: the removal of the PID file is not deferred, and an error skips it.
RemovePidFileOnSuccess(p) ==
  /\ Advance(p, "leaving", "gone")
  /\ IF outcome[p] = "error" THEN UNCHANGED <<pidFile, handles>> ELSE Remove
  /\ UNCHANGED <<role, socket, signalled, outcome, reportFile, session>>

\* The deferred os.Remove of the PID file, be it p's or not.
RemovePidFile(p) ==
  /\ Advance(p, "leaving", "gone")
  /\ Remove
  /\ UNCHANGED <<role, socket, signalled, outcome, reportFile, session>>

Exit(p) ==
  /\ Advance(p, "gone", "exited")
  /\ UNCHANGED <<role, pidFile, handles, socket, signalled, outcome, reportFile, session>>

Daemon(p) ==
  \/ HandleSignals(p) \/ StorePidOpen(p) \/ StorePidWrite(p)
  \/ InitializeListener(p) \/ BecomeReady(p)
  \/ Join(p) \/ ShutdownListener(p) \/ CreateReport(p) \/ WriteReport(p)
  \/ RemovePidFile(p) \/ Exit(p)

\* The process ends without its deferred calls.
Kill(p) ==
  /\ daemon' = [daemon EXCEPT ![p] = IF @ = "exited" THEN @ ELSE "crashed"]
  /\ outcome' = [outcome EXCEPT ![p] = IF @ = "none" THEN "killed" ELSE @]

\* A crash, or a kill from outside.
Crash(p) ==
  /\ Alive(p)
  /\ Kill(p)
  /\ UNCHANGED <<role, pidFile, handles, socket, signalled, reportFile, session>>

----------------------------------------------------------------------------
(* The commands.                                                           *)

Go(s, from, to) ==
  /\ session[s].at = from
  /\ session' = [session EXCEPT ![s].at = to]

GoWith(s, to, p) ==
  session' = [session EXCEPT ![s] = [at |-> to, pid |-> p, polls |-> 0]]

\* The places at which a shell waits for its user: no command is running.
Prompts == {"idle", "started", "not running", "ready", "failed", "stopped", "killed"}

\* Where the script has its commands: after the success of the one before.
Script == [run  |-> {"idle", "stopped", "killed"},
           wait |-> {"started"},
           stop |-> {"ready"}]

\* Shell s gives a command.
Gives(s, command) ==
  /\ session[s].at \in Prompts
  /\ \/ role[s] = "script" /\ session[s].at \in Script[command]
     \/ role[s] = "free"
     \/ role[s] = "observe" /\ command # "run"

\* A new process of xcover run.  Which unused PID it gets makes no difference.
Spawn(s, to) ==
  LET unused == {p \in Pids : daemon[p] = "unborn"}
      p == CHOOSE q \in unused : TRUE IN
  /\ unused # {}
  /\ Advance(p, "unborn", "boot")
  /\ GoWith(s, to, p)

\* run --detach: the check, then the child, then the PID file.  An error of any
\* of them ends the command, and those of the last leave the child running.
RunDetach(s) ==
  /\ Gives(s, "run")
  /\ IF IsDaemonRunning THEN GoWith(s, "started", pidFile)
                        ELSE GoWith(s, "start", NoPid)
  /\ UNCHANGED <<pidFile, handles, daemonVars>>

Start(s) ==
  /\ session[s].at = "start"
  /\ \/ Spawn(s, "parent open")
     \/ GoWith(s, "failed", NoPid) /\ UNCHANGED daemon
  /\ UNCHANGED <<role, pidFile, handles, socket, signalled, outcome, reportFile>>

ParentOpen(s) ==
  /\ \/ Go(s, "parent open", "parent write") /\ Truncate(s)
     \/ Go(s, "parent open", "failed") /\ UNCHANGED <<pidFile, handles>>
  /\ UNCHANGED daemonVars

ParentWrite(s) ==
  /\ \/ Go(s, "parent write", "started") /\ Write(s, session[s].pid)
     \/ Go(s, "parent write", "failed") /\ GiveUpWrite(s)
  /\ UNCHANGED daemonVars

\* run without --detach: no check, and no PID file but the process's own.
RunForeground(s) ==
  /\ role[s] = "foreground"
  /\ session[s].at = "idle"
  /\ Spawn(s, "foreground")
  /\ UNCHANGED <<role, pidFile, handles, socket, signalled, outcome, reportFile>>

ForegroundEnds(s) ==
  /\ ~Alive(session[s].pid)
  /\ Go(s, "foreground", "idle")
  /\ UNCHANGED <<pidFile, handles, daemonVars>>

\* wait: the check, then the polling of the socket until readiness or timeout.
WaitCheck(s) ==
  /\ Gives(s, "wait")
  /\ Go(s, session[s].at, IF IsDaemonRunning THEN "waiting" ELSE "not running")
  /\ UNCHANGED <<pidFile, handles, daemonVars>>

\* The daemon that owns the socket path answers once it is ready.
WaitReady(s) ==
  /\ socket \in Pids
  /\ daemon[socket] \in {"tracing", "joined", "hung"}
  /\ Go(s, "waiting", "ready")
  /\ UNCHANGED <<pidFile, handles, daemonVars>>

\* --timeout is the user's: it may end a wait at any time, as an error of stat or
\* of dial does.
WaitTimeout(s) ==
  /\ Go(s, "waiting", "failed")
  /\ UNCHANGED <<pidFile, handles, daemonVars>>

\* stop: reads the PID, or gives up.
StopRead(s) ==
  /\ Gives(s, "stop")
  /\ IF pidFile \in Pids THEN GoWith(s, "signal", pidFile)
                         ELSE Go(s, session[s].at, "failed")
  /\ UNCHANGED <<pidFile, handles, daemonVars>>

\* What SIGTERM does: the process dies before Execute has installed its handler,
\* and again once the first signal has uninstalled it, which takes a moment.
Terminate(p) ==
  \/ /\ daemon[p] = "boot" \/ p \in signalled
     /\ Kill(p)
     /\ UNCHANGED signalled
  \/ /\ daemon[p] # "boot"
     /\ signalled' = signalled \cup {p}
     /\ UNCHANGED <<daemon, outcome>>

\* ^C in the shell of a foreground run.
Interrupt(s) ==
  /\ session[s].at = "foreground"
  /\ Alive(session[s].pid)
  /\ Terminate(session[s].pid)
  /\ UNCHANGED <<role, pidFile, handles, socket, reportFile, session>>

StopSignal(s) ==
  LET p == session[s].pid IN
  /\ IF Alive(p)
       THEN Go(s, "signal", "poll") /\ Terminate(p)
       ELSE Go(s, "signal", "failed") /\ UNCHANGED <<daemon, outcome, signalled>>
  /\ UNCHANGED <<role, pidFile, handles, socket, reportFile>>

\* Fault: stop polls without a limit.
StopPollUnbounded(s) ==
  /\ IF IsDaemonRunning
       THEN /\ session[s].at = "poll"
            /\ session' = [session EXCEPT ![s].polls = @ + 1]
       ELSE Go(s, "poll", "clean")
  /\ UNCHANGED <<pidFile, handles, daemonVars>>

\* A round of the wait for the daemon to end, by the PID file of that moment.
StopPoll(s) ==
  /\ session[s].polls < MaxPolls
  /\ IF IsDaemonRunning
       THEN /\ session[s].at = "poll"
            /\ session' = [session EXCEPT ![s].polls = @ + 1]
       ELSE Go(s, "poll", "clean")
  /\ UNCHANGED <<pidFile, handles, daemonVars>>

\* Fault: stop gives up on a daemon that does not end.
StopGivesUp(s) ==
  /\ session[s].polls = MaxPolls
  /\ Go(s, "poll", "clean killed")
  /\ UNCHANGED <<pidFile, handles, daemonVars>>

\* SIGKILL after the last round.
StopKill(s) ==
  LET p == session[s].pid IN
  /\ session[s].polls = MaxPolls
  /\ Go(s, "poll", "clean killed")
  /\ Kill(p)
  /\ UNCHANGED <<role, pidFile, handles, socket, signalled, reportFile>>

StopClean(s) ==
  /\ Go(s, "clean", "stopped") \/ Go(s, "clean killed", "killed")
  /\ Remove
  /\ UNCHANGED daemonVars

Command(s) ==
  \/ RunDetach(s) \/ Start(s) \/ ParentOpen(s) \/ ParentWrite(s)
  \/ RunForeground(s) \/ ForegroundEnds(s)
  \/ WaitCheck(s) \/ WaitReady(s) \/ WaitTimeout(s)
  \/ StopRead(s) \/ StopSignal(s) \/ StopPoll(s) \/ StopKill(s) \/ StopClean(s)

Next ==
  \/ \E p \in Pids : Daemon(p) \/ Crash(p)
  \/ \E s \in Sessions : Command(s) \/ Interrupt(s)

Spec == Init /\ [][Next]_vars

\* Processes run; nothing makes a daemon crash or a user press ^C.  A shell is free
\* to stay at its prompt, but a command it has started goes on.
FairSpec ==
  /\ Spec
  /\ \A p \in Pids : WF_vars(Daemon(p))
  /\ \A s \in Sessions : WF_vars(Command(s) /\ session[s].at \notin Prompts)

----------------------------------------------------------------------------
(* Properties.                                                             *)

\* Type invariant: what the two paths can hold and where each process can be.
\* The rounds of stop's wait for the daemon are bounded.
TypeOK ==
  /\ pidFile \in Pids \cup {NoPid, Empty}
  /\ handles \subseteq Pids \cup Sessions
  /\ socket \in Pids \cup {NoPid}
  /\ role \in Roles
  /\ reportFile \in Pids \cup {NoPid, Empty}
  /\ daemon \in [Pids -> {"unborn", "boot", "store", "write", "init", "listening", "tracing",
                          "hung", "joined", "stopped", "writing", "leaving", "gone",
                          "exited", "crashed"}]
  /\ signalled \subseteq Pids
  /\ outcome \in [Pids -> {"none", "reported", "error", "killed"}]
  /\ session \in [Sessions ->
       [at : Prompts \cup {"start", "parent open", "parent write", "foreground",
                           "waiting", "signal", "poll", "clean", "clean killed"},
        pid : Pids \cup {NoPid}, polls : 0 .. MaxPolls]]

\* A shell that keeps to the script never has two daemons, nor does one that runs
\* in the foreground beside shells that wait and stop: stop, whichever way it ends,
\* and the end of the foreground command leave no process for the next run to meet.
AtMostOneDaemon == Cardinality({p \in Pids : Alive(p) /\ daemon[p] # "gone"}) <= 1

\* What stop says is true: "force killed" of a process that is dead, "stopped" of
\* one that has ended by itself, having written its report, or failed, or crashed.
\* If it wrote a report, that is what the script finds in the report file, whole.
StoppedMeansDone ==
  \A s \in Sessions :
    LET p == session[s].pid IN
    /\ session[s].at \in {"clean killed", "killed"} => ~Alive(p)
    /\ session[s].at \in {"clean", "stopped"} =>
         /\ outcome[p] # "none"
         /\ daemon[p] \in {"gone", "exited", "crashed"}
         /\ role[s] = "script" /\ outcome[p] = "reported" => reportFile = p

\* When the script's wait reports readiness, it is the daemon its run has started
\* that answered, unless it has died since, and stop will signal that daemon or,
\* if the daemon could not store its PID, say that it finds none: what is stopped
\* is what has profiled the tests.
ReadyIsTarget ==
  \A s \in Sessions :
    LET p == session[s].pid IN
    session[s].at = "ready" /\ role[s] = "script" /\ Alive(p) =>
      socket = p /\ pidFile \in {p, Empty}

\* The PID of a process that has ended in order stays in the PID file, for stop to
\* signal whoever gets that PID next, only if the run failed before anyone
\* stopped it: its parent may then write the PID after the process is gone.
NoStalePid ==
  \A p \in Pids : daemon[p] = "exited" /\ pidFile = p => p \notin signalled

\* "Wait for the profiler to be ready before running your tests, with the 'wait'
\* command": the wait after run --detach finds the daemon if it is alive.
WaitFindsDaemon ==
  \A s \in Sessions :
    session[s].at = "not running" /\ role[s] = "script" => ~Alive(session[s].pid)

\* A daemon that stop has signalled ends, even if its goroutines hang.
SignalledEnds ==
  \A p \in Pids :
    (\E s \in Sessions : session[s].at = "poll" /\ session[s].pid = p) ~> ~Alive(p)
=============================================================================
