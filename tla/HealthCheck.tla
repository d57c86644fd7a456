---------------------------- MODULE HealthCheck ----------------------------
(***************************************************************************)
(* The readiness protocol over a Unix socket: the server of the tracer     *)
(* (pkg/healthcheck/healthcheck.go) and the processes of the wait command  *)
(* (pkg/cmd/wait/wait.go) that poll it.                                    *)
(*                                                                         *)
(* A waiter makes at most MaxTries attempts, the timeout of 120 s cut in   *)
(* steps of 500 ms; each attempt that reaches the server is a connection   *)
(* <<waiter, attempt>>.  A waiter whose read deadline expires dials again  *)
(* and keeps the old connection open, so the server may hold several       *)
(* connections of one waiter.  Of the tracer only the calls of the server  *)
(* and the ways to end are here.                                           *)
(***************************************************************************)
EXTENDS Naturals

CONSTANTS
  Waiters,   \* processes of the wait command
  MaxTries   \* attempts a waiter makes before it gives up

ASSUME TriesAssumption == MaxTries \in Nat

VARIABLES
  tracer,    \* where the process of the tracer is
  socket,    \* the socket file exists
  ready,     \* readyCh is closed
  ctxDone,   \* the context is cancelled
  acceptor,  \* the goroutine of acceptConnections
  conn,      \* conn[<<w, k>>]: the connection of waiter w's attempt k
  waiter,    \* waiter[w]: where the wait command is
  tries      \* tries[w]: the attempts it has made

serverVars == <<tracer, socket, ready, ctxDone, acceptor>>
vars == <<serverVars, conn, waiter, tries>>

Connections == Waiters \X (1 .. MaxTries)

\* The connection of the attempt a waiter is in.
Present(w) == <<w, tries[w]>>

\* The socket file may be left from a tracer that was killed.
Init ==
  /\ tracer = "init"
  /\ socket \in BOOLEAN
  /\ ready = FALSE
  /\ ctxDone = FALSE
  /\ acceptor = "off"
  /\ conn = [c \in Connections |-> "none"]
  /\ waiter = [w \in Waiters |-> "try"]
  /\ tries = [w \in Waiters |-> 0]

\* Fault: the listener is not closed at the end of Run.
ListeningForever == tracer \in {"listening", "tracing", "stopped"}

Listening == tracer \in {"listening", "tracing"}

\* The connections no answer was sent on, once their server end is closed.
Closed(states) ==
  [c \in Connections |-> IF conn[c] \in states THEN "closed" ELSE conn[c]]

----------------------------------------------------------------------------
(* The tracer.                                                             *)

\* InitializeListener first removes a socket file left behind.
RemoveStale ==
  /\ tracer = "init"
  /\ tracer' = "removed"
  /\ socket' = FALSE
  /\ UNCHANGED <<ready, ctxDone, acceptor, conn, waiter, tries>>

Listen ==
  /\ tracer = "removed"
  /\ tracer' = "listening"
  /\ socket' = TRUE
  /\ acceptor' = "select"
  /\ UNCHANGED <<ready, ctxDone, conn, waiter, tries>>

NotifyReadiness ==
  /\ tracer = "listening"
  /\ tracer' = "tracing"
  /\ ready' = TRUE
  /\ UNCHANGED <<socket, ctxDone, acceptor, conn, waiter, tries>>

Cancel ==
  /\ ~ctxDone
  /\ ctxDone' = TRUE
  /\ UNCHANGED <<tracer, socket, ready, acceptor, conn, waiter, tries>>

\* Fault: the socket file is removed and the listener left open.
ShutdownKeepsListener ==
  /\ tracer = "tracing"
  /\ ctxDone
  /\ tracer' = "stopped"
  /\ socket' = FALSE
  /\ UNCHANGED <<ready, ctxDone, acceptor, conn, waiter, tries>>

\* After the signal, Run closes the listener and removes the socket file, or fails
\* to remove it.  The kernel drops the connections that were not accepted.
ShutdownListener ==
  /\ tracer = "tracing"
  /\ ctxDone
  /\ tracer' = "stopped"
  /\ socket' \in {FALSE, socket}
  /\ conn' = Closed({"backlog"})
  /\ UNCHANGED <<ready, ctxDone, acceptor, waiter, tries>>

\* The process ends: when Run has returned, on an error of Listen or of the
\* initialization of the probe and the tracee (the socket file stays), or by
\* SIGKILL at any time.
Exit ==
  /\ tracer # "exited"
  /\ tracer' = "exited"
  /\ acceptor' = "done"
  /\ conn' = Closed({"backlog", "serving"})
  /\ UNCHANGED <<socket, ready, ctxDone, waiter, tries>>

\* One round of acceptConnections: the context is looked at before Accept, and
\* not while Accept blocks.
AcceptSelect ==
  /\ acceptor = "select"
  /\ acceptor' = IF ctxDone THEN "done" ELSE "accept"
  /\ UNCHANGED <<tracer, socket, ready, ctxDone, conn, waiter, tries>>

Accept ==
  /\ acceptor = "accept"
  /\ \/ /\ \E c \in Connections :
             conn[c] = "backlog" /\ conn' = [conn EXCEPT ![c] = "serving"]
        /\ acceptor' = "select"
     \/ /\ ~Listening
        /\ acceptor' = "done"
        /\ UNCHANGED conn
  /\ UNCHANGED <<tracer, socket, ready, ctxDone, waiter, tries>>

\* Accept fails on an open listener, for want of file descriptors say: the error
\* is logged and the loop goes on.
AcceptError ==
  /\ acceptor = "accept"
  /\ Listening
  /\ acceptor' = "select"
  /\ UNCHANGED <<tracer, socket, ready, ctxDone, conn, waiter, tries>>

\* Fault: the answer does not wait for readyCh.
ProcessConnectionEagerly(c) ==
  /\ conn[c] = "serving"
  /\ \/ conn' = [conn EXCEPT ![c] = "answered"]
     \/ ctxDone /\ conn' = [conn EXCEPT ![c] = "closed"]
  /\ UNCHANGED <<serverVars, waiter, tries>>

\* processConnection: waits for readiness or cancellation, whichever select
\* picks when both have come.
ProcessConnection(c) ==
  /\ conn[c] = "serving"
  /\ \/ ready /\ conn' = [conn EXCEPT ![c] = "answered"]
     \/ ctxDone /\ conn' = [conn EXCEPT ![c] = "closed"]
  /\ UNCHANGED <<serverVars, waiter, tries>>

----------------------------------------------------------------------------
(* The wait command.                                                       *)

Retry(w) ==
  /\ waiter' = [waiter EXCEPT ![w] = "try"]
  /\ UNCHANGED <<serverVars, conn, tries>>

Return(w, result) ==
  /\ waiter' = [waiter EXCEPT ![w] = result]
  /\ UNCHANGED <<serverVars, conn, tries>>

\* Fault: an attempt that finds no socket file does not count.
StatFree(w) ==
  /\ waiter[w] = "try"
  /\ tries[w] < MaxTries
  /\ tries' = IF socket THEN [tries EXCEPT ![w] = @ + 1] ELSE tries
  /\ waiter' = [waiter EXCEPT ![w] = IF socket THEN "dial" ELSE "try"]
  /\ UNCHANGED <<serverVars, conn>>

\* Fault: the timeout is looked at one attempt too late.
StatOnceMore(w) ==
  /\ waiter[w] = "try"
  /\ tries[w] <= MaxTries
  /\ tries' = [tries EXCEPT ![w] = @ + 1]
  /\ waiter' = [waiter EXCEPT ![w] = IF socket THEN "dial" ELSE "try"]
  /\ UNCHANGED <<serverVars, conn>>

\* The head of the loop: the timeout, then os.Stat of the socket file.
Stat(w) ==
  /\ waiter[w] = "try"
  /\ tries[w] < MaxTries
  /\ tries' = [tries EXCEPT ![w] = @ + 1]
  /\ waiter' = [waiter EXCEPT ![w] = IF socket THEN "dial" ELSE "try"]
  /\ UNCHANGED <<serverVars, conn>>

Timeout(w) ==
  /\ waiter[w] = "try"
  /\ tries[w] = MaxTries
  /\ Return(w, "timeout")

\* A file no server listens on refuses the connection, and a dial to a live server
\* may fail as well, when its backlog is full say.
Dial(w) ==
  /\ waiter[w] = "dial"
  /\ \/ /\ Listening
        /\ conn' = [conn EXCEPT ![Present(w)] = "backlog"]
        /\ waiter' = [waiter EXCEPT ![w] = "read"]
        /\ UNCHANGED <<serverVars, tries>>
     \/ Retry(w)

\* The read: the byte, the end of the connection, or the deadline.
Read(w) ==
  /\ waiter[w] = "read"
  /\ \/ conn[Present(w)] = "answered" /\ Return(w, "ready")
     \/ conn[Present(w)] = "closed" /\ Retry(w)

ReadDeadline(w) ==
  /\ waiter[w] = "read"
  /\ conn[Present(w)] \in {"backlog", "serving"}
  /\ Retry(w)

----------------------------------------------------------------------------
Tracer == RemoveStale \/ Listen \/ NotifyReadiness \/ ShutdownListener

Wait(w) == Stat(w) \/ Timeout(w) \/ Dial(w) \/ Read(w) \/ ReadDeadline(w)

Next ==
  \/ Tracer
  \/ Cancel
  \/ Exit
  \/ AcceptSelect
  \/ Accept \/ AcceptError
  \/ \E c \in Connections : ProcessConnection(c)
  \/ \E w \in Waiters : Wait(w)

Spec == Init /\ [][Next]_vars

(***************************************************************************)
(* Fairness.  The tracer goes on with its initialization and, after the    *)
(* signal, with its shutdown (that Run gets there is EventPipeline's       *)
(* StopTerminates); the goroutines and the waiters run when they can.      *)
(* Neither the signal nor a kill has to come.  Accept succeeds in the end  *)
(* if it is called again and again: its errors are transient.              *)
(***************************************************************************)
FairSpec ==
  /\ Spec
  /\ WF_vars(Tracer)
  /\ WF_vars(AcceptSelect) /\ SF_vars(Accept)
  /\ \A c \in Connections : WF_vars(ProcessConnection(c))
  /\ \A w \in Waiters : WF_vars(Wait(w))

----------------------------------------------------------------------------
(* Properties.                                                             *)

\* Type invariant: where the tracer, each connection and each waiter can be, and
\* a waiter's number of attempts, which the timeout bounds.
TypeOK ==
  /\ tracer \in {"init", "removed", "listening", "tracing", "stopped", "exited"}
  /\ socket \in BOOLEAN
  /\ ready \in BOOLEAN
  /\ ctxDone \in BOOLEAN
  /\ acceptor \in {"off", "select", "accept", "done"}
  /\ conn \in [Connections -> {"none", "backlog", "serving", "answered", "closed"}]
  /\ waiter \in [Waiters -> {"try", "dial", "read", "ready", "timeout"}]
  /\ tries \in [Waiters -> 0 .. MaxTries]

\* A wait command succeeds only if the tracer has announced its readiness, which
\* it does after attaching: not through a stale socket file, an old connection,
\* or the answers to a cancelled tracer's clients.
ReadyAfterNotify == \A w \in Waiters : waiter[w] = "ready" => ready

\* No connection is left hanging: each one is answered or closed, those in the
\* backlog of a cancelled server and those the waiter has abandoned included.
ConnectionsSettle ==
  \A c \in Connections :
    (conn[c] \in {"backlog", "serving"}) ~> (conn[c] \in {"answered", "closed"})

\* The signal ends the accept loop although Accept does not see the context.
AcceptorStops == (ctxDone /\ acceptor # "off") ~> (acceptor = "done")

\* A wait command that reaches a tracer announcing its readiness returns, with
\* success or with the timeout: it never blocks for good.
WaitReturns == \A w \in Waiters : <>(waiter[w] \in {"ready", "timeout"})
=============================================================================
