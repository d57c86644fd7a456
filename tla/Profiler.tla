------------------------------ MODULE Profiler ------------------------------
(***************************************************************************)
(* The process of the tracer as a whole: EventPipeline, which is its Run,  *)
(* together with HealthCheck, its server and the processes of wait.  They  *)
(* share the context and take four steps together: readiness, the signal,  *)
(* the shutdown of the listener, and the end of the process.               *)
(*                                                                         *)
(* The traced program executes functions at any time, with or without a    *)
(* probe.  Its tests are what it executes after some wait has succeeded,   *)
(* in the order of the README: run, wait, tests, stop.                     *)
(***************************************************************************)
EXTENDS EventPipeline

CONSTANTS
  Waiters,   \* processes of the wait command
  MaxTries   \* attempts a waiter makes before it gives up

ASSUME TriesAssumption == MaxTries \in Nat

VARIABLES
  tracer, socket, ready, acceptor, conn, waiter, tries,  \* as in HealthCheck
  tested     \* history: the functions the tests have executed

HC == INSTANCE HealthCheck

serverVars == <<tracer, socket, ready, acceptor, conn, waiter, tries>>
allVars    == <<vars, serverVars, tested>>

ProfilerInit ==
  /\ Init
  /\ HC!Init
  /\ tested = {}

\* Init of the tracer is over and its process lives.
Running == tracer \in {"listening", "tracing", "stopped"}

InPipeline(A) == A /\ UNCHANGED <<serverVars, tested>>
InServer(A)   == A /\ UNCHANGED <<vars, tested>>

----------------------------------------------------------------------------
(* Steps of one part.                                                      *)

\* Run between its calls of the server.
RunAlone ==
  /\ Running
  /\ InPipeline(\/ AttachBatch \/ Start \/ InitEventBufFails
                \/ Join \/ WriteReport \/ WriteReportFails \/ CloseEventBuf)

\* The poller and the goroutines.
Consume(A) == Running /\ InPipeline(A)

\* A thread goes on with its run of the BPF program, tracer or not.
Kernel(t) ==
  InPipeline(Continue(t) /\ UNCHANGED <<attached, runVars, pipeVars>>)

InitListener == InServer(HC!RemoveStale \/ HC!Listen)

Server(A) == InServer(A)

----------------------------------------------------------------------------
(* Steps of both parts.                                                    *)

\* Fault: readiness is announced when the listener is up.
NotifyEarly ==
  /\ main = "attaching"
  /\ HC!NotifyReadiness
  /\ UNCHANGED <<vars, tested>>

\* Run announces readiness after it has attached the probes and started to
\* consume.
Notify ==
  /\ NotifyReadiness
  /\ HC!NotifyReadiness
  /\ UNCHANGED tested

Signal == Cancel /\ HC!Cancel /\ UNCHANGED tested

\* Run fails if the socket file cannot be removed.
Shutdown ==
  /\ ShutdownListener
  /\ HC!ShutdownListener
  /\ main' = "failed" <=> socket'
  /\ UNCHANGED tested

\* The process ends, and its probes with it.
Exit == InServer(HC!Exit)

\* It does when Run has returned.
ExitAfterRun == Returned /\ (Started => closed) /\ Exit

\* A thread executes a function: the program runs if there is a probe.
Execute(t, c) ==
  /\ prog[t].at = "user"
  /\ IF Running /\ c \in attached THEN Enter(t, c) ELSE UNCHANGED probeVars
  /\ tested' = IF Running /\ \E w \in Waiters : waiter[w] = "ready"
                 THEN tested \cup {c} ELSE tested
  /\ UNCHANGED <<attached, runVars, pipeVars, serverVars>>

ProfilerNext ==
  \/ InitListener
  \/ RunAlone
  \/ Notify \/ Signal \/ Shutdown \/ Exit
  \/ Consume(Poll)
  \/ Consume(IngestRecv) \/ Consume(IngestSend) \/ Consume(IngestStop)
  \/ Consume(ProcessRecv) \/ Consume(ProcessHandle) \/ Consume(ProcessStop)
  \/ Server(HC!AcceptSelect) \/ Server(HC!Accept) \/ Server(HC!AcceptError)
  \/ \E c \in HC!Connections : Server(HC!ProcessConnection(c))
  \/ \E w \in Waiters : Server(HC!Wait(w))
  \/ \E t \in Threads : Kernel(t) \/ \E c \in Cookies : Execute(t, c)

ProfilerSpec == ProfilerInit /\ [][ProfilerNext]_allVars

(***************************************************************************)
(* Fairness: that of EventPipeline and of HealthCheck, action by action,   *)
(* but for the one HealthCheck has to assume: that Run gets to the         *)
(* announcement and to the shutdown.  Here this follows from Run's own     *)
(* steps.                                                                  *)
(***************************************************************************)
ProfilerFairSpec ==
  /\ ProfilerSpec
  /\ WF_allVars(InitListener)
  /\ WF_allVars(RunAlone \/ Notify \/ Shutdown)
  /\ WF_allVars(ExitAfterRun)
  /\ \A t \in Threads : WF_allVars(Kernel(t))
  /\ WF_allVars(Consume(Poll))
  /\ WF_allVars(Consume(IngestRecv)) /\ WF_allVars(Consume(IngestSend))
  /\ SF_allVars(Consume(IngestStop))
  /\ WF_allVars(Consume(ProcessRecv)) /\ WF_allVars(Consume(ProcessHandle))
  /\ SF_allVars(Consume(ProcessStop))
  /\ WF_allVars(Server(HC!AcceptSelect))
  /\ SF_allVars(Server(HC!Accept))
  /\ \A c \in HC!Connections : WF_allVars(Server(HC!ProcessConnection(c)))
  /\ \A w \in Waiters : WF_allVars(Server(HC!Wait(w)))

----------------------------------------------------------------------------
(* Properties.                                                             *)

\* The functions no probe could be attached to.
Unattached == Cookies \ attached

\* What a successful wait is worth: each function executed from then on is
\* acknowledged, or on its way, or was lost to a full ring, unless its batch of
\* probes had failed.  This needs the order of attachProbe and NotifyReadiness in
\* Run, the server that answers nobody before, and every hop of the pipeline.
TestsRecorded == tested \subseteq ack \cup InFlight \cup lost \cup Unattached

\* The server and its clients behave as HealthCheck says, and in particular the
\* tracer gets to its announcement and to its shutdown, or ends: HealthCheck's
\* fairness of Tracer is a consequence of Run.
ImplementsHealthCheck == HC!FairSpec

\* Left alone a tracer gets ready or ends: no failing batch holds it up.
GetsReady == <>(ready \/ ctxDone \/ tracer = "exited")

\* The signal ends the process, wherever Run was when it came.
SignalEnds == ctxDone ~> tracer = "exited"
=============================================================================
