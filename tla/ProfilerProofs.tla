--------------------------- MODULE ProfilerProofs ---------------------------
(***************************************************************************)
(* Theorems about Profiler, for any functions, threads, capacities,        *)
(* waiters and number of attempts.                                         *)
(*                                                                         *)
(*   PipelinePart   ProfilerSpec => Spec                                   *)
(*   ServerPart     ProfilerSpec => HC!Spec                                *)
(*   EveryTestRecorded  ProfilerSpec => []TestsRecorded                    *)
(*   NoTestLost         the same without loss, if the capacities are ample *)
(*                                                                         *)
(* Each step of the composition is a step or a stutter of each part, so    *)
(* what is proved of the parts holds of the whole: Accounted of            *)
(* EventPipeline and ReadyAfterNotify of HealthCheck.  TestsInv joins the  *)
(* two: tests run only once Run is past the attaching, so the probes they  *)
(* meet are the probes there will ever be.                                 *)
(***************************************************************************)
EXTENDS Profiler, CapacityProofs

HCP == INSTANCE HealthCheckProofs

\* Tests come after readiness, and readiness after the attaching.
TestsAfterAttach ==
  /\ tested # {} => ready
  /\ ready => main # "attaching"

\* What a test executes under a probe has entered the probe.
TestsEntered == tested \subseteq Cookies /\ tested \cap attached \subseteq hits

TestsInv == TestsAfterAttach /\ TestsEntered

----------------------------------------------------------------------------
(* The parts of the composition.                                           *)

\* A step of the composition is a step of the pipeline, or leaves it alone.
LEMMA StepOfPipeline == [ProfilerNext]_allVars => [Next]_vars
<1> SUFFICES ASSUME [ProfilerNext]_allVars
             PROVE  [Next]_vars
  OBVIOUS
<1>1. CASE InitListener
  BY <1>1 DEF InitListener, InServer
<1>2. CASE RunAlone
  BY <1>2 DEF RunAlone, InPipeline, Next, RunStep
<1>3. CASE Notify
  BY <1>3 DEF Notify, Next, RunStep
<1>4. CASE Signal
  BY <1>4 DEF Signal, Next
<1>5. CASE Shutdown
  BY <1>5 DEF Shutdown, Next, RunStep
<1>6. CASE Exit
  BY <1>6 DEF Exit, InServer
<1>7. CASE \/ Consume(Poll)
           \/ Consume(IngestRecv) \/ Consume(IngestSend) \/ Consume(IngestStop)
           \/ Consume(ProcessRecv) \/ Consume(ProcessHandle) \/ Consume(ProcessStop)
  BY <1>7 DEF Consume, InPipeline, Next
<1>8. CASE \/ Server(HC!AcceptSelect) \/ Server(HC!Accept)
           \/ Server(HC!AcceptError)
           \/ \E c \in HC!Connections : Server(HC!ProcessConnection(c))
           \/ \E w \in Waiters : Server(HC!Wait(w))
  BY <1>8 DEF Server, InServer
<1>9. ASSUME NEW t \in Threads, Kernel(t)
      PROVE  [Next]_vars
  BY <1>9 DEF Kernel, InPipeline, Next, KernelStep, Probe
<1>10. ASSUME NEW t \in Threads, NEW c \in Cookies, Execute(t, c)
       PROVE  [Next]_vars
  BY <1>10 DEF Execute, Next, KernelStep, Probe, vars
<1>11. CASE UNCHANGED allVars
  BY <1>11 DEF allVars
<1> QED  BY <1>1, <1>2, <1>3, <1>4, <1>5, <1>6, <1>7, <1>8, <1>9, <1>10, <1>11
         DEF ProfilerNext

\* A step of the composition is a step of the server, or leaves it alone.
LEMMA StepOfServer == [ProfilerNext]_allVars => [HC!Next]_(HC!vars)
<1> SUFFICES ASSUME [ProfilerNext]_allVars
             PROVE  [HC!Next]_(HC!vars)
  OBVIOUS
<1> USE DEF HC!vars, HC!serverVars, serverVars
<1>1. CASE InitListener
  BY <1>1 DEF InitListener, InServer, HC!Next, HC!Tracer
<1>2. CASE RunAlone
  BY <1>2 DEF RunAlone, InPipeline, AttachBatch, Start, InitEventBufFails, Join,
              WriteReport, WriteReportFails, CloseEventBuf, Step
<1>3. CASE Notify
  BY <1>3 DEF Notify, HC!Next, HC!Tracer
<1>4. CASE Signal
  BY <1>4 DEF Signal, HC!Next
<1>5. CASE Shutdown
  BY <1>5 DEF Shutdown, HC!Next, HC!Tracer
<1>6. CASE Exit
  BY <1>6 DEF Exit, InServer, HC!Next
<1>7. CASE \/ Consume(Poll)
           \/ Consume(IngestRecv) \/ Consume(IngestSend) \/ Consume(IngestStop)
           \/ Consume(ProcessRecv) \/ Consume(ProcessHandle) \/ Consume(ProcessStop)
  BY <1>7 DEF Consume, InPipeline, Poll, IngestRecv, IngestSend, IngestStop,
              ProcessRecv, ProcessHandle, ProcessStop, runVars
<1>8. CASE \/ Server(HC!AcceptSelect) \/ Server(HC!Accept)
           \/ Server(HC!AcceptError)
           \/ \E c \in HC!Connections : Server(HC!ProcessConnection(c))
           \/ \E w \in Waiters : Server(HC!Wait(w))
  BY <1>8 DEF Server, InServer, HC!Next
<1>9. ASSUME NEW t \in Threads, Kernel(t)
      PROVE  [HC!Next]_(HC!vars)
  BY <1>9 DEF Kernel, InPipeline, runVars
<1>10. ASSUME NEW t \in Threads, NEW c \in Cookies, Execute(t, c)
       PROVE  [HC!Next]_(HC!vars)
  BY <1>10 DEF Execute, runVars
<1>11. CASE UNCHANGED allVars
  BY <1>11 DEF allVars, vars, runVars
<1> QED  BY <1>1, <1>2, <1>3, <1>4, <1>5, <1>6, <1>7, <1>8, <1>9, <1>10, <1>11
         DEF ProfilerNext

\* The tracer's Run, seen without the server and the clients, behaves as
\* EventPipeline says: all that is proved of EventPipeline holds of Profiler.
THEOREM PipelinePart == ProfilerSpec => Spec
<1>1. ProfilerInit => Init
  BY DEF ProfilerInit
<1> QED  BY <1>1, StepOfPipeline, PTL DEF ProfilerSpec, Spec

\* The server and its clients, seen without Run, behave as HealthCheck says, but
\* for its fairness.
THEOREM ServerPart == ProfilerSpec => HC!Spec
<1>1. ProfilerInit => HC!Init
  BY DEF ProfilerInit
<1> QED  BY <1>1, StepOfServer, PTL DEF ProfilerSpec, HC!Spec

----------------------------------------------------------------------------
(* What the tests are worth.                                               *)

\* Only Run's own steps attach probes, and only while it is attaching.
LEMMA ProbesAreFixed ==
  ASSUME [Next]_vars, attached' # attached
  PROVE  main = "attaching"
BY DEF Next, KernelStep, RunStep, AttachBatch, Start, InitEventBufFails, Step,
       NotifyReadiness, Join, ShutdownListener, WriteReport, WriteReportFails,
       CloseEventBuf, Cancel, Poll, IngestRecv, IngestSend, IngestStop, ProcessRecv,
       ProcessHandle, ProcessStop, vars

\* Run never goes back to attaching, and no entry is forgotten.
LEMMA OnlyForward ==
  ASSUME [Next]_vars
  PROVE  (main # "attaching" => main' # "attaching") /\ hits \subseteq hits'
BY DEF Next, KernelStep, Probe, Enter, Continue, MarkSeen, Reserve, ReserveFail, Submit,
       probeVars, runVars, RunStep, AttachBatch, Start, InitEventBufFails, Step,
       NotifyReadiness, Join, ShutdownListener, WriteReport, WriteReportFails,
       CloseEventBuf, Cancel, Poll, IngestRecv, IngestSend, IngestStop, ProcessRecv,
       ProcessHandle, ProcessStop, vars

\* The two histories change in one place each.
LEMMA WhoTests ==
  ASSUME [ProfilerNext]_allVars
  PROVE  /\ UNCHANGED ready \/ (ready' /\ main' = "tracing")
         /\ tested' # tested => \E t \in Threads, c \in Cookies : Execute(t, c)
<1> USE DEF serverVars, HC!serverVars
<1>1. CASE Notify
  BY <1>1 DEF Notify, NotifyReadiness, Step, HC!NotifyReadiness
<1>2. CASE \E t \in Threads, c \in Cookies : Execute(t, c)
  BY <1>2 DEF Execute
<1>3. CASE InitListener
  BY <1>3 DEF InitListener, InServer, HC!RemoveStale, HC!Listen
<1>4. CASE RunAlone
  BY <1>4 DEF RunAlone, InPipeline
<1>5. CASE Signal
  BY <1>5 DEF Signal, HC!Cancel
<1>6. CASE Shutdown
  BY <1>6 DEF Shutdown, HC!ShutdownListener
<1>7. CASE Exit
  BY <1>7 DEF Exit, InServer, HC!Exit
<1>8. CASE \/ Consume(Poll)
           \/ Consume(IngestRecv) \/ Consume(IngestSend) \/ Consume(IngestStop)
           \/ Consume(ProcessRecv) \/ Consume(ProcessHandle) \/ Consume(ProcessStop)
  BY <1>8 DEF Consume, InPipeline
<1>9. CASE \/ Server(HC!AcceptSelect) \/ Server(HC!Accept)
           \/ Server(HC!AcceptError)
           \/ \E c \in HC!Connections : Server(HC!ProcessConnection(c))
  BY <1>9 DEF Server, InServer, HC!AcceptSelect, HC!Accept, HC!AcceptError,
              HC!ProcessConnection
<1>10. ASSUME NEW w \in Waiters, Server(HC!Wait(w))
       PROVE  UNCHANGED <<ready, tested>>
  BY <1>10 DEF Server, InServer, HC!Wait, HC!Stat, HC!Timeout, HC!Dial, HC!Read,
               HC!ReadDeadline, HC!Retry, HC!Return
<1>11. ASSUME NEW t \in Threads, Kernel(t)
       PROVE  UNCHANGED <<ready, tested>>
  BY <1>11 DEF Kernel, InPipeline
<1>12. CASE UNCHANGED allVars
  BY <1>12 DEF allVars
<1> QED  BY <1>1, <1>2, <1>3, <1>4, <1>5, <1>6, <1>7, <1>8, <1>9, <1>10, <1>11, <1>12
         DEF ProfilerNext

\* Readiness comes after the attaching, and tests after readiness.
LEMMA NextTests ==
  TestsInv /\ HC!ReadyAfterNotify /\ [ProfilerNext]_allVars => TestsInv'
<1> SUFFICES ASSUME TestsInv, HC!ReadyAfterNotify, [ProfilerNext]_allVars
             PROVE  TestsInv'
  OBVIOUS
<1> USE DEF TestsInv, TestsAfterAttach, TestsEntered
<1>0. [Next]_vars
  BY StepOfPipeline
<1>1. /\ main # "attaching" => main' # "attaching"
      /\ hits \subseteq hits'
      /\ attached' # attached => main = "attaching"
  BY <1>0, OnlyForward, ProbesAreFixed
<1>2. ready => ready'
  BY WhoTests
<1>3. ready' => main' # "attaching"
  BY <1>1, WhoTests
<1>4. CASE tested' = tested
  <2>1. CASE tested = {}
    BY <1>3, <1>4, <2>1
  <2>2. CASE tested # {}
    BY <1>1, <1>2, <1>3, <1>4, <2>2
  <2> QED  BY <2>1, <2>2
<1>5. CASE tested' # tested
  <2>1. PICK t \in Threads, c \in Cookies : Execute(t, c)
    BY <1>5, WhoTests
  <2>2. tested' = tested \cup {c} /\ Running /\ \E w \in Waiters : waiter[w] = "ready"
    BY <1>5, <2>1 DEF Execute
  <2>3. ready /\ ready'
    BY <1>2, <2>2 DEF HC!ReadyAfterNotify
  <2>4. attached' = attached /\ (c \in attached => c \in hits')
    BY <2>1, <2>2 DEF Execute, Enter
  <2> QED  BY <1>1, <1>3, <2>2, <2>3, <2>4
<1> QED  BY <1>4, <1>5

\* HealthCheckProofs speaks of the same server.
LEMMA SameServer == HC!Spec => HCP!Spec
<1>1. HC!Init => HCP!Init
  BY DEF HC!Init, HC!Connections, HCP!Init, HCP!Connections
<1>2. [HC!Next]_(HC!vars) => [HCP!Next]_(HCP!vars)
  BY DEF HC!serverVars, HC!vars, HC!Connections, HC!Present, HC!Closed,
           HC!Listening, HC!RemoveStale, HC!Listen, HC!NotifyReadiness,
           HC!Cancel, HC!ShutdownListener, HC!Exit, HC!AcceptSelect,
           HC!Accept, HC!AcceptError, HC!ProcessConnection, HC!Retry, HC!Return, HC!Stat,
           HC!Timeout, HC!Dial, HC!Read, HC!ReadDeadline, HC!Tracer, HC!Wait,
           HC!Next,
           HCP!serverVars, HCP!vars, HCP!Connections, HCP!Present,
           HCP!Closed, HCP!Listening, HCP!RemoveStale, HCP!Listen,
           HCP!NotifyReadiness, HCP!Cancel, HCP!ShutdownListener, HCP!Exit,
           HCP!AcceptSelect, HCP!Accept, HCP!AcceptError,
           HCP!ProcessConnection, HCP!Retry, HCP!Return, HCP!Stat, HCP!Timeout,
           HCP!Dial, HCP!Read, HCP!ReadDeadline, HCP!Tracer, HCP!Wait, HCP!Next
<1> QED  BY <1>1, <1>2, PTL DEF HC!Spec, HCP!Spec

\* Whatever tests run after a successful wait, each function they execute is
\* acknowledged, on its way, lost to a full ring, or of a batch that failed:
\* Accounted of the pipeline, ReadyAfterNotify of the server, and the order of
\* attaching and announcing in Run.
THEOREM EveryTestRecorded == ProfilerSpec => []TestsRecorded
<1>1. ProfilerInit => TestsInv
  BY DEF ProfilerInit, Init, HC!Init, TestsInv, TestsAfterAttach, TestsEntered
<1>2. ProfilerSpec => []HC!ReadyAfterNotify
  <2>1. HCP!Spec => []HCP!ReadyAfterNotify
    BY HCP!NoFalseReadiness, TriesAssumption
  <2>2. HCP!ReadyAfterNotify => HC!ReadyAfterNotify
    BY DEF HCP!ReadyAfterNotify, HC!ReadyAfterNotify
  <2> QED  BY <2>1, <2>2, ServerPart, SameServer, PTL
<1>3. ProfilerSpec => []TestsInv
  BY <1>1, <1>2, NextTests, PTL DEF ProfilerSpec
<1>4. ProfilerSpec => []Accounted
  BY PipelinePart, EveryHitAccounted, PTL
<1>5. TestsInv /\ Accounted => TestsRecorded
  BY DEF TestsInv, TestsEntered, Accounted, TestsRecorded, Unattached
<1> QED  BY <1>3, <1>4, <1>5, PTL

\* With room in seen_funcs for every function, and in the ring for one record of
\* each function from each thread, nothing of the tests is lost to the ring: only
\* the functions of failed batches can be missing.
THEOREM NoTestLost ==
  ASSUME RoomInSeen, RoomFor(RingCap)
  PROVE  ProfilerSpec => [](tested \subseteq ack \cup InFlight \cup Unattached)
<1>1. Spec => []NoLoss
  BY RingNeverFull
<1>2. TestsRecorded /\ NoLoss => tested \subseteq ack \cup InFlight \cup Unattached
  BY DEF TestsRecorded, NoLoss
<1> QED  BY <1>1, <1>2, PipelinePart, EveryTestRecorded, PTL
=============================================================================
