--------------------------- MODULE EventPipeline ---------------------------
(***************************************************************************)
(* One run of the tracer (pkg/trace/tracer.go, UserTracer.Run): the kernel *)
(* program of Uprobe, libbpfgo's poller, and the three goroutines that     *)
(* move events to the set of acknowledged functions and then to a report:  *)
(*                                                                         *)
(*   ring --Poll--> eventsCh --ingestEvents--> feedCh --processEvents--> ack *)
(*                                                                         *)
(* libbpfgo is external: its poller takes submitted records off the ring   *)
(* and sends them, blocking, on eventsCh; Close stops it and closes        *)
(* eventsCh.  What a function's cookie is and how batches of offsets and   *)
(* cookies are built is outside this module.                               *)
(***************************************************************************)
EXTENDS Uprobe

CONSTANTS
  EventsCap,  \* capacity of eventsCh (EventsChBufSize = 4096)
  FeedCap     \* capacity of feedCh (feedChBufSize = 4096)

ASSUME ChannelsAssumption == EventsCap \in Nat \ {0} /\ FeedCap \in Nat \ {0}

VARIABLES
  untried,   \* the cookies no attach batch has covered yet
  main,      \* where Run is
  ctxDone,   \* the context of Run was cancelled by a signal
  eventsCh,  \* channel from the poller to ingestEvents
  closed,    \* eventsCh was closed
  ingest,    \* the goroutine of ingestEvents, with the event it carries
  feedCh,    \* channel from ingestEvents to processEvents
  process,   \* the goroutine of processEvents, with the event it carries
  ack,       \* the keys of UserTracer.ack
  printed,   \* the functions printed on the verbose output, in order
  report     \* the coverage report written, or NoReport

runVars  == <<untried, main, ctxDone, closed, report>>
pipeVars == <<eventsCh, ingest, feedCh, process, ack, printed>>
vars     == <<attached, probeVars, runVars, pipeVars>>

NoReport == [acked |-> {}, covered |-> 0]

At(place)           == [at |-> place, cookie |-> ZeroCookie]
Carrying(place, c)  == [at |-> place, cookie |-> c]

Init ==
  /\ ProbeInit
  /\ untried = Cookies
  /\ main = "attaching"
  /\ ctxDone = FALSE
  /\ eventsCh = <<>>
  /\ closed = FALSE
  /\ ingest = At("off")
  /\ feedCh = <<>>
  /\ process = At("off")
  /\ ack = {}
  /\ printed = <<>>
  /\ report = NoReport

Started  == ingest.at # "off"
Returned == main \in {"reported", "failed"}

----------------------------------------------------------------------------
(* The goroutine of Run.                                                   *)

\* Fault: after a batch that fails the attachment starts over.
AttachBatchRestart ==
  /\ main = "attaching"
  /\ \E batch \in SUBSET untried :
       /\ batch # {}
       /\ \/ untried' = untried \ batch /\ attached' = attached \cup batch
          \/ untried' = Cookies /\ attached' = {}
  /\ UNCHANGED <<probeVars, pipeVars, main, ctxDone, closed, report>>

\* One round of attachProbe: a batch of functions gets its probes, or the
\* attachment fails and Run goes on without them.
AttachBatch ==
  /\ main = "attaching"
  /\ \E batch \in SUBSET untried :
       /\ batch # {}
       /\ untried' = untried \ batch
       /\ attached' \in {attached, attached \cup batch}
  /\ UNCHANGED <<probeVars, pipeVars, main, ctxDone, closed, report>>

\* InitEventBuf succeeds: the poller and both goroutines are started.
Start ==
  /\ main = "attaching"
  /\ untried = {}
  /\ main' = "started"
  /\ ingest' = At("select")
  /\ process' = At("select")
  /\ UNCHANGED <<attached, probeVars, untried, ctxDone, closed, report,
                 eventsCh, feedCh, ack, printed>>

Step(from, to) ==
  /\ main = from
  /\ main' = to
  /\ UNCHANGED <<attached, probeVars, pipeVars, untried, ctxDone, closed>>

\* InitEventBuf fails: Run returns before it starts anything.
InitEventBufFails == untried = {} /\ Step("attaching", "failed") /\ UNCHANGED report

NotifyReadiness == Step("started", "tracing") /\ UNCHANGED report

\* Fault: the WaitGroup counts only the goroutine of ingestEvents.
JoinIngestOnly ==
  /\ ctxDone
  /\ ingest.at = "done"
  /\ Step("tracing", "joined")
  /\ UNCHANGED report

\* <-ctx.Done() and wg.Wait().
Join ==
  /\ ctxDone
  /\ ingest.at = "done"
  /\ process.at = "done"
  /\ Step("tracing", "joined")
  /\ UNCHANGED report

ShutdownListener ==
  /\ Step("joined", "stopped") \/ Step("joined", "failed")
  /\ UNCHANGED report

\* The names ack.Range collects: it stops at the first key that is no
\* function of the tracee, wherever the map's order puts that key.
RangeOfAck == IF ack \subseteq Cookies THEN {ack} ELSE SUBSET (ack \cap Cookies)

\* The report has the names and, counted separately, the percentage: here the
\* number of entries of ack it is computed from.
WriteReport ==
  /\ Step("stopped", "reported")
  /\ \E acked \in RangeOfAck :
       report' = [acked |-> acked, covered |-> Cardinality(ack)]

\* The report file cannot be created or written.
WriteReportFails == Step("stopped", "failed") /\ UNCHANGED report

\* Fault: the ring buffer is closed by the signal, not when Run returns.
CloseEventBufOnSignal ==
  /\ ctxDone
  /\ Started
  /\ ~closed
  /\ closed' = TRUE
  /\ UNCHANGED <<attached, probeVars, pipeVars, untried, main, ctxDone, report>>

\* The deferred CloseEventBuf, when Run returns.
CloseEventBuf ==
  /\ Returned
  /\ Started
  /\ ~closed
  /\ closed' = TRUE
  /\ UNCHANGED <<attached, probeVars, pipeVars, untried, main, ctxDone, report>>

RunStep ==
  \/ AttachBatch
  \/ Start
  \/ InitEventBufFails
  \/ NotifyReadiness
  \/ Join
  \/ ShutdownListener
  \/ WriteReport
  \/ WriteReportFails
  \/ CloseEventBuf

\* SIGINT or SIGTERM, at any time.
Cancel ==
  /\ ~ctxDone
  /\ ctxDone' = TRUE
  /\ UNCHANGED <<attached, probeVars, pipeVars, untried, main, closed, report>>

----------------------------------------------------------------------------
(* The poller and the two goroutines.                                      *)

\* Fault: the newest record is left for a later wake-up.
PollKeepsLast ==
  /\ Started
  /\ ~closed
  /\ Len(ring) > 1
  /\ Head(ring).owner = NoThread
  /\ Len(eventsCh) < EventsCap
  /\ eventsCh' = Append(eventsCh, Head(ring).cookie)
  /\ ring' = Tail(ring)
  /\ UNCHANGED <<attached, prog, seen, hits, lost, runVars,
                 ingest, feedCh, process, ack, printed>>

\* libbpfgo's callback sends the oldest record, if submitted, to eventsCh.
\* The record keeps its room in the ring while the send blocks.
Poll ==
  /\ Started
  /\ ~closed
  /\ ring # <<>>
  /\ Head(ring).owner = NoThread
  /\ Len(eventsCh) < EventsCap
  /\ eventsCh' = Append(eventsCh, Head(ring).cookie)
  /\ ring' = Tail(ring)
  /\ UNCHANGED <<attached, prog, seen, hits, lost, runVars,
                 ingest, feedCh, process, ack, printed>>

\* data := <-events.  A closed and empty channel yields nil, which handleEvent
\* decodes as the cookie 0.
IngestRecv ==
  /\ ingest.at = "select"
  /\ eventsCh # <<>> \/ closed
  /\ ingest' = Carrying("send", IF eventsCh = <<>> THEN ZeroCookie
                                                   ELSE Head(eventsCh))
  /\ eventsCh' = IF eventsCh = <<>> THEN <<>> ELSE Tail(eventsCh)
  /\ UNCHANGED <<attached, probeVars, runVars, feedCh, process, ack, printed>>

\* Fault: a send that drops the event when feedCh is full.
IngestSendOrDrop ==
  /\ ingest.at = "send"
  /\ feedCh' = IF Len(feedCh) < FeedCap THEN Append(feedCh, ingest.cookie)
                                        ELSE feedCh
  /\ ingest' = At("select")
  /\ UNCHANGED <<attached, probeVars, runVars, eventsCh, process, ack, printed>>

\* Fault: a retry that sends an event feedCh already has.
IngestSendRetry ==
  /\ ingest.at = "send"
  /\ Len(feedCh) < FeedCap
  /\ feedCh' = Append(feedCh, ingest.cookie)
  /\ ingest' \in {At("select"), ingest}
  /\ UNCHANGED <<attached, probeVars, runVars, eventsCh, process, ack, printed>>

\* feed <- data, which waits for room and for nothing else.
IngestSend ==
  /\ ingest.at = "send"
  /\ Len(feedCh) < FeedCap
  /\ feedCh' = Append(feedCh, ingest.cookie)
  /\ ingest' = At("select")
  /\ UNCHANGED <<attached, probeVars, runVars, eventsCh, process, ack, printed>>

\* Fault: ingestEvents leaves its loop when the channel closes only.
IngestStopOnClose ==
  /\ ingest.at = "select"
  /\ closed
  /\ ingest' = At("done")
  /\ UNCHANGED <<attached, probeVars, runVars, eventsCh, feedCh, process, ack,
                 printed>>

\* ctx.Done() in the select of ingestEvents.
IngestStop ==
  /\ ingest.at = "select"
  /\ ctxDone
  /\ ingest' = At("done")
  /\ UNCHANGED <<attached, probeVars, runVars, eventsCh, feedCh, process, ack,
                 printed>>

ProcessRecv ==
  /\ process.at = "select"
  /\ feedCh # <<>>
  /\ process' = Carrying("handle", Head(feedCh))
  /\ feedCh' = Tail(feedCh)
  /\ UNCHANGED <<attached, probeVars, runVars, eventsCh, ingest, ack, printed>>

\* Fault: no check of ack before the print and the store.
HandleUnchecked ==
  /\ process.at = "handle"
  /\ ack' = ack \cup {process.cookie}
  /\ printed' = Append(printed, process.cookie)
  /\ process' = At("select")
  /\ UNCHANGED <<attached, probeVars, runVars, eventsCh, ingest, feedCh>>

\* handleEvent: a cookie that is not in ack yet is printed and stored, one of
\* no known function included.
ProcessHandle ==
  /\ process.at = "handle"
  /\ ack' = ack \cup {process.cookie}
  /\ printed' = IF process.cookie \in ack THEN printed
                                          ELSE Append(printed, process.cookie)
  /\ process' = At("select")
  /\ UNCHANGED <<attached, probeVars, runVars, eventsCh, ingest, feedCh>>

ProcessStop ==
  /\ process.at = "select"
  /\ ctxDone
  /\ process' = At("done")
  /\ UNCHANGED <<attached, probeVars, runVars, eventsCh, ingest, feedCh, ack,
                 printed>>

----------------------------------------------------------------------------
KernelStep == Probe /\ UNCHANGED <<attached, runVars, pipeVars>>

Next ==
  \/ KernelStep
  \/ RunStep
  \/ Cancel
  \/ Poll
  \/ IngestRecv \/ IngestSend \/ IngestStop
  \/ ProcessRecv \/ ProcessHandle \/ ProcessStop

(***************************************************************************)
(* Fairness.  A BPF program runs to its end; the Go scheduler runs every   *)
(* goroutine that can run, and the poller polls forever.  When an event    *)
(* and the cancellation are both ready, select takes one of them at random *)
(* (Go specification), so a goroutine that finds the context done again    *)
(* and again leaves its loop: strong fairness of the two Stop actions.     *)
(* Nothing makes the traced program enter functions, or the user stop it.  *)
(***************************************************************************)
Fairness ==
  /\ \A t \in Threads : WF_vars(Continue(t) /\ UNCHANGED <<attached, runVars, pipeVars>>)
  /\ WF_vars(RunStep)
  /\ WF_vars(Poll)
  /\ WF_vars(IngestRecv) /\ WF_vars(IngestSend) /\ SF_vars(IngestStop)
  /\ WF_vars(ProcessRecv) /\ WF_vars(ProcessHandle) /\ SF_vars(ProcessStop)

Spec == Init /\ [][Next]_vars

FairSpec == Spec /\ Fairness

----------------------------------------------------------------------------
(* Properties.                                                             *)

Places == {"off", "select", "send", "handle", "done"}
Goroutine == [at : Places, cookie : Cookies \cup {ZeroCookie}]

\* Type invariant, with the capacities of the ring and of both channels.
TypeOK ==
  /\ ProbeTypeOK
  /\ untried \subseteq Cookies
  /\ main \in {"attaching", "started", "tracing", "joined", "stopped",
               "reported", "failed"}
  /\ ctxDone \in BOOLEAN
  /\ closed \in BOOLEAN
  /\ eventsCh \in Seq(Cookies)
  /\ Len(eventsCh) <= EventsCap
  /\ ingest \in Goroutine
  /\ feedCh \in Seq(Cookies \cup {ZeroCookie})
  /\ Len(feedCh) <= FeedCap
  /\ process \in Goroutine
  /\ ack \subseteq Cookies \cup {ZeroCookie}
  /\ printed \in Seq(Cookies \cup {ZeroCookie})
  /\ report \in [acked : SUBSET Cookies, covered : Nat]

\* The cookies of the events between the probe and ack.
Carried(goroutine, place) ==
  IF goroutine.at = place THEN {goroutine.cookie} ELSE {}

InFlight ==
  HeldByProgram \cup InRing \cup Range(eventsCh) \cup Carried(ingest, "send")
    \cup Range(feedCh) \cup Carried(process, "handle")

\* A function that was entered is acknowledged, or its event is on its way,
\* or the ring was full when its event was reserved.  In particular seen_funcs,
\* which silences a function for good, never does so while its event has
\* vanished elsewhere, in whatever order the threads of the program and the
\* goroutines of the tracer run.
Accounted == hits \subseteq ack \cup InFlight \cup lost

\* Nothing is invented: a mark of seen_funcs, an event and an acknowledgement
\* are all of functions that were entered, even while Run returns.
OnlyHits == seen \cup InFlight \cup ack \subseteq hits

\* The record a thread has reserved and not submitted is still in the ring.
SubmitHeld ==
  \A t \in Threads :
    prog[t].at = "submit" =>
      \E record \in Range(ring) :
        record.owner = t /\ record.cookie = prog[t].cookie

\* The goroutines run between Start and Join only, and outlive no Close.
RunOrder ==
  /\ main = "attaching" => ingest.at = "off" /\ process.at = "off"
  /\ main \in {"joined", "stopped", "reported", "failed"} =>
       ingest.at \in {"off", "done"} /\ process.at \in {"off", "done"}
  /\ closed => Returned

\* The inductive invariant behind Accounted and ImplementsCoverage.
FlowInv == Accounted /\ OnlyHits /\ SubmitHeld /\ RunOrder

\* The verbose output names each acknowledged function exactly once, although
\* several threads may each have sent an event for it (handleEvent, 234-239).
PrintedOnce == IsInjective(printed) /\ Range(printed) = ack

\* The percentage of a written report is that of the functions it lists: the
\* two are computed by separate passes over ack (writeReport, 253 and 262).
PercentMatchesList ==
  main = "reported" => report.covered = Cardinality(report.acked)

\* The status bar draws LenSyncMap(&ack) * 100 / len(funcs) percent on a bar of
\* BarWidth characters (ProgressBar).
BarWidth        == 40
Percent         == (Cardinality(ack) * 100) \div Cardinality(Cookies)
Filled(percent) == (percent * BarWidth) \div 100

\* The filled part of the bar never exceeds it: ProgressBar would call
\* strings.Repeat with a negative count, which panics and takes the tracer down.
\* An acknowledged cookie of no function, such as 0, is enough for that.
BarFits == Filled(Percent) <= BarWidth

\* Of the functions entered, a written report misses only those whose event was
\* still on its way when the goroutines stopped, or was lost to a full ring:
\* the count of goroutines Run waits for, and the order in which it does, matter.
ReportComplete ==
  main = "reported" => hits \subseteq report.acked \cup InFlight \cup lost

\* The run implements the abstract profiler.
Abstract == INSTANCE Coverage WITH
  executed <- hits,
  acked    <- ack,
  phase    <- CASE main \in {"attaching", "started", "tracing"} -> "collecting"
                [] main \in {"joined", "stopped"} -> "collected"
                [] OTHER -> main,
  report   <- report.acked

\* Only executed functions are acknowledged, none after wg.Wait returns, and
\* the report lists all the functions acknowledged until it is written.
ImplementsCoverage == Abstract!Spec

\* No event is lost when the ring has room for one event of each function from
\* each thread: however the threads race between lookup and update, a function
\* costs at most one event per thread.
NoLoss == lost = {}

\* ingestEvents never waits for room in feedCh, and so never misses ctx.Done(),
\* when that channel has room for one event of each function from each thread.
\* The send itself has no way out: it is in no select (tracer.go, feed <- data).
SendHasRoom == ingest.at = "send" => Len(feedCh) < FeedCap

\* What the kernel program says of seen_funcs, "Track which functions have
\* been reported" (trace.bpf.c:41): a key of the map is a function reported.
SeenReported == seen \subseteq ack \cup InFlight

\* After the signal Run returns: it joins its goroutines and writes the report,
\* or fails.
StopTerminates == ctxDone ~> Returned

\* The event of an entered function reaches ack, unless it was lost to a full
\* ring, or the tracer is stopping or has failed.
EventuallyAcked ==
  \A c \in Cookies :
    (c \in hits) ~> (c \in ack \cup lost \/ ctxDone \/ main = "failed")

=============================================================================
