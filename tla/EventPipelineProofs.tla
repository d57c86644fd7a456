------------------------ MODULE EventPipelineProofs ------------------------
(***************************************************************************)
(* Theorems about EventPipeline, for any functions, threads and capacities. *)
(*                                                                         *)
(*   TypeInvariant        Spec => []TypeOK                                 *)
(*   EveryHitAccounted    Spec => []Accounted                              *)
(*   PrintedExactlyOnce   Spec => []PrintedOnce                            *)
(*   PercentOfListed      Spec => []PercentMatchesList                     *)
(*   BarNeverOverflows    Spec => []BarFits                                *)
(*   ReportMissesNone     Spec => []ReportComplete                         *)
(*   Implementation       Spec => ImplementsCoverage                       *)
(*                                                                         *)
(* The inductive invariant is TypeOK /\ FlowInv.  Accounted alone is not   *)
(* inductive: a thread that ends its program run must have left its event  *)
(* in the ring (SubmitHeld), a function already in seen_funcs must have    *)
(* been entered before (OnlyHits), and Start must not overwrite an event   *)
(* a goroutine carries (RunOrder).                                         *)
(***************************************************************************)
EXTENDS EventPipeline, SequenceTheorems, FiniteSetTheorems, TLAPS

----------------------------------------------------------------------------
(* Sequences as queues.                                                    *)

\* What Append adds to the elements of a sequence.
LEMMA RangeAppend ==
  ASSUME NEW S, NEW s \in Seq(S), NEW e \in S
  PROVE  Range(Append(s, e)) = Range(s) \cup {e}
BY AppendProperties DEF Range

\* What Tail leaves of the elements of a sequence.
LEMMA RangeTail ==
  ASSUME NEW S, NEW s \in Seq(S), s # <<>>
  PROVE  /\ Head(s) \in S
         /\ Tail(s) \in Seq(S)
         /\ Len(Tail(s)) = Len(s) - 1
         /\ Range(s) = {Head(s)} \cup Range(Tail(s))
<1>1. Head(s) \in S /\ Tail(s) \in Seq(S) /\ Len(Tail(s)) = Len(s) - 1
  BY HeadTailProperties
<1>2. Len(s) \in Nat \ {0}
  BY EmptySeq
<1>3. \A i \in 1 .. Len(s) - 1 : Tail(s)[i] = s[i + 1]
  BY <1>2, HeadTailProperties
<1>4. DOMAIN Tail(s) = 1 .. Len(s) - 1
  BY <1>1, LenProperties
<1>5. Range(s) \subseteq {Head(s)} \cup Range(Tail(s))
  <2> SUFFICES ASSUME NEW i \in 1 .. Len(s)
               PROVE  s[i] \in {Head(s)} \cup Range(Tail(s))
    BY DEF Range
  <2>1. CASE i = 1
    BY <2>1
  <2>2. CASE i # 1
    <3>1. i - 1 \in 1 .. Len(s) - 1 /\ s[i] = Tail(s)[i - 1]
      BY <1>2, <1>3, <2>2
    <3>2. i - 1 \in DOMAIN Tail(s)
      BY <1>4, <3>1
    <3> QED  BY <3>1, <3>2 DEF Range
  <2> QED  BY <2>1, <2>2
<1>6. {Head(s)} \cup Range(Tail(s)) \subseteq Range(s)
  <2>1. Head(s) \in Range(s)
    BY <1>2 DEF Range
  <2>2. ASSUME NEW i \in 1 .. Len(s) - 1
        PROVE  Tail(s)[i] \in Range(s)
    BY <1>2, <1>3 DEF Range
  <2> QED  BY <1>4, <2>1, <2>2 DEF Range
<1> QED  BY <1>1, <1>5, <1>6

----------------------------------------------------------------------------
(* Type correctness.                                                       *)

\* A step of the kernel program keeps the types of what it changes.
LEMMA KernelTypes ==
  ASSUME ProbeTypeOK, Probe, UNCHANGED attached
  PROVE  ProbeTypeOK'
<1> USE DEF ProbeTypeOK, Program
<1> SUFFICES ASSUME NEW t \in Threads,
                    Continue(t) \/ \E c \in Cookies : Enter(t, c)
             PROVE  ProbeTypeOK'
  BY DEF Probe
<1>1. ASSUME NEW c \in Cookies, Enter(t, c)
      PROVE  ProbeTypeOK'
  BY <1>1 DEF Enter, Goto
<1>2. CASE MarkSeen(t)
  BY <1>2 DEF MarkSeen, SeenWith, Goto
<1>3. CASE Reserve(t)
  <2>1. [cookie |-> prog[t].cookie, owner |-> t] \in Record
    BY <1>3 DEF Reserve, Record
  <2>2. ring' \in Seq(Record) /\ Len(ring') = Len(ring) + 1
    BY <1>3, <2>1, AppendProperties DEF Reserve
  <2>3. Len(ring) \in Nat /\ RingCap \in Nat
    BY LenProperties, ConstantsAssumption
  <2> QED  BY <1>3, <2>2, <2>3 DEF Reserve, Goto
<1>4. CASE ReserveFail(t)
  BY <1>4, ConstantsAssumption DEF ReserveFail, Goto
<1>5. CASE Submit(t)
  <2>1. \A i \in DOMAIN ring : ring[i] \in Record
    OBVIOUS
  <2>2. \A i \in DOMAIN ring : ring'[i] \in Record
    BY <1>5, <2>1 DEF Submit, Record
  <2>3. DOMAIN ring' = 1 .. Len(ring) /\ Len(ring) \in Nat
    BY <1>5, LenProperties DEF Submit
  <2>4. ring' \in Seq(Record) /\ Len(ring') = Len(ring)
    BY <1>5, <2>2, <2>3 DEF Submit
  <2> QED  BY <1>5, <2>4 DEF Submit, Goto
<1> QED  BY <1>1, <1>2, <1>3, <1>4, <1>5 DEF Continue

\* The initial state of a run has the right types.
LEMMA InitTypes == Init => TypeOK
<1> SUFFICES ASSUME Init
             PROVE  TypeOK
  OBVIOUS
<1> USE DEF Init
<1>1. \A S : <<>> \in Seq(S) /\ Len(<<>>) = 0
  BY EmptySeq
<1>2. ProbeTypeOK
  BY <1>1, ConstantsAssumption DEF ProbeInit, ProbeTypeOK, InUser, Program
<1>3. ingest \in Goroutine /\ process \in Goroutine
  BY DEF At, Goroutine, Places
<1>4. report \in [acked : SUBSET Cookies, covered : Nat]
  BY DEF NoReport
<1>5. /\ eventsCh \in Seq(Cookies)
      /\ Len(eventsCh) <= EventsCap
      /\ feedCh \in Seq(Cookies \cup {ZeroCookie})
      /\ Len(feedCh) <= FeedCap
      /\ printed \in Seq(Cookies \cup {ZeroCookie})
  BY <1>1, ChannelsAssumption
<1> QED  BY <1>2, <1>3, <1>4, <1>5 DEF TypeOK

\* Every step of the kernel program, of Run and of its goroutines keeps the
\* types and the capacities.
LEMMA NextTypes == TypeOK /\ [Next]_vars => TypeOK'
<1> SUFFICES ASSUME TypeOK, [Next]_vars
             PROVE  TypeOK'
  OBVIOUS
<1> USE DEF TypeOK, Goroutine, Places
<1>1. CASE KernelStep
  <2>1. ProbeTypeOK'
    BY <1>1, KernelTypes DEF KernelStep
  <2> QED  BY <1>1, <2>1 DEF KernelStep, runVars, pipeVars
<1>2. CASE RunStep
  <2> USE DEF probeVars, pipeVars, ProbeTypeOK
  <2>1. CASE AttachBatch
    BY <1>2, <2>1 DEF AttachBatch
  <2>2. CASE Start
    BY <2>2 DEF Start, At
  <2>3. CASE InitEventBufFails
    BY <2>3 DEF InitEventBufFails, Step
  <2>4. CASE NotifyReadiness
    BY <2>4 DEF NotifyReadiness, Step
  <2>5. CASE Join
    BY <2>5 DEF Join, Step
  <2>6. CASE ShutdownListener
    BY <2>6 DEF ShutdownListener, Step
  <2>7. CASE WriteReport
    <3>1. IsFiniteSet(ack)
      BY ConstantsAssumption, FS_AddElement, FS_Subset
    <3>2. Cardinality(ack) \in Nat
      BY <3>1, FS_CardinalityType
    <3>3. report' \in [acked : SUBSET Cookies, covered : Nat]
      BY <2>7, <3>2 DEF WriteReport, RangeOfAck
    <3> QED  BY <2>7, <3>3 DEF WriteReport, Step
  <2>8. CASE WriteReportFails
    BY <2>8 DEF WriteReportFails, Step
  <2>9. CASE CloseEventBuf
    BY <2>9 DEF CloseEventBuf
  <2> QED  BY <1>2, <2>1, <2>2, <2>3, <2>4, <2>5, <2>6, <2>7, <2>8, <2>9
           DEF RunStep
<1>3. CASE Cancel
  BY <1>3 DEF Cancel, probeVars, pipeVars, ProbeTypeOK
<1>4. CASE Poll
  <2>1. ring \in Seq(Record) /\ ring # <<>>
    BY <1>4 DEF Poll, ProbeTypeOK
  <2>2. Head(ring) \in Record /\ ring' \in Seq(Record) /\ Len(ring') = Len(ring) - 1
    BY <1>4, <2>1, RangeTail DEF Poll
  <2>3. eventsCh' \in Seq(Cookies) /\ Len(eventsCh') = Len(eventsCh) + 1
    BY <1>4, <2>2, AppendProperties DEF Poll, Record
  <2>4. Len(eventsCh) \in Nat /\ Len(ring) \in Nat
    BY <2>1, LenProperties
  <2>5. Len(eventsCh') <= EventsCap
    BY <1>4, <2>3, <2>4, ChannelsAssumption DEF Poll
  <2>6. ProbeTypeOK'
    BY <1>4, <2>2, <2>4, ConstantsAssumption DEF Poll, ProbeTypeOK
  <2> QED  BY <1>4, <2>3, <2>5, <2>6 DEF Poll, runVars
<1>5. CASE IngestRecv
  <2>1. CASE eventsCh = <<>>
    BY <1>5, <2>1 DEF IngestRecv, Carrying, probeVars, runVars, ProbeTypeOK
  <2>2. CASE eventsCh # <<>>
    <3>1. /\ Head(eventsCh) \in Cookies
          /\ Tail(eventsCh) \in Seq(Cookies)
          /\ Len(Tail(eventsCh)) = Len(eventsCh) - 1
      BY <2>2, RangeTail
    <3>2. Len(eventsCh) \in Nat
      BY LenProperties
    <3>3. eventsCh' \in Seq(Cookies) /\ Len(eventsCh') <= EventsCap
      BY <1>5, <2>2, <3>1, <3>2, ChannelsAssumption DEF IngestRecv
    <3>4. ingest' \in Goroutine
      BY <1>5, <2>2, <3>1 DEF IngestRecv, Carrying
    <3> QED  BY <1>5, <3>3, <3>4
             DEF IngestRecv, probeVars, runVars, ProbeTypeOK
  <2> QED  BY <2>1, <2>2
<1>6. CASE IngestSend
  <2>1. /\ feedCh' \in Seq(Cookies \cup {ZeroCookie})
        /\ Len(feedCh') = Len(feedCh) + 1
    BY <1>6, AppendProperties DEF IngestSend
  <2>2. Len(feedCh') <= FeedCap
    BY <1>6, <2>1, LenProperties, ChannelsAssumption DEF IngestSend
  <2> QED  BY <1>6, <2>1, <2>2
           DEF IngestSend, At, probeVars, runVars, ProbeTypeOK
<1>7. CASE IngestStop
  BY <1>7 DEF IngestStop, At, probeVars, runVars, ProbeTypeOK
<1>8. CASE ProcessRecv
  <2>1. /\ Head(feedCh) \in Cookies \cup {ZeroCookie}
        /\ feedCh' \in Seq(Cookies \cup {ZeroCookie})
        /\ Len(feedCh') = Len(feedCh) - 1
    BY <1>8, RangeTail DEF ProcessRecv
  <2>2. Len(feedCh') <= FeedCap
    BY <2>1, LenProperties, ChannelsAssumption
  <2> QED  BY <1>8, <2>1, <2>2
           DEF ProcessRecv, Carrying, probeVars, runVars, ProbeTypeOK
<1>9. CASE ProcessHandle
  <2>1. printed' \in Seq(Cookies \cup {ZeroCookie})
    BY <1>9, AppendProperties DEF ProcessHandle
  <2> QED  BY <1>9, <2>1
           DEF ProcessHandle, At, probeVars, runVars, ProbeTypeOK
<1>10. CASE ProcessStop
  BY <1>10 DEF ProcessStop, At, probeVars, runVars, ProbeTypeOK
<1>11. CASE UNCHANGED vars
  BY <1>11 DEF vars, probeVars, runVars, pipeVars, ProbeTypeOK
<1> QED  BY <1>1, <1>2, <1>3, <1>4, <1>5, <1>6, <1>7, <1>8, <1>9, <1>10, <1>11
         DEF Next

\* Every variable of the tracer keeps its type, and the ring and the channels
\* of Run keep to their capacities, whatever these are.
THEOREM TypeInvariant == Spec => []TypeOK
BY InitTypes, NextTypes, PTL DEF Spec

----------------------------------------------------------------------------
(* Where events are.                                                       *)

\* The cookies held by the program runs of all threads but t.
HeldByOthers(t) ==
  {prog[u].cookie : u \in {v \in Threads \ {t} : prog[v].at # "user"}}

\* What a move of thread t does to the cookies held by program runs.
LEMMA GotoHeld ==
  ASSUME ProbeTypeOK, NEW t \in Threads, NEW at, NEW c, Goto(t, at, c)
  PROVE  /\ HeldByProgram = HeldByOthers(t)
                              \cup IF prog[t].at = "user" THEN {} ELSE {prog[t].cookie}
         /\ HeldByProgram' = HeldByOthers(t) \cup IF at = "user" THEN {} ELSE {c}
         /\ prog'[t].at = at /\ prog'[t].cookie = c
         /\ \A u \in Threads \ {t} : prog'[u] = prog[u]
<1>1. prog'[t].at = at /\ prog'[t].cookie = c
  BY DEF Goto, ProbeTypeOK
<1>2. \A u \in Threads \ {t} : prog'[u] = prog[u]
  BY DEF Goto, ProbeTypeOK
<1> QED  BY <1>1, <1>2 DEF HeldByProgram, HeldByOthers

\* A step of the kernel program keeps every event accounted for: what leaves a
\* program run is in the ring or was lost.
LEMMA KernelFlow ==
  ASSUME TypeOK, FlowInv, KernelStep
  PROVE  FlowInv'
<1> USE DEF FlowInv
<1> DEFINE Beyond == Range(eventsCh) \cup Carried(ingest, "send")
                       \cup Range(feedCh) \cup Carried(process, "handle")
<1>1. /\ InFlight = HeldByProgram \cup InRing \cup Beyond
      /\ InFlight' = HeldByProgram' \cup InRing' \cup Beyond
      /\ ack' = ack
  BY DEF InFlight, KernelStep, runVars, pipeVars, Carried, Range
<1> HIDE DEF Beyond
<1>2. RunOrder'
  BY DEF KernelStep, RunOrder, runVars, pipeVars, Returned
<1>3. ProbeTypeOK
  BY DEF TypeOK
<1> SUFFICES ASSUME NEW t \in Threads,
                    Continue(t) \/ \E c \in Cookies : Enter(t, c)
             PROVE  Accounted' /\ OnlyHits' /\ SubmitHeld'
  BY <1>2 DEF KernelStep, Probe
<1>4. ASSUME NEW c \in Cookies, Enter(t, c)
      PROVE  Accounted' /\ OnlyHits' /\ SubmitHeld'
  <2>1. InRing' = InRing
    BY <1>4 DEF Enter, InRing, Range
  <2>2. CASE c \in seen
    <3>1. hits' = hits
      BY <1>4, <2>2 DEF Enter, OnlyHits
    <3>2. prog' = prog
      BY <1>4, <2>2 DEF Enter
    <3>3. HeldByProgram' = HeldByProgram
      BY <3>2 DEF HeldByProgram
    <3> QED  BY <1>1, <1>4, <2>1, <3>1, <3>2, <3>3
             DEF Accounted, OnlyHits, SubmitHeld, Enter
  <2>3. CASE c \notin seen
    <3>1. Goto(t, "mark", c)
      BY <1>4, <2>3 DEF Enter
    <3>2. HeldByProgram' = HeldByProgram \cup {c}
      BY <1>3, <1>4, <3>1, GotoHeld DEF Enter
    <3>3. SubmitHeld'
      BY <1>3, <1>4, <3>1, GotoHeld DEF SubmitHeld, Enter
    <3>4. Accounted' /\ OnlyHits'
      BY <1>1, <1>4, <2>1, <3>2 DEF Accounted, OnlyHits, Enter
    <3> QED  BY <3>3, <3>4
  <2> QED  BY <2>2, <2>3
<1>5. CASE MarkSeen(t)
  <2>1. InRing' = InRing
    BY <1>5 DEF MarkSeen, InRing, Range
  <2>2. HeldByProgram' = HeldByProgram
    BY <1>3, <1>5, GotoHeld DEF MarkSeen
  <2>3. prog[t].cookie \in hits
    BY <1>1, <1>5 DEF OnlyHits, HeldByProgram, MarkSeen
  <2>4. SubmitHeld'
    BY <1>3, <1>5, GotoHeld DEF SubmitHeld, MarkSeen
  <2> QED  BY <1>1, <1>5, <2>1, <2>2, <2>3, <2>4
           DEF Accounted, OnlyHits, MarkSeen, SeenWith
<1>6. CASE Reserve(t)
  <2> DEFINE reserved == [cookie |-> prog[t].cookie, owner |-> t]
  <2>1. ring \in Seq(Record) /\ reserved \in Record
    BY <1>3, <1>6 DEF Reserve, ProbeTypeOK, Record
  <2>2. Range(ring') = Range(ring) \cup {reserved}
    BY <1>6, <2>1, RangeAppend DEF Reserve
  <2>3. InRing' = InRing \cup {prog[t].cookie}
    <3>1. reserved.cookie = prog[t].cookie
      OBVIOUS
    <3> HIDE DEF reserved
    <3> QED  BY <2>2, <3>1 DEF InRing
  <2>4. HeldByProgram' = HeldByProgram
    <3>1. Goto(t, "submit", prog[t].cookie) /\ prog[t].at = "reserve"
      BY <1>6 DEF Reserve
    <3> QED  BY <1>3, <3>1, GotoHeld
  <2>5. prog[t].cookie \in HeldByProgram
    BY <1>6 DEF Reserve, HeldByProgram
  <2>6. SubmitHeld'
    BY <1>3, <1>6, <2>2, GotoHeld DEF SubmitHeld, Reserve
  <2> QED  BY <1>1, <1>6, <2>3, <2>4, <2>5, <2>6 DEF Accounted, OnlyHits, Reserve
<1>7. CASE ReserveFail(t)
  <2>1. InRing' = InRing
    BY <1>7 DEF ReserveFail, InRing, Range
  <2>2. HeldByProgram = HeldByProgram' \cup {prog[t].cookie}
    BY <1>3, <1>7, GotoHeld DEF ReserveFail
  <2>3. SubmitHeld'
    BY <1>3, <1>7, GotoHeld DEF SubmitHeld, ReserveFail
  <2> QED  BY <1>1, <1>7, <2>1, <2>2, <2>3 DEF Accounted, OnlyHits, ReserveFail
<1>8. CASE Submit(t)
  <2>1. \A i \in DOMAIN ring : ring[i] \in Record
    BY <1>3 DEF ProbeTypeOK
  <2>2. /\ DOMAIN ring' = DOMAIN ring
        /\ \A i \in DOMAIN ring : /\ ring'[i].cookie = ring[i].cookie
                                  /\ ring[i].owner # t => ring'[i] = ring[i]
    BY <1>8, <2>1 DEF Submit, Record
  <2>3. InRing' = InRing
    BY <2>2 DEF InRing, Range
  <2>4. prog[t].cookie \in InRing
    BY <1>8 DEF SubmitHeld, InRing, Submit
  <2>5. HeldByProgram = HeldByProgram' \cup {prog[t].cookie}
    BY <1>3, <1>8, GotoHeld DEF Submit
  <2>6. SubmitHeld'
    <3> SUFFICES ASSUME NEW u \in Threads, prog'[u].at = "submit"
                 PROVE  \E r \in Range(ring') : r.owner = u /\ r.cookie = prog'[u].cookie
      BY DEF SubmitHeld
    <3>1. u # t /\ prog'[u] = prog[u]
      BY <1>3, <1>8, GotoHeld DEF Submit
    <3>2. PICK i \in DOMAIN ring : ring[i].owner = u /\ ring[i].cookie = prog[u].cookie
      BY <3>1 DEF SubmitHeld, Range
    <3>3. ring'[i] \in Range(ring') /\ ring'[i] = ring[i]
      BY <2>2, <3>1, <3>2 DEF Range
    <3> QED  BY <3>1, <3>2, <3>3
  <2> QED  BY <1>1, <1>8, <2>3, <2>4, <2>5, <2>6 DEF Accounted, OnlyHits, Submit
<1> QED  BY <1>4, <1>5, <1>6, <1>7, <1>8 DEF Continue

\* A step that leaves the program runs and the ring alone keeps their events.
LEMMA QuietKernel ==
  ASSUME UNCHANGED <<prog, ring>>
  PROVE  /\ HeldByProgram' = HeldByProgram
         /\ InRing' = InRing
         /\ SubmitHeld' = SubmitHeld
BY DEF HeldByProgram, InRing, SubmitHeld, Range

\* A step of Run itself moves no event, and keeps the order in which goroutines
\* are started, joined and cut off from the ring.
LEMMA RunStepFlow ==
  ASSUME TypeOK, FlowInv, RunStep
  PROVE  FlowInv'
<1> USE DEF FlowInv
<1>1. /\ UNCHANGED <<prog, ring, seen, hits, lost>>
      /\ UNCHANGED <<eventsCh, feedCh, ack>>
  BY DEF RunStep, AttachBatch, Start, InitEventBufFails, NotifyReadiness, Join,
         ShutdownListener, WriteReport, WriteReportFails, CloseEventBuf, Step,
         probeVars, pipeVars
<1>2. \/ UNCHANGED <<ingest, process>>
      \/ Start
  BY DEF RunStep, AttachBatch, InitEventBufFails, NotifyReadiness, Join,
         ShutdownListener, WriteReport, WriteReportFails, CloseEventBuf, Step,
         pipeVars
<1>3. /\ Carried(ingest, "send")' = Carried(ingest, "send")
      /\ Carried(process, "handle")' = Carried(process, "handle")
  BY <1>2 DEF Carried, Start, At, RunOrder
<1>4. InFlight' = InFlight
  BY <1>1, <1>3, QuietKernel DEF InFlight, Range
<1>5. Accounted' /\ OnlyHits' /\ SubmitHeld'
  BY <1>1, <1>4, QuietKernel DEF Accounted, OnlyHits
<1>6. RunOrder'
  BY DEF TypeOK, RunOrder, RunStep, AttachBatch, Start, InitEventBufFails,
         NotifyReadiness, Join, ShutdownListener, WriteReport, WriteReportFails,
         CloseEventBuf, Step, pipeVars, At, Returned
<1> QED  BY <1>5, <1>6

\* Before the first batch of probes nothing was entered and nothing is on its way.
LEMMA InitFlow == Init => FlowInv
BY EmptySeq
   DEF Init, ProbeInit, InUser, FlowInv, Accounted, OnlyHits, SubmitHeld,
       RunOrder, InFlight, HeldByProgram, InRing, Range, Carried, At

\* Every step hands each event on to one next place, or counts it as lost.
LEMMA NextFlow == TypeOK /\ FlowInv /\ [Next]_vars => FlowInv'
<1> SUFFICES ASSUME TypeOK, FlowInv, [Next]_vars
             PROVE  FlowInv'
  OBVIOUS
<1> USE DEF FlowInv
<1>1. CASE KernelStep
  BY <1>1, KernelFlow
<1>2. CASE RunStep
  BY <1>2, RunStepFlow
<1>3. CASE Cancel \/ UNCHANGED vars
  <2>1. UNCHANGED <<attached, probeVars, pipeVars, main, closed>>
    BY <1>3 DEF Cancel, vars, runVars
  <2>2. InFlight' = InFlight
    BY <2>1, QuietKernel DEF InFlight, Range, Carried, probeVars, pipeVars
  <2> QED  BY <2>1, <2>2, QuietKernel
           DEF Accounted, OnlyHits, RunOrder, Returned, probeVars, pipeVars
<1>4. CASE Poll
  <2>1. ring \in Seq(Record) /\ eventsCh \in Seq(Cookies)
    BY DEF TypeOK, ProbeTypeOK
  <2>2. Range(ring) = {Head(ring)} \cup Range(ring') /\ Head(ring) \in Record
    BY <1>4, <2>1, RangeTail DEF Poll
  <2>3. Range(eventsCh') = Range(eventsCh) \cup {Head(ring).cookie}
    BY <1>4, <2>1, <2>2, RangeAppend DEF Poll, Record
  <2>4. InRing = InRing' \cup {Head(ring).cookie}
    BY <2>2 DEF InRing
  <2>5. HeldByProgram' = HeldByProgram
    BY <1>4 DEF Poll, HeldByProgram
  <2>6. InFlight' = InFlight
    BY <1>4, <2>3, <2>4, <2>5 DEF InFlight, Poll, Carried, Range
  <2>7. SubmitHeld'
    <3>1. \A t \in Threads : Head(ring).owner # t
      BY <1>4, ConstantsAssumption DEF Poll
    <3> QED  BY <1>4, <2>2, <3>1 DEF SubmitHeld, Poll
  <2> QED  BY <1>4, <2>6, <2>7
           DEF Accounted, OnlyHits, RunOrder, Returned, Poll, runVars
<1>5. CASE IngestRecv
  <2>1. main \notin {"attaching", "joined", "stopped", "reported", "failed"}
    BY <1>5 DEF IngestRecv, RunOrder
  <2>2. ~closed /\ eventsCh # <<>>
    BY <1>5, <2>1 DEF IngestRecv, RunOrder, Returned
  <2>3. Range(eventsCh) = {Head(eventsCh)} \cup Range(eventsCh')
    BY <1>5, <2>2, RangeTail DEF IngestRecv, TypeOK
  <2>4. Carried(ingest, "send") = {} /\ Carried(ingest, "send")' = {Head(eventsCh)}
    BY <1>5, <2>2 DEF IngestRecv, Carried, Carrying
  <2>5. UNCHANGED <<prog, ring>>
    BY <1>5 DEF IngestRecv, probeVars
  <2>6. InFlight' = InFlight
    BY <1>5, <2>3, <2>4, <2>5, QuietKernel
       DEF InFlight, IngestRecv, Range, Carried
  <2>7. RunOrder'
    BY <1>5, <2>1, <2>2 DEF RunOrder, IngestRecv, runVars
  <2> QED  BY <1>5, <2>5, <2>6, <2>7, QuietKernel
           DEF Accounted, OnlyHits, IngestRecv, probeVars
<1>6. CASE IngestSend
  <2>1. ingest.cookie \in Cookies \cup {ZeroCookie}
    BY DEF TypeOK, Goroutine
  <2>2. Range(feedCh') = Range(feedCh) \cup {ingest.cookie}
    BY <1>6, <2>1, RangeAppend DEF IngestSend, TypeOK
  <2>3. Carried(ingest, "send") = {ingest.cookie} /\ Carried(ingest, "send")' = {}
    BY <1>6 DEF IngestSend, Carried, At
  <2>4. UNCHANGED <<prog, ring>>
    BY <1>6 DEF IngestSend, probeVars
  <2>5. InFlight' = InFlight
    BY <1>6, <2>2, <2>3, <2>4, QuietKernel
       DEF InFlight, IngestSend, Range, Carried
  <2>6. RunOrder'
    BY <1>6 DEF RunOrder, IngestSend, runVars, Returned
  <2> QED  BY <1>6, <2>4, <2>5, <2>6, QuietKernel
           DEF Accounted, OnlyHits, IngestSend, probeVars
<1>7. CASE ProcessRecv
  <2>1. Range(feedCh) = {Head(feedCh)} \cup Range(feedCh')
    BY <1>7, RangeTail DEF ProcessRecv, TypeOK
  <2>2. Carried(process, "handle") = {} /\ Carried(process, "handle")' = {Head(feedCh)}
    BY <1>7 DEF ProcessRecv, Carried, Carrying
  <2>3. UNCHANGED <<prog, ring>>
    BY <1>7 DEF ProcessRecv, probeVars
  <2>4. InFlight' = InFlight
    BY <1>7, <2>1, <2>2, <2>3, QuietKernel
       DEF InFlight, ProcessRecv, Range, Carried
  <2>5. RunOrder'
    BY <1>7 DEF RunOrder, ProcessRecv, runVars, Returned
  <2> QED  BY <1>7, <2>3, <2>4, <2>5, QuietKernel
           DEF Accounted, OnlyHits, ProcessRecv, probeVars
<1>8. CASE ProcessHandle
  <2>1. Carried(process, "handle") = {process.cookie}
    BY <1>8 DEF ProcessHandle, Carried
  <2>2. Carried(process, "handle")' = {}
    BY <1>8 DEF ProcessHandle, Carried, At
  <2>3. UNCHANGED <<prog, ring>>
    BY <1>8 DEF ProcessHandle, probeVars
  <2>4. InFlight = InFlight' \cup {process.cookie}
    BY <1>8, <2>1, <2>2, <2>3, QuietKernel
       DEF InFlight, ProcessHandle, Range, Carried
  <2>5. RunOrder'
    BY <1>8 DEF RunOrder, ProcessHandle, runVars, Returned
  <2> QED  BY <1>8, <2>3, <2>4, <2>5, QuietKernel
           DEF Accounted, OnlyHits, ProcessHandle, probeVars
<1>9. CASE IngestStop \/ ProcessStop
  <2>1. /\ Carried(ingest, "send")' = Carried(ingest, "send")
        /\ Carried(process, "handle")' = Carried(process, "handle")
    BY <1>9 DEF IngestStop, ProcessStop, Carried, At
  <2>2. UNCHANGED <<probeVars, runVars, eventsCh, feedCh, ack>>
    BY <1>9 DEF IngestStop, ProcessStop
  <2>3. InFlight' = InFlight
    BY <2>1, <2>2, QuietKernel DEF InFlight, Range, probeVars
  <2>4. RunOrder'
    BY <1>9 DEF IngestStop, ProcessStop, At, RunOrder, runVars, Returned
  <2> QED  BY <2>2, <2>3, <2>4, QuietKernel DEF Accounted, OnlyHits, probeVars
<1> QED  BY <1>1, <1>2, <1>3, <1>4, <1>5, <1>6, <1>7, <1>8, <1>9 DEF Next

\* The inductive invariant: events are neither lost outside the ring nor
\* invented, in every reachable state of a run.
THEOREM FlowInvariant == Spec => []FlowInv
<1>1. TypeOK /\ FlowInv /\ [Next]_vars => FlowInv'
  BY NextFlow
<1> QED  BY <1>1, InitFlow, TypeInvariant, PTL DEF Spec

\* Of every function entered, the event is acknowledged, on its way, or was lost
\* to a full ring: no interleaving of the threads of the traced program and of
\* the goroutines of Run makes it vanish anywhere else.
THEOREM EveryHitAccounted == Spec => []Accounted
<1>1. FlowInv => Accounted
  BY DEF FlowInv
<1> QED  BY <1>1, FlowInvariant, PTL

----------------------------------------------------------------------------
(* The report and the verbose output.                                      *)

\* A share of at most everything is at most a hundred percent.
LEMMA PercentBound ==
  ASSUME NEW part \in Nat, NEW whole \in Nat \ {0}, part <= whole
  PROVE  (part * 100) \div whole \in 0 .. 100
<1> DEFINE q == (part * 100) \div whole
<1>1. q \in Int /\ q * whole <= part * 100 /\ part * 100 < (q + 1) * whole
  OBVIOUS
<1>2. ~(q > 100)
  <2> SUFFICES ASSUME q > 100
               PROVE  FALSE
    OBVIOUS
  <2>1. q * whole >= 101 * whole
    BY <1>1
  <2> QED  BY <1>1, <2>1
<1>3. ~(q < 0)
  <2> SUFFICES ASSUME q < 0
               PROVE  FALSE
    OBVIOUS
  <2>1. (q + 1) * whole <= 0
    BY <1>1
  <2> QED  BY <1>1, <2>1
<1> QED  BY <1>1, <1>2, <1>3

\* At any moment of any run the share of functions acknowledged fits the status
\* bar: an acknowledged cookie is always that of a function.
THEOREM BarNeverOverflows == Spec => []BarFits
<1>1. TypeOK /\ FlowInv => BarFits
  <2> SUFFICES ASSUME TypeOK, FlowInv
               PROVE  BarFits
    OBVIOUS
  <2>1. ack \subseteq Cookies /\ IsFiniteSet(Cookies) /\ Cookies # {}
    BY ConstantsAssumption DEF FlowInv, OnlyHits, TypeOK, ProbeTypeOK
  <2>2. Cardinality(Cookies) \in Nat \ {0}
    BY <2>1, FS_CardinalityType, FS_EmptySet
  <2>3. Cardinality(ack) \in Nat /\ Cardinality(ack) <= Cardinality(Cookies)
    BY <2>1, FS_Subset, FS_CardinalityType
  <2>4. Percent \in 0 .. 100
    BY <2>2, <2>3, PercentBound DEF Percent
  <2>5. Filled(Percent) <= BarWidth
    BY <2>4 DEF Filled, BarWidth
  <2> QED  BY <2>5 DEF BarFits
<1> QED  BY <1>1, TypeInvariant, FlowInvariant, PTL


\* The verbose output names every acknowledged function once, however many
\* events the threads of the program sent for it.
THEOREM PrintedExactlyOnce == Spec => []PrintedOnce
<1>1. Init => PrintedOnce
  BY EmptySeq DEF Init, PrintedOnce, IsInjective, Range
<1>2. TypeOK /\ PrintedOnce /\ [Next]_vars => PrintedOnce'
  <2> SUFFICES ASSUME TypeOK, PrintedOnce, [Next]_vars
               PROVE  PrintedOnce'
    OBVIOUS
  <2>1. CASE ProcessHandle /\ process.cookie \notin ack
    <3> DEFINE c == process.cookie
    <3>1. printed \in Seq(Cookies \cup {ZeroCookie}) /\ c \in Cookies \cup {ZeroCookie}
      BY DEF TypeOK, Goroutine
    <3>2. printed' = Append(printed, c) /\ ack' = ack \cup {c} /\ c \notin Range(printed)
      BY <2>1 DEF ProcessHandle, PrintedOnce
    <3> HIDE DEF c
    <3>3. Range(printed') = ack'
      BY <3>1, <3>2, RangeAppend DEF PrintedOnce
    <3>4. /\ Len(printed) \in Nat
          /\ DOMAIN printed = 1 .. Len(printed)
          /\ DOMAIN printed' = 1 .. Len(printed) + 1
          /\ \A i \in 1 .. Len(printed) : printed'[i] = printed[i]
          /\ printed'[Len(printed) + 1] = c
      BY <3>1, <3>2, LenProperties, AppendProperties
    <3>5. \A i \in 1 .. Len(printed) : printed[i] # c
      BY <3>2, <3>4 DEF Range
    <3>6. IsInjective(printed')
      <4> SUFFICES ASSUME NEW i \in 1 .. Len(printed) + 1,
                          NEW j \in 1 .. Len(printed) + 1,
                          printed'[i] = printed'[j]
                   PROVE  i = j
        BY <3>4 DEF IsInjective
      <4>1. CASE i \in 1 .. Len(printed) /\ j \in 1 .. Len(printed)
        BY <3>4, <4>1 DEF PrintedOnce, IsInjective
      <4>2. CASE i = Len(printed) + 1 \/ j = Len(printed) + 1
        BY <3>4, <3>5, <4>2
      <4> QED  BY <3>4, <4>1, <4>2
    <3> QED  BY <3>3, <3>6 DEF PrintedOnce
  <2>2. CASE ProcessHandle /\ process.cookie \in ack
    BY <2>2 DEF ProcessHandle, PrintedOnce, Range, IsInjective
  <2>3. CASE ~ProcessHandle
    <3>1. UNCHANGED <<ack, printed>>
      BY <2>3 DEF Next, vars, KernelStep, RunStep, AttachBatch, Start,
                  InitEventBufFails, NotifyReadiness, Join, ShutdownListener,
                  WriteReport, WriteReportFails, CloseEventBuf, Step, Cancel,
                  Poll, IngestRecv, IngestSend, IngestStop, ProcessRecv,
                  ProcessStop, pipeVars
    <3> QED  BY <3>1 DEF PrintedOnce, Range, IsInjective
  <2> QED  BY <2>1, <2>2, <2>3
<1> QED  BY <1>1, <1>2, TypeInvariant, PTL DEF Spec

\* What a written report says: everything acknowledged, and nothing since.
ReportOfAck ==
  main = "reported" => report.acked = ack /\ report.covered = Cardinality(ack)

\* The step that writes the report finds only functions of the tracee in ack,
\* so ack.Range visits them all.
LEMMA ReportWhole ==
  ASSUME TypeOK, FlowInv, WriteReport
  PROVE  report' = [acked |-> ack, covered |-> Cardinality(ack)]
<1>1. ack \subseteq Cookies
  BY DEF FlowInv, OnlyHits, TypeOK, ProbeTypeOK
<1> QED  BY <1>1 DEF WriteReport, RangeOfAck

\* Nothing is acknowledged after the report is written, so the report and ack stay
\* equal: the goroutines were joined before.
LEMMA ReportInvariant == Spec => []ReportOfAck
<1>1. Init => ReportOfAck
  BY DEF Init, ReportOfAck
<1>2. TypeOK /\ FlowInv /\ ReportOfAck /\ [Next]_vars => ReportOfAck'
  <2> SUFFICES ASSUME TypeOK, FlowInv, ReportOfAck, [Next]_vars
               PROVE  ReportOfAck'
    OBVIOUS
  <2>1. CASE WriteReport
    BY <2>1, ReportWhole DEF ReportOfAck, WriteReport, Step, pipeVars
  <2>2. CASE ProcessHandle
    BY <2>2 DEF ProcessHandle, FlowInv, RunOrder, ReportOfAck, runVars
  <2>3. CASE ~WriteReport /\ ~ProcessHandle
    <3>1. main' = "reported" => main = "reported"
      BY <2>3 DEF Next, vars, KernelStep, RunStep, AttachBatch, Start,
                  InitEventBufFails, NotifyReadiness, Join, ShutdownListener,
                  WriteReportFails, CloseEventBuf, Step, Cancel,
                  Poll, IngestRecv, IngestSend, IngestStop, ProcessRecv,
                  ProcessStop, runVars
    <3>2. UNCHANGED <<ack, report>>
      BY <2>3 DEF Next, vars, KernelStep, RunStep, AttachBatch, Start,
                  InitEventBufFails, NotifyReadiness, Join, ShutdownListener,
                  WriteReportFails, CloseEventBuf, Step, Cancel,
                  Poll, IngestRecv, IngestSend, IngestStop, ProcessRecv,
                  ProcessStop, runVars, pipeVars
    <3> QED  BY <3>1, <3>2 DEF ReportOfAck
  <2> QED  BY <2>1, <2>2, <2>3
<1> QED  BY <1>1, <1>2, TypeInvariant, FlowInvariant, PTL DEF Spec

\* The percentage of the report is the percentage of the functions it lists.
THEOREM PercentOfListed == Spec => []PercentMatchesList
<1>1. ReportOfAck => PercentMatchesList
  BY DEF ReportOfAck, PercentMatchesList
<1> QED  BY <1>1, ReportInvariant, PTL

\* A written report misses no function but those whose event was in flight when
\* the goroutines stopped, or lost to a full ring.
THEOREM ReportMissesNone == Spec => []ReportComplete
<1>1. ReportOfAck /\ FlowInv => ReportComplete
  BY DEF ReportOfAck, FlowInv, Accounted, ReportComplete
<1> QED  BY <1>1, ReportInvariant, FlowInvariant, PTL

----------------------------------------------------------------------------
(* EventPipeline implements Coverage.                                      *)

\* The three steps of the code the abstract profiler sees, and the rest.
LEMMA StepSimulation ==
  TypeOK /\ FlowInv /\ [Next]_vars => [Abstract!Next]_(Abstract!vars)
<1> SUFFICES ASSUME TypeOK, FlowInv, [Next]_vars
             PROVE  Abstract!Next \/ UNCHANGED Abstract!vars
  OBVIOUS
<1> USE DEF Abstract!Next, Abstract!vars
<1>1. CASE KernelStep
  <2>1. hits' = hits \/ \E c \in Cookies : hits' = hits \cup {c}
    BY <1>1 DEF KernelStep, Probe, Continue, Enter, MarkSeen, Reserve,
                ReserveFail, Submit
  <2> QED  BY <1>1, <2>1 DEF KernelStep, runVars, pipeVars, Abstract!Execute
<1>2. CASE RunStep
  <2> USE DEF Step, probeVars, pipeVars
  <2>1. CASE Join
    BY <2>1 DEF Join, Abstract!Collected
  <2>2. CASE WriteReport
    <3>1. report'.acked = ack
      BY <2>2, ReportWhole
    <3> QED  BY <2>2, <3>1 DEF WriteReport, Abstract!Publish
  <2>3. CASE InitEventBufFails \/ WriteReportFails
    BY <2>3 DEF InitEventBufFails, WriteReportFails, Abstract!Fail
  <2>4. CASE ShutdownListener
    BY <2>4 DEF ShutdownListener, Abstract!Fail
  <2>5. CASE AttachBatch \/ Start \/ NotifyReadiness \/ CloseEventBuf
    BY <2>5 DEF AttachBatch, Start, NotifyReadiness, CloseEventBuf
  <2> QED  BY <1>2, <2>1, <2>2, <2>3, <2>4, <2>5 DEF RunStep
<1>3. CASE ProcessHandle
  <2>1. main \in {"attaching", "started", "tracing"}
    BY <1>3 DEF TypeOK, FlowInv, RunOrder, ProcessHandle
  <2>2. process.cookie \in hits
    BY <1>3 DEF FlowInv, OnlyHits, InFlight, Carried, ProcessHandle
  <2> QED  BY <1>3, <2>1, <2>2
           DEF ProcessHandle, probeVars, runVars, Abstract!Acknowledge
<1>4. CASE Cancel \/ Poll \/ IngestRecv \/ IngestSend \/ IngestStop
             \/ ProcessRecv \/ ProcessStop \/ UNCHANGED vars
  <2>1. UNCHANGED <<hits, ack, main, report>>
    BY <1>4 DEF Cancel, Poll, IngestRecv, IngestSend, IngestStop, ProcessRecv,
                ProcessStop, vars, probeVars, runVars, pipeVars
  <2> QED  BY <2>1
<1> QED  BY <1>1, <1>2, <1>3, <1>4 DEF Next

\* Whatever the capacities, the losses and the interleaving: only executed
\* functions are acknowledged, none after the goroutines are joined, and the
\* report lists all of them.
THEOREM Implementation == Spec => ImplementsCoverage
<1>1. Init => Abstract!Init
  BY DEF Init, ProbeInit, NoReport, Abstract!Init
<1> QED  BY <1>1, StepSimulation, TypeInvariant, FlowInvariant, PTL
         DEF Spec, ImplementsCoverage, Abstract!Spec

=============================================================================
