--------------------------- MODULE CapacityProofs ---------------------------
(***************************************************************************)
(* What EventPipeline does when its capacities are ample: for finitely     *)
(* many functions and threads,                                             *)
(*                                                                         *)
(*   RingNeverFull   no event is lost, if seen_funcs has room for every    *)
(*                   function and the ring for one record of every         *)
(*                   function from every thread                            *)
(*   SendsNeverWait  ingestEvents never waits for room in feedCh, if that  *)
(*                   channel has the same room                             *)
(*                                                                         *)
(* Neither is inductive.  What is, is a fact about where an event came     *)
(* from, which no variable records: the events between the ring and        *)
(* processEvents can be dealt out to the threads so that no thread has two *)
(* of one function (OnePerThread).  That holds because a function whose    *)
(* event is under way is in seen_funcs (MarkedFirst), so that no thread    *)
(* begins another event of it.                                             *)
(***************************************************************************)
EXTENDS EventPipelineProofs

----------------------------------------------------------------------------
(* The events under way, as one queue.                                     *)

CookiesIn(records) == [i \in DOMAIN records |-> records[i].cookie]
Sending            == IF ingest.at = "send" THEN <<ingest.cookie>> ELSE <<>>

\* The cookies between Reserve and ProcessRecv, oldest first.
Queued == feedCh \o (Sending \o (eventsCh \o CookiesIn(ring)))

\* The first of a queue moves to the end of the queue before it.
LEMMA MoveOver ==
  ASSUME NEW S, NEW s \in Seq(S), NEW t \in Seq(S), t # <<>>
  PROVE  Append(s, Head(t)) \o Tail(t) = s \o t
<1>1. Head(t) \in S /\ Tail(t) \in Seq(S) /\ Len(Tail(t)) = Len(t) - 1
  BY HeadTailProperties
<1>2. \A i \in 1 .. Len(t) - 1 : Tail(t)[i] = t[i + 1]
  BY <1>1, HeadTailProperties
<1>3. Len(t) \in Nat \ {0} /\ Len(s) \in Nat /\ Head(t) = t[1]
  BY EmptySeq, LenProperties
<1>4. /\ Append(s, Head(t)) \in Seq(S)
      /\ Len(Append(s, Head(t))) = Len(s) + 1
      /\ \A i \in 1 .. Len(s) : Append(s, Head(t))[i] = s[i]
      /\ Append(s, Head(t))[Len(s) + 1] = t[1]
  BY <1>1, <1>3, AppendProperties
<1> DEFINE a == Append(s, Head(t))
           b == Tail(t)
<1>5. a \in Seq(S) /\ b \in Seq(S) /\ Len(a) = Len(s) + 1 /\ Len(b) = Len(t) - 1
  BY <1>1, <1>4
<1>6. /\ \A i \in 1 .. Len(s) : a[i] = s[i]
      /\ a[Len(s) + 1] = t[1]
      /\ \A i \in 1 .. Len(t) - 1 : b[i] = t[i + 1]
  BY <1>2, <1>4
<1> HIDE DEF a, b
<1>7. /\ a \o b \in Seq(S)
      /\ Len(a \o b) = Len(a) + Len(b)
      /\ \A i \in 1 .. Len(a) + Len(b) :
           (a \o b)[i] = IF i <= Len(a) THEN a[i] ELSE b[i - Len(a)]
  BY <1>5, ConcatProperties
<1>8. /\ s \o t \in Seq(S)
      /\ Len(s \o t) = Len(s) + Len(t)
      /\ \A i \in 1 .. Len(s) + Len(t) :
           (s \o t)[i] = IF i <= Len(s) THEN s[i] ELSE t[i - Len(s)]
  BY ConcatProperties
<1>9. Len(a) + Len(b) = Len(s) + Len(t)
  BY <1>3, <1>5
<1>10. ASSUME NEW i \in 1 .. Len(s) + Len(t)
       PROVE  (a \o b)[i] = (s \o t)[i]
  <2>1. CASE i <= Len(s)
    <3>1. (s \o t)[i] = s[i] /\ i <= Len(a) /\ a[i] = s[i]
      BY <1>3, <1>5, <1>6, <1>8, <2>1
    <3> QED  BY <1>7, <1>9, <3>1
  <2>2. CASE i = Len(s) + 1
    <3>1. (s \o t)[i] = t[1] /\ i <= Len(a) /\ a[i] = t[1]
      BY <1>3, <1>5, <1>6, <1>8, <2>2
    <3> QED  BY <1>7, <1>9, <3>1
  <2>3. CASE i > Len(s) + 1
    <3>1. (s \o t)[i] = t[i - Len(s)]
      BY <1>3, <1>8, <2>3
    <3>2. (a \o b)[i] = b[i - (Len(s) + 1)]
      BY <1>3, <1>5, <1>7, <1>9, <2>3
    <3>3. i - (Len(s) + 1) \in 1 .. Len(t) - 1
      BY <1>3, <2>3
    <3>4. b[i - (Len(s) + 1)] = t[(i - (Len(s) + 1)) + 1]
      BY <1>6, <3>3
    <3>5. (i - (Len(s) + 1)) + 1 = i - Len(s)
      BY <1>3
    <3> QED  BY <3>1, <3>2, <3>4, <3>5
  <2>4. i <= Len(s) \/ i = Len(s) + 1 \/ i > Len(s) + 1
    BY <1>3
  <2> QED  BY <2>1, <2>2, <2>3, <2>4
<1>11. a \o b = s \o t
  BY <1>7, <1>8, <1>9, <1>10, SeqEqual
<1> QED  BY <1>11 DEF a, b

\* The first of a queue of two parts leaves the part in front.
LEMMA TailOfConcat ==
  ASSUME NEW S, NEW s \in Seq(S), NEW t \in Seq(S), s # <<>>
  PROVE  Tail(s \o t) = Tail(s) \o t
<1>1. Head(s) \in S /\ Tail(s) \in Seq(S) /\ <<>> \in Seq(S)
  BY HeadTailProperties, EmptySeq
<1>2. <<Head(s)>> \o Tail(s) = s
  <2>1. Append(<<>>, Head(s)) \o Tail(s) = <<>> \o s
    BY <1>1, MoveOver
  <2>2. Append(<<>>, Head(s)) = <<Head(s)>>
    OBVIOUS
  <2>3. <<>> \o s = s
    BY ConcatEmptySeq
  <2> QED  BY <2>1, <2>2, <2>3
<1>3. <<Head(s)>> \in Seq(S)
  BY <1>1
<1>4. s \o t = <<Head(s)>> \o (Tail(s) \o t)
  BY <1>1, <1>2, <1>3, ConcatAssociative
<1> DEFINE u == Tail(s) \o t
<1>5. u \in Seq(S)
  BY <1>1, ConcatProperties
<1> HIDE DEF u
<1>6. Tail(<<Head(s)>> \o u) = u
  <2>1. <<Head(s)>> \o u \in Seq(S) /\ Len(<<Head(s)>> \o u) = Len(u) + 1
    BY <1>3, <1>5, ConcatProperties
  <2>2. Len(u) \in Nat
    BY <1>5, LenProperties
  <2>3. \A i \in 1 .. Len(u) + 1 : i > 1 => (<<Head(s)>> \o u)[i] = u[i - 1]
    BY <1>3, <1>5, <2>2, ConcatProperties
  <2> DEFINE v == <<Head(s)>> \o u
  <2>4. v \in Seq(S) /\ Len(v) = Len(u) + 1
    BY <2>1
  <2>5. \A i \in 1 .. Len(u) + 1 : i > 1 => v[i] = u[i - 1]
    BY <2>3
  <2> HIDE DEF v
  <2>6. v # <<>>
    BY <2>2, <2>4, EmptySeq
  <2>7. Tail(v) \in Seq(S) /\ Len(Tail(v)) = Len(u)
    BY <2>2, <2>4, <2>6, HeadTailProperties
  <2>8. \A i \in 1 .. Len(u) : Tail(v)[i] = v[i + 1]
    BY <2>4, <2>6, <2>7, HeadTailProperties
  <2>9. \A i \in 1 .. Len(u) : Tail(v)[i] = u[i]
    <3> SUFFICES ASSUME NEW i \in 1 .. Len(u)
                 PROVE  Tail(v)[i] = u[i]
      OBVIOUS
    <3>1. i + 1 \in 1 .. Len(u) + 1 /\ i + 1 > 1 /\ (i + 1) - 1 = i
      BY <2>2
    <3>2. v[i + 1] = u[(i + 1) - 1]
      BY <2>5, <3>1
    <3> QED  BY <2>8, <3>1, <3>2
  <2>10. Tail(v) = u
    BY <1>5, <2>7, <2>9, SeqEqual
  <2> QED  BY <2>10 DEF v
<1> QED  BY <1>4, <1>6 DEF u

\* What Append and Tail of the ring do to the cookies in it.
LEMMA CookiesInRing ==
  ASSUME NEW records \in Seq(Record)
  PROVE  /\ CookiesIn(records) \in Seq(Cookies)
         /\ Len(CookiesIn(records)) = Len(records)
         /\ \A r \in Record :
              CookiesIn(Append(records, r)) = Append(CookiesIn(records), r.cookie)
         /\ records # <<>> =>
              /\ CookiesIn(records) # <<>>
              /\ Head(CookiesIn(records)) = Head(records).cookie
              /\ CookiesIn(Tail(records)) = Tail(CookiesIn(records))
<1> DEFINE types(s) == /\ CookiesIn(s) \in Seq(Cookies)
                       /\ Len(CookiesIn(s)) = Len(s)
                       /\ \A i \in 1 .. Len(s) : CookiesIn(s)[i] = s[i].cookie
<1>1. ASSUME NEW s \in Seq(Record)
      PROVE  types(s)
  <2>1. Len(s) \in Nat /\ DOMAIN s = 1 .. Len(s)
    BY LenProperties
  <2>2. \A i \in 1 .. Len(s) : s[i].cookie \in Cookies
    <3>1. \A i \in 1 .. Len(s) : s[i] \in Record
      BY ElementOfSeq
    <3> QED  BY <3>1 DEF Record
  <2>3. CookiesIn(s) = [i \in 1 .. Len(s) |-> s[i].cookie]
    BY <2>1 DEF CookiesIn
  <2>4. CookiesIn(s) \in [1 .. Len(s) -> Cookies]
    BY <2>2, <2>3
  <2>5. CookiesIn(s) \in Seq(Cookies)
    BY <2>1, <2>4, SeqDef
  <2>6. Len(CookiesIn(s)) = Len(s)
    BY <2>1, <2>3
  <2> QED  BY <2>3, <2>5, <2>6
<1>2. ASSUME NEW r \in Record
      PROVE  CookiesIn(Append(records, r)) = Append(CookiesIn(records), r.cookie)
  <2> DEFINE a == Append(records, r)
             b == Append(CookiesIn(records), r.cookie)
  <2>1. /\ a \in Seq(Record)
        /\ Len(a) = Len(records) + 1
        /\ \A i \in 1 .. Len(records) : a[i] = records[i]
        /\ a[Len(records) + 1] = r
    BY AppendProperties
  <2>2. types(records) /\ r.cookie \in Cookies /\ Len(records) \in Nat
    BY <1>1, LenProperties DEF Record
  <2>3. /\ b \in Seq(Cookies)
        /\ Len(b) = Len(records) + 1
        /\ \A i \in 1 .. Len(records) : b[i] = CookiesIn(records)[i]
        /\ b[Len(records) + 1] = r.cookie
    BY <2>2, AppendProperties
  <2> HIDE DEF a, b
  <2>4. types(a)
    BY <1>1, <2>1
  <2>5. \A i \in 1 .. Len(records) + 1 : CookiesIn(a)[i] = b[i]
    BY <2>1, <2>2, <2>3, <2>4
  <2>6. CookiesIn(a) = b
    BY <2>1, <2>3, <2>4, <2>5, SeqEqual
  <2> QED  BY <2>6 DEF a, b
<1>3. ASSUME records # <<>>
      PROVE  /\ CookiesIn(records) # <<>>
             /\ Head(CookiesIn(records)) = Head(records).cookie
             /\ CookiesIn(Tail(records)) = Tail(CookiesIn(records))
  <2>1. /\ Tail(records) \in Seq(Record)
        /\ Len(Tail(records)) = Len(records) - 1
        /\ \A i \in 1 .. Len(records) - 1 : Tail(records)[i] = records[i + 1]
    BY <1>3, HeadTailProperties
  <2>2. types(records) /\ types(Tail(records)) /\ Len(records) \in Nat \ {0}
    BY <1>1, <1>3, <2>1, EmptySeq
  <2> DEFINE c == CookiesIn(records)
  <2>3. c \in Seq(Cookies) /\ Len(c) = Len(records) /\ c[1] = records[1].cookie
    BY <2>2
  <2>4. \A i \in 1 .. Len(records) : c[i] = records[i].cookie
    BY <2>2
  <2> HIDE DEF c
  <2>5. c # <<>>
    BY <2>2, <2>3, EmptySeq
  <2>6. Tail(c) \in Seq(Cookies) /\ Len(Tail(c)) = Len(records) - 1
    BY <2>3, <2>5, HeadTailProperties
  <2>7. \A i \in 1 .. Len(records) - 1 : Tail(c)[i] = c[i + 1]
    BY <2>3, <2>5, <2>6, HeadTailProperties
  <2>8. \A i \in 1 .. Len(records) - 1 : CookiesIn(Tail(records))[i] = Tail(c)[i]
    <3> SUFFICES ASSUME NEW i \in 1 .. Len(records) - 1
                 PROVE  CookiesIn(Tail(records))[i] = Tail(c)[i]
      OBVIOUS
    <3>1. i + 1 \in 1 .. Len(records)
      BY <2>2
    <3>2. CookiesIn(Tail(records))[i] = Tail(records)[i].cookie
      BY <2>1, <2>2
    <3>3. Tail(records)[i] = records[i + 1] /\ Tail(c)[i] = c[i + 1]
      BY <2>1, <2>7
    <3>4. c[i + 1] = records[i + 1].cookie
      BY <2>4, <3>1
    <3> QED  BY <3>2, <3>3, <3>4
  <2>9. CookiesIn(Tail(records)) = Tail(c)
    BY <2>1, <2>2, <2>6, <2>8, SeqEqual
  <2>10. Head(c) = Head(records).cookie
    BY <2>3
  <2> QED  BY <2>5, <2>9, <2>10 DEF c
<1> QED  BY <1>1, <1>2, <1>3

----------------------------------------------------------------------------
(* The queue moves as one.                                                 *)

\* The parts of the queue hold cookies of functions.
LEMMA QueuedType ==
  ASSUME TypeOK, FlowInv
  PROVE  /\ feedCh \in Seq(Cookies)
         /\ Sending \in Seq(Cookies)
         /\ eventsCh \in Seq(Cookies)
         /\ CookiesIn(ring) \in Seq(Cookies)
         /\ eventsCh \o CookiesIn(ring) \in Seq(Cookies)
         /\ Sending \o (eventsCh \o CookiesIn(ring)) \in Seq(Cookies)
         /\ Queued \in Seq(Cookies)
<1>1. InFlight \subseteq Cookies
  BY DEF FlowInv, OnlyHits, TypeOK, ProbeTypeOK
<1>2. feedCh \in Seq(Cookies)
  <2>1. /\ Len(feedCh) \in Nat
        /\ DOMAIN feedCh = 1 .. Len(feedCh)
        /\ feedCh \in [1 .. Len(feedCh) -> Cookies \cup {ZeroCookie}]
    BY LenProperties DEF TypeOK
  <2>2. \A i \in 1 .. Len(feedCh) : feedCh[i] \in Cookies
    BY <1>1, <2>1 DEF InFlight, Range
  <2>3. feedCh \in [1 .. Len(feedCh) -> Cookies]
    BY <2>1, <2>2
  <2> QED  BY <2>1, <2>3, SeqDef
<1>3. Sending \in Seq(Cookies)
  <2>1. ingest.at = "send" => ingest.cookie \in Cookies
    BY <1>1 DEF InFlight, Carried
  <2> QED  BY <2>1 DEF Sending
<1>4. eventsCh \in Seq(Cookies) /\ CookiesIn(ring) \in Seq(Cookies)
  BY CookiesInRing DEF TypeOK, ProbeTypeOK
<1>5. eventsCh \o CookiesIn(ring) \in Seq(Cookies)
  BY <1>4, ConcatProperties
<1>6. Sending \o (eventsCh \o CookiesIn(ring)) \in Seq(Cookies)
  BY <1>3, <1>5, ConcatProperties
<1>7. Queued \in Seq(Cookies)
  BY <1>2, <1>6, ConcatProperties DEF Queued
<1> QED  BY <1>2, <1>3, <1>4, <1>5, <1>6, <1>7

\* Append on the second part of a queue is Append on the queue.
LEMMA AppendToConcat ==
  ASSUME NEW S, NEW s \in Seq(S), NEW t \in Seq(S), NEW e \in S
  PROVE  s \o Append(t, e) = Append(s \o t, e)
<1>1. <<e>> \in Seq(S) /\ Append(t, e) = t \o <<e>>
  BY AppendIsConcat
<1>2. s \o t \in Seq(S)
  BY ConcatProperties
<1>3. s \o (t \o <<e>>) = (s \o t) \o <<e>>
  BY <1>1, ConcatAssociative
<1>4. (s \o t) \o <<e>> = Append(s \o t, e)
  BY <1>2, AppendIsConcat
<1> QED  BY <1>1, <1>3, <1>4

\* Submit changes the owner of records, not their cookies.
LEMMA SubmitKeepsCookies ==
  ASSUME TypeOK, NEW t \in Threads, Submit(t)
  PROVE  CookiesIn(ring') = CookiesIn(ring)
<1>1. \A i \in DOMAIN ring : ring[i] \in Record
  BY DEF TypeOK, ProbeTypeOK
<1>2. /\ DOMAIN ring' = DOMAIN ring
      /\ \A i \in DOMAIN ring : ring'[i].cookie = ring[i].cookie
  BY <1>1 DEF Submit, Record
<1> QED  BY <1>2 DEF CookiesIn

\* A step appends to the queue the event a thread reserves a record for, or
\* takes the first event off it, or leaves it alone.
LEMMA QueueStep ==
  ASSUME TypeOK, FlowInv, [Next]_vars
  PROVE  \/ \E t \in Threads : Reserve(t) /\ Queued' = Append(Queued, prog[t].cookie)
         \/ /\ UNCHANGED <<prog, seen>>
            /\ Queued # <<>> /\ Queued' = Tail(Queued)
         \/ /\ UNCHANGED <<prog, seen>> \/ \E t \in Threads :
                                             \/ MarkSeen(t)
                                             \/ ReserveFail(t)
                                             \/ Submit(t)
                                             \/ \E c \in Cookies : Enter(t, c)
            /\ Queued' = Queued
<1>1. CASE KernelStep
  <2> PICK t \in Threads : Continue(t) \/ \E c \in Cookies : Enter(t, c)
    BY <1>1 DEF KernelStep, Probe
  <2>1. UNCHANGED <<feedCh, Sending, eventsCh>>
    BY <1>1 DEF KernelStep, pipeVars, Sending
  <2>2. CASE Reserve(t)
    <3>1. prog[t].cookie \in Cookies /\ [cookie |-> prog[t].cookie, owner |-> t] \in Record
      BY <2>2 DEF TypeOK, ProbeTypeOK, Reserve, Record
    <3>2. CookiesIn(ring') = Append(CookiesIn(ring), prog[t].cookie)
      BY <2>2, <3>1, CookiesInRing DEF TypeOK, ProbeTypeOK, Reserve
    <3>3. Queued' = feedCh \o (Sending \o (eventsCh \o CookiesIn(ring')))
      BY <2>1 DEF Queued, CookiesIn
    <3>4. feedCh \o (Sending \o (eventsCh \o Append(CookiesIn(ring), prog[t].cookie)))
            = Append(Queued, prog[t].cookie)
      <4> DEFINE c == prog[t].cookie
                 d == CookiesIn(ring)
                 u == eventsCh \o d
                 v == Sending \o u
      <4>1. /\ feedCh \in Seq(Cookies) /\ Sending \in Seq(Cookies)
            /\ eventsCh \in Seq(Cookies) /\ d \in Seq(Cookies)
            /\ u \in Seq(Cookies) /\ v \in Seq(Cookies) /\ c \in Cookies
        BY <3>1, QueuedType
      <4> HIDE DEF c, d
      <4>2. eventsCh \o Append(d, c) = Append(u, c)
        BY <4>1, AppendToConcat
      <4> HIDE DEF u
      <4>3. Sending \o Append(u, c) = Append(v, c)
        BY <4>1, AppendToConcat
      <4> HIDE DEF v
      <4>4. feedCh \o Append(v, c) = Append(feedCh \o v, c)
        BY <4>1, AppendToConcat
      <4> QED  BY <4>2, <4>3, <4>4 DEF Queued, c, d, u, v
    <3>5. Queued' = Append(Queued, prog[t].cookie)
      BY <3>2, <3>3, <3>4
    <3> QED  BY <2>2, <3>5
  <2>3. CASE Submit(t)
    <3>1. Queued' = feedCh \o (Sending \o (eventsCh \o CookiesIn(ring')))
      BY <2>1 DEF Queued, CookiesIn
    <3>2. Queued' = Queued
      BY <2>3, <3>1, SubmitKeepsCookies DEF Queued
    <3> QED  BY <2>3, <3>2
  <2>4. CASE MarkSeen(t) \/ ReserveFail(t) \/ \E c \in Cookies : Enter(t, c)
    <3>1. ring' = ring
      BY <2>4 DEF MarkSeen, ReserveFail, Enter
    <3>2. Queued' = Queued
      BY <2>1, <3>1 DEF Queued, CookiesIn
    <3> QED  BY <2>4, <3>2
  <2> QED  BY <2>2, <2>3, <2>4 DEF Continue
<1>2. CASE RunStep
  <2>1. UNCHANGED <<prog, seen, ring, eventsCh, feedCh>>
    BY <1>2 DEF RunStep, AttachBatch, Start, InitEventBufFails, NotifyReadiness,
                Join, ShutdownListener, WriteReport, WriteReportFails,
                CloseEventBuf, Step, probeVars, pipeVars
  <2>2. Sending' = Sending
    <3>1. CASE Start
      BY <3>1 DEF Start, At, Sending, FlowInv, RunOrder
    <3>2. CASE ~Start
      <4>1. ingest' = ingest
        BY <1>2, <3>2 DEF RunStep, AttachBatch, InitEventBufFails,
             NotifyReadiness, Join, ShutdownListener, WriteReport,
             WriteReportFails, CloseEventBuf, Step, pipeVars
      <4> QED  BY <4>1 DEF Sending
    <3> QED  BY <3>1, <3>2
  <2>3. Queued' = Queued
    BY <2>1, <2>2 DEF Queued, CookiesIn
  <2> QED  BY <2>1, <2>3
<1>3. CASE Poll
  <2>1. UNCHANGED <<prog, seen, feedCh, Sending>>
    BY <1>3 DEF Poll, Sending
  <2>2. /\ CookiesIn(ring) # <<>>
        /\ Head(CookiesIn(ring)) = Head(ring).cookie
        /\ CookiesIn(Tail(ring)) = Tail(CookiesIn(ring))
    BY <1>3, CookiesInRing DEF TypeOK, ProbeTypeOK, Poll
  <2>3. /\ eventsCh' = Append(eventsCh, Head(CookiesIn(ring)))
        /\ CookiesIn(ring') = Tail(CookiesIn(ring))
    BY <1>3, <2>2 DEF Poll
  <2>4. eventsCh' \o CookiesIn(ring') = eventsCh \o CookiesIn(ring)
    BY <2>2, <2>3, QueuedType, MoveOver
  <2>5. Queued' = feedCh \o (Sending \o (eventsCh' \o CookiesIn(ring')))
    BY <2>1 DEF Queued, CookiesIn
  <2> QED  BY <2>1, <2>4, <2>5 DEF Queued
<1>4. CASE IngestRecv
  <2>1. main \notin {"attaching", "joined", "stopped", "reported", "failed"}
    BY <1>4 DEF IngestRecv, FlowInv, RunOrder
  <2>2. ~closed /\ eventsCh # <<>>
    BY <1>4, <2>1 DEF IngestRecv, FlowInv, RunOrder, Returned
  <2>3. /\ eventsCh' = Tail(eventsCh)
        /\ Sending = <<>> /\ Sending' = <<Head(eventsCh)>>
        /\ UNCHANGED <<prog, seen, ring, feedCh>>
    BY <1>4, <2>2 DEF IngestRecv, Carrying, Sending, probeVars
  <2>4. eventsCh \o CookiesIn(ring) \in Seq(Cookies) /\ Head(eventsCh) \in Cookies
        /\ Tail(eventsCh) \in Seq(Cookies)
    BY <2>2, QueuedType, RangeTail
  <2>5. Append(Sending, Head(eventsCh)) = Sending'
    BY <2>3
  <2>6. Sending' \o eventsCh' = Sending \o eventsCh
    BY <2>2, <2>3, <2>5, QueuedType, MoveOver
  <2>7. Sending' \in Seq(Cookies)
    BY <2>3, <2>4
  <2>8. Sending' \o (eventsCh' \o CookiesIn(ring))
          = (Sending' \o eventsCh') \o CookiesIn(ring)
    <3>1. eventsCh' \in Seq(Cookies) /\ CookiesIn(ring) \in Seq(Cookies)
      BY <2>3, <2>4, QueuedType
    <3> QED  BY <2>7, <3>1, ConcatAssociative
  <2>9. Sending \o (eventsCh \o CookiesIn(ring))
          = (Sending \o eventsCh) \o CookiesIn(ring)
    <3>1. /\ Sending \in Seq(Cookies) /\ eventsCh \in Seq(Cookies)
          /\ CookiesIn(ring) \in Seq(Cookies)
      BY QueuedType
    <3> QED  BY <3>1, ConcatAssociative
  <2>10. Queued' = feedCh \o (Sending' \o (eventsCh' \o CookiesIn(ring)))
    BY <2>3 DEF Queued, CookiesIn
  <2> QED  BY <2>3, <2>6, <2>8, <2>9, <2>10 DEF Queued
<1>5. CASE IngestSend
  <2> DEFINE rest == eventsCh \o CookiesIn(ring)
  <2>1. /\ Sending = <<ingest.cookie>> /\ Sending' = <<>>
        /\ feedCh' = Append(feedCh, ingest.cookie)
        /\ UNCHANGED <<prog, seen, ring, eventsCh>>
    BY <1>5 DEF IngestSend, At, Sending, probeVars
  <2>2. /\ rest \in Seq(Cookies) /\ feedCh \in Seq(Cookies)
        /\ Sending \in Seq(Cookies) /\ <<>> \in Seq(Cookies)
    BY QueuedType, EmptySeq
  <2>3. Queued = feedCh \o (Sending \o rest)
    BY DEF Queued
  <2>4. Queued' = feedCh' \o (Sending' \o rest)
    BY <2>1 DEF Queued, CookiesIn
  <2> HIDE DEF rest
  <2>5. Sending # <<>> /\ Head(Sending) = ingest.cookie /\ Tail(Sending) = <<>>
    BY <2>1
  <2>6. feedCh' \o <<>> = feedCh \o Sending
    BY <2>1, <2>2, <2>5, MoveOver
  <2>7. feedCh' \in Seq(Cookies)
    <3>1. ingest.cookie \in Cookies
      BY <2>1, <2>2, <2>5, HeadTailProperties
    <3> QED  BY <2>1, <2>2, <3>1, AppendProperties
  <2>8. feedCh' \o (<<>> \o rest) = (feedCh' \o <<>>) \o rest
    BY <2>2, <2>7, ConcatAssociative
  <2>9. feedCh \o (Sending \o rest) = (feedCh \o Sending) \o rest
    BY <2>2, ConcatAssociative
  <2> QED  BY <2>1, <2>3, <2>4, <2>6, <2>8, <2>9
<1>6. CASE ProcessRecv
  <2> DEFINE rest == Sending \o (eventsCh \o CookiesIn(ring))
  <2>1. /\ feedCh # <<>> /\ feedCh' = Tail(feedCh)
        /\ UNCHANGED <<prog, seen, ring, eventsCh, Sending>>
    BY <1>6 DEF ProcessRecv, Sending, probeVars
  <2>2. Queued = feedCh \o rest /\ rest \in Seq(Cookies) /\ feedCh \in Seq(Cookies)
    BY QueuedType DEF Queued
  <2>3. Queued' = feedCh' \o rest
    BY <2>1 DEF Queued, CookiesIn
  <2> HIDE DEF rest
  <2>4. Queued' = Tail(Queued)
    BY <2>1, <2>2, <2>3, TailOfConcat
  <2>5. Queued # <<>>
    BY <2>1, <2>2, ConcatEqualIffEmpty
  <2> QED  BY <2>1, <2>4, <2>5
<1>7. CASE Cancel \/ IngestStop \/ ProcessHandle \/ ProcessStop \/ UNCHANGED vars
  <2>1. UNCHANGED <<prog, seen, ring, eventsCh, feedCh, Sending>>
    BY <1>7 DEF Cancel, IngestStop, ProcessHandle, ProcessStop, At, Sending, vars,
                probeVars, pipeVars
  <2>2. Queued' = Queued
    BY <2>1 DEF Queued, CookiesIn
  <2> QED  BY <2>1, <2>2
<1> QED  BY <1>1, <1>2, <1>3, <1>4, <1>5, <1>6, <1>7 DEF Next

----------------------------------------------------------------------------
(* The inductive invariant.                                                *)

Positions == 1 .. Len(Queued)

\* A function whose event is under way, or about to be reserved, is in seen_funcs.
MarkedFirst ==
  /\ \A i \in Positions : Queued[i] \in seen
  /\ \A t \in Threads : prog[t].at = "reserve" => prog[t].cookie \in seen

\* The threads the events came from: no two events of one function from one
\* thread, and none from a thread that is about to send one.
Senders(by) ==
  /\ by \in [Positions -> Threads]
  /\ \A i, j \in Positions : Queued[i] = Queued[j] /\ by[i] = by[j] => i = j
  /\ \A i \in Positions, t \in Threads :
       prog[t].at \in {"mark", "reserve"} /\ prog[t].cookie = Queued[i] => by[i] # t

OnePerThread == \E by : Senders(by)

QueueInv == MarkedFirst /\ OnePerThread

\* What seen_funcs has room for.
RoomInSeen == Cardinality(Cookies) <= SeenCap
RoomFor(cap) ==
  IsFiniteSet(Threads) /\ Cardinality(Cookies) * Cardinality(Threads) <= cap

\* At first there are no events.
LEMMA InitQueue == Init => QueueInv
<1> SUFFICES ASSUME Init
             PROVE  QueueInv
  OBVIOUS
<1>1. ring = <<>> /\ eventsCh = <<>> /\ feedCh = <<>> /\ Sending = <<>>
  BY DEF Init, ProbeInit, Sending, At
<1>2. CookiesIn(ring) = <<>>
  <2>1. <<>> \in Seq(Record)
    BY EmptySeq
  <2>2. CookiesIn(<<>>) \in Seq(Cookies) /\ Len(CookiesIn(<<>>)) = 0
    BY <2>1, CookiesInRing, EmptySeq
  <2> QED  BY <1>1, <2>2, EmptySeq
<1>3. <<>> \in Seq(Cookies)
  BY EmptySeq
<1>4. Queued = <<>>
  BY <1>1, <1>2, <1>3, ConcatEmptySeq DEF Queued
<1>5. Positions = {}
  BY <1>4 DEF Positions
<1>6. \A t \in Threads : prog[t].at = "user"
  BY DEF Init, ProbeInit, InUser
<1>7. MarkedFirst
  BY <1>5, <1>6 DEF MarkedFirst
<1>8. Senders([i \in {} |-> ZeroCookie])
  BY <1>5 DEF Senders
<1> QED  BY <1>7, <1>8 DEF QueueInv, OnePerThread

\* A map with room for every function takes every mark.
LEMMA MarkTaken ==
  ASSUME TypeOK, RoomInSeen, NEW c \in Cookies
  PROVE  SeenWith(c) = seen \cup {c}
<1>1. CASE Cardinality(seen) < SeenCap
  BY <1>1 DEF SeenWith
<1>2. CASE ~(Cardinality(seen) < SeenCap)
  <2>1. IsFiniteSet(Cookies) /\ seen \in SUBSET Cookies
    BY ConstantsAssumption DEF TypeOK, ProbeTypeOK
  <2>2. /\ IsFiniteSet(seen) /\ Cardinality(seen) <= Cardinality(Cookies)
        /\ Cardinality(Cookies) = Cardinality(seen) => Cookies = seen
    BY <2>1, FS_Subset
  <2>3. Cardinality(seen) \in Nat /\ Cardinality(Cookies) \in Nat /\ SeenCap \in Nat
    BY <2>1, <2>2, FS_CardinalityType, ConstantsAssumption
  <2>4. seen = Cookies
    BY <1>2, <2>2, <2>3 DEF RoomInSeen
  <2> QED  BY <2>4 DEF SeenWith
<1> QED  BY <1>1, <1>2

\* A step of a thread that leaves the queue alone: it marks the function whose
\* event it then sends, and begins no event of a function that is marked.
LEMMA ThreadKeepsQueue ==
  ASSUME TypeOK, QueueInv, RoomInSeen, NEW t \in Threads, Queued' = Queued,
         MarkSeen(t) \/ ReserveFail(t) \/ Submit(t) \/ \E c \in Cookies : Enter(t, c)
  PROVE  QueueInv'
<1>1. Positions' = Positions
  BY DEF Positions
<1>2. ProbeTypeOK
  BY DEF TypeOK
<1>3. seen \subseteq seen'
  BY DEF MarkSeen, SeenWith, ReserveFail, Submit, Enter
<1>4. \A u \in Threads \ {t} : prog'[u] = prog[u]
  BY <1>2, GotoHeld DEF MarkSeen, ReserveFail, Submit, Enter
<1>5. \/ prog' = prog
      \/ /\ prog'[t].at \in {"user", "mark"}
         /\ prog'[t].at = "mark" => prog'[t].cookie \notin seen
      \/ prog[t].at = "mark" /\ prog'[t].cookie = prog[t].cookie /\ prog[t].cookie \in seen'
  <2>1. CASE MarkSeen(t)
    <3>1. prog'[t].cookie = prog[t].cookie /\ prog[t].cookie \in Cookies
      BY <1>2, <2>1, GotoHeld DEF MarkSeen, ProbeTypeOK
    <3>2. prog[t].cookie \in seen'
      BY <2>1, <3>1, MarkTaken DEF MarkSeen
    <3> QED  BY <2>1, <3>1, <3>2 DEF MarkSeen
  <2>2. CASE ReserveFail(t) \/ Submit(t)
    BY <1>2, <2>2, GotoHeld DEF ReserveFail, Submit
  <2>3. ASSUME NEW c \in Cookies, Enter(t, c)
        PROVE  \/ prog' = prog
               \/ prog'[t].at = "mark" /\ prog'[t].cookie \notin seen
    BY <1>2, <2>3, GotoHeld DEF Enter
  <2> QED  BY <2>1, <2>2, <2>3
<1>6. MarkedFirst'
  <2>1. \A i \in Positions' : Queued'[i] \in seen'
    BY <1>1, <1>3 DEF QueueInv, MarkedFirst
  <2>2. ASSUME NEW u \in Threads, prog'[u].at = "reserve"
        PROVE  prog'[u].cookie \in seen'
    <3>1. CASE u # t \/ prog' = prog
      <4>1. prog'[u] = prog[u]
        BY <1>4, <3>1
      <4> QED  BY <1>3, <2>2, <4>1 DEF QueueInv, MarkedFirst
    <3>2. CASE u = t /\ prog' # prog
      BY <1>5, <2>2, <3>2
    <3> QED  BY <3>1, <3>2
  <2> QED  BY <2>1, <2>2 DEF MarkedFirst
<1>7. OnePerThread'
  <2> PICK by : Senders(by)
    BY DEF QueueInv, OnePerThread
  <2>1. ASSUME NEW i \in Positions, NEW u \in Threads,
               prog'[u].at \in {"mark", "reserve"}, prog'[u].cookie = Queued[i]
        PROVE  by[i] # u
    <3>1. CASE u # t \/ prog' = prog
      <4>1. prog'[u] = prog[u]
        BY <1>4, <3>1
      <4> QED  BY <2>1, <4>1 DEF Senders
    <3>2. CASE u = t /\ prog' # prog
      <4>1. Queued[i] \in seen
        BY DEF QueueInv, MarkedFirst
      <4>2. prog[t].at = "mark" /\ prog[t].cookie = Queued[i]
        BY <1>5, <2>1, <3>2, <4>1
      <4> QED  BY <3>2, <4>2 DEF Senders
    <3> QED  BY <3>1, <3>2
  <2>2. Senders(by)'
    BY <1>1, <2>1 DEF Senders
  <2> QED  BY <2>2 DEF OnePerThread
<1> QED  BY <1>6, <1>7 DEF QueueInv

\* The event a thread reserves a record for is its only one of that function.
LEMMA ReserveKeepsQueue ==
  ASSUME TypeOK, FlowInv, QueueInv, NEW t \in Threads, Reserve(t),
         Queued' = Append(Queued, prog[t].cookie)
  PROVE  QueueInv'
<1> DEFINE n == Len(Queued)
           c == prog[t].cookie
<1>1. /\ c \in Cookies /\ c \in seen /\ prog[t].at = "reserve" /\ seen' = seen
      /\ prog'[t].at = "submit" /\ \A u \in Threads \ {t} : prog'[u] = prog[u]
  BY GotoHeld DEF QueueInv, MarkedFirst, Reserve, TypeOK, ProbeTypeOK
<1>2. /\ n \in Nat /\ Len(Queued') = n + 1
      /\ \A i \in 1 .. n : Queued'[i] = Queued[i]
      /\ Queued'[n + 1] = c
  BY <1>1, QueuedType, LenProperties, AppendProperties
<1>3. Positions = 1 .. n /\ Positions' = 1 .. n + 1
  BY <1>2 DEF Positions
<1> HIDE DEF n, c
<1>4. \A i \in Positions' : i \in Positions \/ i = n + 1
  BY <1>2, <1>3
<1>5. MarkedFirst'
  <2>1. \A i \in Positions' : Queued'[i] \in seen'
    BY <1>1, <1>2, <1>3, <1>4 DEF QueueInv, MarkedFirst
  <2>2. \A u \in Threads : prog'[u].at = "reserve" => prog'[u].cookie \in seen'
    <3> SUFFICES ASSUME NEW u \in Threads, prog'[u].at = "reserve"
                 PROVE  prog'[u].cookie \in seen'
      OBVIOUS
    <3>1. prog'[u] = prog[u]
      BY <1>1
    <3> QED  BY <1>1, <3>1 DEF QueueInv, MarkedFirst
  <2> QED  BY <2>1, <2>2 DEF MarkedFirst
<1>6. OnePerThread'
  <2> PICK by : Senders(by)
    BY DEF QueueInv, OnePerThread
  <2> PICK by2 : by2 = [i \in 1 .. n + 1 |-> IF i = n + 1 THEN t ELSE by[i]]
    OBVIOUS
  <2>1. /\ by2 \in [Positions' -> Threads]
        /\ by2[n + 1] = t
        /\ \A i \in Positions : by2[i] = by[i] /\ Queued'[i] = Queued[i]
    BY <1>2, <1>3 DEF Senders
  <2>2. \A i \in Positions : Queued[i] = c => by[i] # t
    BY <1>1 DEF Senders, c
  <2>3. \A i, j \in Positions' : Queued'[i] = Queued'[j] /\ by2[i] = by2[j] => i = j
    <3> SUFFICES ASSUME NEW i \in Positions', NEW j \in Positions',
                        Queued'[i] = Queued'[j], by2[i] = by2[j]
                 PROVE  i = j
      OBVIOUS
    <3>1. CASE i \in Positions /\ j \in Positions
      <4>1. Queued[i] = Queued[j] /\ by[i] = by[j]
        BY <2>1, <3>1
      <4> QED  BY <3>1, <4>1 DEF Senders
    <3>2. CASE i = n + 1 /\ j \in Positions
      BY <1>2, <2>1, <2>2, <3>2
    <3>3. CASE j = n + 1 /\ i \in Positions
      BY <1>2, <2>1, <2>2, <3>3
    <3>4. CASE i = n + 1 /\ j = n + 1
      BY <3>4
    <3> QED  BY <1>4, <3>1, <3>2, <3>3, <3>4
  <2>4. ASSUME NEW i \in Positions', NEW u \in Threads,
               prog'[u].at \in {"mark", "reserve"}, prog'[u].cookie = Queued'[i]
        PROVE  by2[i] # u
    <3>1. u # t /\ prog'[u] = prog[u]
      BY <1>1, <2>4
    <3>2. CASE i = n + 1
      BY <2>1, <3>1, <3>2
    <3>3. CASE i \in Positions
      <4>1. prog[u].at \in {"mark", "reserve"} /\ prog[u].cookie = Queued[i]
        BY <2>1, <2>4, <3>1, <3>3
      <4>2. by[i] # u
        BY <3>3, <4>1 DEF Senders
      <4> QED  BY <2>1, <3>3, <4>2
    <3> QED  BY <1>4, <3>2, <3>3
  <2>5. Senders(by2)'
    BY <2>1, <2>3, <2>4 DEF Senders
  <2> QED  BY <2>5 DEF OnePerThread
<1> QED  BY <1>5, <1>6 DEF QueueInv

\* Nothing changes for the events behind the one processEvents takes.
LEMMA TakeKeepsQueue ==
  ASSUME TypeOK, FlowInv, QueueInv, UNCHANGED <<prog, seen>>,
         Queued # <<>>, Queued' = Tail(Queued)
  PROVE  QueueInv'
<1> DEFINE n == Len(Queued)
<1>1. /\ n \in Nat \ {0} /\ Len(Queued') = n - 1
      /\ \A i \in 1 .. n - 1 : Queued'[i] = Queued[i + 1]
  BY QueuedType, EmptySeq, HeadTailProperties
<1>2. Positions = 1 .. n /\ Positions' = 1 .. n - 1
  BY <1>1 DEF Positions
<1> HIDE DEF n
<1>3. \A i \in Positions' : i + 1 \in Positions /\ Queued'[i] = Queued[i + 1]
  BY <1>1, <1>2
<1>4. MarkedFirst'
  BY <1>3 DEF QueueInv, MarkedFirst
<1>5. OnePerThread'
  <2> PICK by : Senders(by)
    BY DEF QueueInv, OnePerThread
  <2> PICK by2 : by2 = [i \in 1 .. n - 1 |-> by[i + 1]]
    OBVIOUS
  <2>1. /\ by2 \in [Positions' -> Threads]
        /\ \A i \in Positions' : by2[i] = by[i + 1]
    BY <1>2, <1>3 DEF Senders
  <2>2. \A i, j \in Positions' : Queued'[i] = Queued'[j] /\ by2[i] = by2[j] => i = j
    <3> SUFFICES ASSUME NEW i \in Positions', NEW j \in Positions',
                        Queued'[i] = Queued'[j], by2[i] = by2[j]
                 PROVE  i = j
      OBVIOUS
    <3>1. Queued[i + 1] = Queued[j + 1] /\ by[i + 1] = by[j + 1]
      BY <1>3, <2>1
    <3>2. i + 1 = j + 1
      BY <1>3, <3>1 DEF Senders
    <3>3. i \in Nat /\ j \in Nat
      BY <1>2
    <3> QED  BY <3>2, <3>3
  <2>3. ASSUME NEW i \in Positions', NEW u \in Threads,
               prog'[u].at \in {"mark", "reserve"}, prog'[u].cookie = Queued'[i]
        PROVE  by2[i] # u
    <3>1. prog[u].at \in {"mark", "reserve"} /\ prog[u].cookie = Queued[i + 1]
      BY <1>3, <2>3
    <3> QED  BY <1>3, <2>1, <3>1 DEF Senders
  <2>4. Senders(by2)'
    BY <2>1, <2>2, <2>3 DEF Senders
  <2> QED  BY <2>4 DEF OnePerThread
<1> QED  BY <1>4, <1>5 DEF QueueInv

\* Every step keeps the invariant, if seen_funcs has room for every function.
LEMMA NextQueue ==
  ASSUME TypeOK, FlowInv, QueueInv, RoomInSeen, [Next]_vars
  PROVE  QueueInv'
<1>1. ASSUME UNCHANGED <<prog, seen>>, Queued' = Queued
      PROVE  QueueInv'
  BY <1>1 DEF QueueInv, MarkedFirst, OnePerThread, Senders, Positions
<1> QED  BY <1>1, QueueStep, ThreadKeepsQueue, ReserveKeepsQueue, TakeKeepsQueue

----------------------------------------------------------------------------
(* What the invariant bounds.                                              *)

\* There are at most as many events under way as functions times threads, and
\* fewer while a thread is about to reserve a record for another.
LEMMA QueueBound ==
  ASSUME TypeOK, FlowInv, QueueInv, IsFiniteSet(Threads)
  PROVE  /\ Cardinality(Cookies) * Cardinality(Threads) \in Nat
         /\ Len(Queued) <= Cardinality(Cookies) * Cardinality(Threads)
         /\ \A t \in Threads : prog[t].at = "reserve" =>
              Len(Queued) < Cardinality(Cookies) * Cardinality(Threads)
<1> DEFINE all == Cookies \X Threads
<1>1. /\ IsFiniteSet(all) /\ Cardinality(all) \in Nat
      /\ Cardinality(all) = Cardinality(Cookies) * Cardinality(Threads)
  BY ConstantsAssumption, FS_Product, FS_CardinalityType
<1> PICK by : Senders(by)
  BY DEF QueueInv, OnePerThread
<1> DEFINE pair == [i \in Positions |-> <<Queued[i], by[i]>>]
<1>2. Len(Queued) \in Nat /\ \A i \in Positions : Queued[i] \in Cookies
  BY QueuedType, LenProperties, ElementOfSeq DEF Positions
<1>3. IsFiniteSet(Positions) /\ Cardinality(Positions) = Len(Queued)
  BY <1>2, FS_Interval DEF Positions
<1>4. pair \in [Positions -> all]
  BY <1>2 DEF Senders
<1>5. \A i, j \in Positions : pair[i] = pair[j] => i = j
  BY DEF Senders
<1>6. Len(Queued) <= Cardinality(all)
  <2>1. pair \in Injection(Positions, all)
    BY <1>4, <1>5 DEF Injection, IsInjective
  <2> HIDE DEF pair, all
  <2> QED  BY <1>1, <1>3, <2>1, FS_Injection
<1>7. ASSUME NEW t \in Threads, prog[t].at = "reserve"
      PROVE  Len(Queued) < Cardinality(all)
  <2> DEFINE own  == <<prog[t].cookie, t>>
             rest == all \ {own}
  <2>1. own \in all
    BY <1>7 DEF TypeOK, ProbeTypeOK
  <2>2. \A i \in Positions : pair[i] # own
    BY <1>7 DEF Senders
  <2>3. pair \in Injection(Positions, rest)
    BY <1>4, <1>5, <2>2 DEF Injection, IsInjective
  <2>4. IsFiniteSet(rest) /\ Cardinality(rest) = Cardinality(all) - 1
    <3> HIDE DEF own, all
    <3> QED  BY <1>1, <2>1, FS_RemoveElement
  <2>5. Cardinality(Positions) <= Cardinality(rest)
    <3> HIDE DEF pair, rest
    <3> QED  BY <2>3, <2>4, FS_Injection
  <2> QED  BY <1>1, <1>3, <2>4, <2>5
<1> QED  BY <1>1, <1>6, <1>7

\* The ring and feedCh are parts of the queue.
LEMMA PartsOfQueue ==
  ASSUME TypeOK, FlowInv
  PROVE  /\ Len(ring) \in Nat /\ Len(feedCh) \in Nat /\ Len(Queued) \in Nat
         /\ Len(ring) <= Len(Queued)
         /\ ingest.at = "send" => Len(feedCh) < Len(Queued)
<1> DEFINE d == CookiesIn(ring)
           u == eventsCh \o d
           v == Sending \o u
<1>1. /\ feedCh \in Seq(Cookies) /\ Sending \in Seq(Cookies)
      /\ eventsCh \in Seq(Cookies) /\ d \in Seq(Cookies)
      /\ u \in Seq(Cookies) /\ v \in Seq(Cookies)
  BY QueuedType
<1>2. Len(d) = Len(ring)
  BY CookiesInRing DEF TypeOK, ProbeTypeOK
<1> HIDE DEF d
<1>3. Len(u) = Len(eventsCh) + Len(d)
  BY <1>1, ConcatProperties
<1> HIDE DEF u
<1>4. Len(v) = Len(Sending) + Len(u)
  BY <1>1, ConcatProperties
<1> HIDE DEF v
<1>5. Len(feedCh \o v) = Len(feedCh) + Len(v)
  BY <1>1, ConcatProperties
<1>6. Queued = feedCh \o v
  BY DEF Queued, d, u, v
<1>7. /\ Len(feedCh) \in Nat /\ Len(Sending) \in Nat
      /\ Len(eventsCh) \in Nat /\ Len(d) \in Nat
  BY <1>1, LenProperties
<1>8. ingest.at = "send" => Len(Sending) = 1
  BY DEF Sending
<1>9. Len(Queued) = Len(feedCh) + (Len(Sending) + (Len(eventsCh) + Len(ring)))
  BY <1>2, <1>3, <1>4, <1>5, <1>6
<1>10. Len(ring) \in Nat
  BY <1>2, <1>7
<1> QED  BY <1>7, <1>8, <1>9, <1>10

\* The inductive invariant, if seen_funcs has room for every function.
LEMMA QueueInvariant ==
  ASSUME RoomInSeen
  PROVE  Spec => []QueueInv
<1>1. TypeOK /\ FlowInv /\ QueueInv /\ [Next]_vars => QueueInv'
  BY NextQueue
<1> QED  BY <1>1, InitQueue, TypeInvariant, FlowInvariant, PTL DEF Spec

\* No event is lost, however the threads race between the lookup and the update
\* of seen_funcs and however late the tracer polls: the ring is never full when
\* the program reserves a record, if it has room for one record of each function
\* from each thread.
THEOREM RingNeverFull ==
  ASSUME RoomInSeen, RoomFor(RingCap)
  PROVE  Spec => []NoLoss
<1>1. Init => NoLoss
  BY DEF Init, ProbeInit, NoLoss
<1>2. TypeOK /\ FlowInv /\ QueueInv /\ NoLoss /\ [Next]_vars => NoLoss'
  <2> SUFFICES ASSUME TypeOK, FlowInv, QueueInv, NoLoss, [Next]_vars
               PROVE  NoLoss'
    OBVIOUS
  <2>1. \A t \in Threads : ~ReserveFail(t)
    <3> SUFFICES ASSUME NEW t \in Threads, ReserveFail(t)
                 PROVE  FALSE
      OBVIOUS
    <3>1. Len(Queued) < Cardinality(Cookies) * Cardinality(Threads)
      BY QueueBound DEF RoomFor, ReserveFail
    <3>2. /\ Cardinality(Cookies) * Cardinality(Threads) \in Nat
          /\ Cardinality(Cookies) * Cardinality(Threads) <= RingCap
      BY QueueBound DEF RoomFor
    <3>3. Len(ring) >= RingCap /\ RingCap \in Nat
      BY ConstantsAssumption DEF ReserveFail
    <3> HIDE DEF RoomFor
    <3> QED  BY <3>1, <3>2, <3>3, PartsOfQueue
  <2>2. lost' = lost
    BY <2>1 DEF Next, vars, KernelStep, Probe, Continue, MarkSeen, Reserve, Submit,
                Enter, RunStep, AttachBatch, Start, InitEventBufFails,
                NotifyReadiness, Join, ShutdownListener, WriteReport,
                WriteReportFails, CloseEventBuf, Step, Cancel, Poll, IngestRecv,
                IngestSend, IngestStop, ProcessRecv, ProcessHandle, ProcessStop,
                probeVars
  <2> QED  BY <2>2 DEF NoLoss
<1> QED  BY <1>1, <1>2, TypeInvariant, FlowInvariant, QueueInvariant, PTL DEF Spec

\* ingestEvents never waits at feedCh, so it always comes back to its select and
\* finds the context done: the program run by a thread cannot send it more events
\* than that channel holds.
THEOREM SendsNeverWait ==
  ASSUME RoomInSeen, RoomFor(FeedCap)
  PROVE  Spec => []SendHasRoom
<1>1. TypeOK /\ FlowInv /\ QueueInv => SendHasRoom
  <2> SUFFICES ASSUME TypeOK, FlowInv, QueueInv, ingest.at = "send"
               PROVE  Len(feedCh) < FeedCap
    BY DEF SendHasRoom
  <2>1. /\ Cardinality(Cookies) * Cardinality(Threads) \in Nat
        /\ Len(Queued) <= Cardinality(Cookies) * Cardinality(Threads)
        /\ Cardinality(Cookies) * Cardinality(Threads) <= FeedCap
    BY QueueBound DEF RoomFor
  <2>2. /\ Len(feedCh) \in Nat /\ Len(Queued) \in Nat
        /\ Len(feedCh) < Len(Queued)
    BY PartsOfQueue
  <2> QED  BY <2>1, <2>2, ChannelsAssumption
<1> QED  BY <1>1, TypeInvariant, FlowInvariant, QueueInvariant, PTL

=============================================================================
