-------------------------- MODULE HealthCheckProofs --------------------------
(***************************************************************************)
(* Theorems about HealthCheck, for any waiters and any number of attempts. *)
(*                                                                         *)
(*   TypeInvariant    Spec => []TypeOK                                     *)
(*   NoFalseReadiness Spec => []ReadyAfterNotify                           *)
(*                                                                         *)
(* ServerInv is the inductive invariant: the byte of readiness is sent on  *)
(* a connection only once readyCh is closed (AnswersAreReady), and a       *)
(* waiter that reads does so from a connection of its own (Attempted).     *)
(***************************************************************************)
EXTENDS HealthCheck, TLAPS

AnswersAreReady == \A c \in Connections : conn[c] = "answered" => ready

\* A waiter past its os.Stat has made an attempt, so it has a connection to read.
Attempted == \A w \in Waiters : waiter[w] \in {"dial", "read"} => tries[w] > 0

ServerInv == TypeOK /\ AnswersAreReady /\ Attempted /\ ReadyAfterNotify

----------------------------------------------------------------------------
\* The connections that Closed changes end closed, and it answers none.
LEMMA ClosedType ==
  ASSUME TypeOK, NEW states
  PROVE  /\ Closed(states) \in
              [Connections -> {"none", "backlog", "serving", "answered", "closed"}]
         /\ \A c \in Connections :
              Closed(states)[c] = "answered" => conn[c] = "answered"
BY DEF TypeOK, Closed

\* The present attempt of a waiter past its os.Stat is one of the connections.
LEMMA AttemptIsConnection ==
  ASSUME TypeOK, Attempted, NEW w \in Waiters, waiter[w] \in {"dial", "read"}
  PROVE  Present(w) \in Connections
BY TriesAssumption DEF TypeOK, Attempted, Connections, Present

LEMMA InitServer == Init => ServerInv
<1> SUFFICES ASSUME Init
             PROVE  ServerInv
  OBVIOUS
<1>1. 0 \in 0 .. MaxTries
  BY TriesAssumption
<1>2. TypeOK
  BY <1>1 DEF Init, TypeOK
<1>3. AnswersAreReady /\ Attempted /\ ReadyAfterNotify
  BY DEF Init, AnswersAreReady, Attempted, ReadyAfterNotify
<1> QED  BY <1>2, <1>3 DEF ServerInv

\* Each step of the server and of the waiters keeps the invariant.
LEMMA NextServer == ServerInv /\ [Next]_vars => ServerInv'
<1> SUFFICES ASSUME ServerInv, [Next]_vars
             PROVE  ServerInv'
  OBVIOUS
<1> USE TriesAssumption
        DEF ServerInv, TypeOK, AnswersAreReady, Attempted, ReadyAfterNotify
<1>1. CASE RemoveStale
  BY <1>1 DEF RemoveStale
<1>2. CASE Listen
  BY <1>2 DEF Listen
<1>3. CASE NotifyReadiness
  BY <1>3 DEF NotifyReadiness
<1>4. CASE ShutdownListener
  BY <1>4, ClosedType DEF ShutdownListener
<1>5. CASE Cancel
  BY <1>5 DEF Cancel
<1>6. CASE Exit
  BY <1>6, ClosedType DEF Exit
<1>7. CASE AcceptSelect
  BY <1>7 DEF AcceptSelect
<1>8. CASE Accept \/ AcceptError
  BY <1>8 DEF Accept, AcceptError
<1>9. ASSUME NEW c \in Connections, ProcessConnection(c)
      PROVE  ServerInv'
  BY <1>9 DEF ProcessConnection, serverVars
<1>10. ASSUME NEW w \in Waiters, Wait(w)
       PROVE  ServerInv'
  <2>1. CASE Stat(w)
    BY <1>10, <2>1 DEF Stat, serverVars
  <2>2. CASE Timeout(w)
    BY <1>10, <2>2 DEF Timeout, Return, serverVars
  <2>3. CASE Dial(w)
    BY <1>10, <2>3 DEF Dial, Retry, serverVars
  <2>4. CASE Read(w)
    <3>1. Present(w) \in Connections
      BY <1>10, <2>4, AttemptIsConnection DEF Read
    <3> QED  BY <1>10, <2>4, <3>1 DEF Read, Return, Retry, serverVars
  <2>5. CASE ReadDeadline(w)
    BY <1>10, <2>5 DEF ReadDeadline, Retry, serverVars
  <2> QED  BY <1>10, <2>1, <2>2, <2>3, <2>4, <2>5 DEF Wait
<1>11. CASE UNCHANGED vars
  BY <1>11 DEF vars, serverVars
<1> QED  BY <1>1, <1>2, <1>3, <1>4, <1>5, <1>6, <1>7, <1>8, <1>9, <1>10, <1>11
         DEF Next, Tracer

\* The inductive invariant holds in every run of the server and its waiters.
THEOREM ServerInvariant == Spec => []ServerInv
BY InitServer, NextServer, PTL DEF Spec

\* Where the tracer, the connections and the waiters can be; a waiter makes no
\* attempt beyond its timeout.
THEOREM TypeInvariant == Spec => []TypeOK
<1>1. ServerInv => TypeOK
  BY DEF ServerInv
<1> QED  BY <1>1, ServerInvariant, PTL

\* However many waiters poll, retry and abandon connections, and whatever file
\* an earlier tracer left, none is told that the tracer is ready before it is.
THEOREM NoFalseReadiness == Spec => []ReadyAfterNotify
<1>1. ServerInv => ReadyAfterNotify
  BY DEF ServerInv
<1> QED  BY <1>1, ServerInvariant, PTL
=============================================================================
