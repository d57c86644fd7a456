--------------------------- MODULE LifecycleProofs ---------------------------
(***************************************************************************)
(* Lemmas about Lifecycle, for any shells, roles, processes and polls, and *)
(*                                                                         *)
(*   TypeInvariant   Spec => []TypeOK                                      *)
(*                                                                         *)
(* The rest is about the life of a process (LifeInv), in any roles, and    *)
(* about one shell that keeps to the script run --detach, wait, stop       *)
(* (SoleRunner).  What carries the latter is WorkInv: where the PID of the *)
(* one process that lives is to be found, at each place of the shell       *)
(* (PidStored), since two processes race to store it, each of which may    *)
(* fail.  OneRunnerProofs adds the shells that run in the foreground and   *)
(* draws the conclusions.                                                  *)
(***************************************************************************)
EXTENDS Lifecycle, FiniteSetTheorems, TLAPS

----------------------------------------------------------------------------
(* Types.                                                                  *)

DaemonStates == {"unborn", "boot", "store", "write", "init", "listening", "tracing",
                 "hung", "joined", "stopped", "writing", "leaving", "gone", "exited",
                 "crashed"}

\* A process that advances ends in a state of a daemon.
LEMMA AdvanceType ==
  ASSUME TypeOK, NEW p \in Pids, NEW from, NEW to \in DaemonStates, Advance(p, from, to)
  PROVE  daemon' \in [Pids -> DaemonStates]
BY DEF TypeOK, Advance, DaemonStates

\* A process that is killed has crashed or had exited before.
LEMMA KillType ==
  ASSUME TypeOK, NEW p, Kill(p)
  PROVE  /\ daemon' \in [Pids -> DaemonStates]
         /\ outcome' \in [Pids -> {"none", "reported", "error", "killed"}]
BY DEF TypeOK, Kill, DaemonStates

\* Every step of a daemon keeps the types.
LEMMA DaemonTypes ==
  ASSUME TypeOK, NEW p \in Pids, Daemon(p) \/ Crash(p)
  PROVE  TypeOK'
<1> USE DEF TypeOK, DaemonStates, Advance
<1>0. CASE HandleSignals(p)
  BY <1>0 DEF HandleSignals
<1>1. CASE StorePidOpen(p)
  BY <1>1 DEF StorePidOpen, Truncate
<1>2. CASE StorePidWrite(p)
  BY <1>2 DEF StorePidWrite, Write, GiveUpWrite
<1>3. CASE InitializeListener(p)
  BY <1>3 DEF InitializeListener
<1>4. CASE BecomeReady(p)
  BY <1>4 DEF BecomeReady
<1>5. CASE Join(p)
  BY <1>5 DEF Join
<1>6. CASE ShutdownListener(p)
  BY <1>6 DEF ShutdownListener
<1>7. CASE CreateReport(p)
  BY <1>7 DEF CreateReport
<1>8. CASE WriteReport(p)
  BY <1>8 DEF WriteReport
<1>9. CASE RemovePidFile(p)
  BY <1>9 DEF RemovePidFile, Remove
<1>10. CASE Exit(p)
  BY <1>10 DEF Exit
<1>11. CASE Crash(p)
  BY <1>11, KillType DEF Crash
<1> QED  BY <1>0, <1>1, <1>2, <1>3, <1>4, <1>5, <1>6, <1>7, <1>8, <1>9, <1>10, <1>11
         DEF Daemon

SessionStates ==
  Prompts \cup {"start", "parent open", "parent write", "foreground", "waiting", "signal",
                "poll", "clean", "clean killed"}

SessionType ==
  [Sessions -> [at : SessionStates, pid : Pids \cup {NoPid}, polls : 0 .. MaxPolls]]

\* A shell that goes on keeps its PID and its count.
LEMMA GoType ==
  ASSUME TypeOK, NEW s \in Sessions, NEW from, NEW to \in SessionStates, Go(s, from, to)
  PROVE  session' \in SessionType
BY DEF TypeOK, Go, SessionStates, SessionType

\* A shell that takes up a PID starts its count again.
LEMMA GoWithType ==
  ASSUME TypeOK, NEW s \in Sessions, NEW to \in SessionStates,
         NEW p \in Pids \cup {NoPid}, GoWith(s, to, p)
  PROVE  session' \in SessionType
<1>1. 0 \in 0 .. MaxPolls
  BY LifecycleAssumption
<1> QED  BY <1>1 DEF TypeOK, GoWith, SessionStates, SessionType

\* A new process has a PID nobody has used; the shell takes it up.
LEMMA SpawnType ==
  ASSUME TypeOK, NEW s \in Sessions, NEW to \in SessionStates, Spawn(s, to)
  PROVE  session' \in SessionType /\ daemon' \in [Pids -> DaemonStates]
<1> DEFINE p == CHOOSE q \in {r \in Pids : daemon[r] = "unborn"} : TRUE
<1>1. Advance(p, "unborn", "boot") /\ GoWith(s, to, p)
  BY DEF Spawn
<1>2. p \in Pids
  BY DEF Spawn
<1> HIDE DEF p
<1>3. "boot" \in DaemonStates
  BY DEF DaemonStates
<1>4. session' \in SessionType
  BY <1>1, <1>2, GoWithType
<1>5. daemon' \in [Pids -> DaemonStates]
  BY <1>1, <1>2, <1>3, AdvanceType
<1> QED  BY <1>4, <1>5

\* Every step of a shell keeps the types.
LEMMA CommandTypes ==
  ASSUME TypeOK, NEW s \in Sessions, Command(s) \/ Interrupt(s)
  PROVE  TypeOK'
<1>a. session[s].pid \in Pids \cup {NoPid} /\ MaxPolls \in Nat
  BY LifecycleAssumption DEF TypeOK
<1>b. SUFFICES /\ session' \in SessionType
               /\ pidFile' \in Pids \cup {NoPid, Empty}
               /\ handles' \subseteq Pids \cup Sessions
               /\ UNCHANGED <<role, socket, reportFile>>
               /\ daemon' \in [Pids -> DaemonStates]
               /\ signalled' \subseteq Pids
               /\ outcome' \in [Pids -> {"none", "reported", "error", "killed"}]
  BY DEF TypeOK, SessionType, SessionStates, DaemonStates
<1> USE DEF daemonVars
<1>c. /\ session \in SessionType
      /\ pidFile \in Pids \cup {NoPid, Empty}
      /\ handles \subseteq Pids \cup Sessions
      /\ daemon \in [Pids -> DaemonStates]
      /\ signalled \subseteq Pids
      /\ outcome \in [Pids -> {"none", "reported", "error", "killed"}]
  BY DEF TypeOK, SessionType, SessionStates, DaemonStates
<1>d. {"start", "failed", "started", "parent open", "foreground"} \subseteq SessionStates
  BY DEF SessionStates, Prompts
<1>1. CASE RunDetach(s)
  <2>1. CASE IsDaemonRunning /\ GoWith(s, "started", pidFile)
    BY <1>1, <1>c, <1>d, <2>1, GoWithType DEF RunDetach, IsDaemonRunning, Alive
  <2>2. CASE GoWith(s, "start", NoPid)
    BY <1>1, <1>c, <1>d, <2>2, GoWithType DEF RunDetach
  <2> QED  BY <1>1, <2>1, <2>2 DEF RunDetach
<1>2. CASE Start(s)
  <2>1. CASE Spawn(s, "parent open")
    <3>1. session' \in SessionType /\ daemon' \in [Pids -> DaemonStates]
      BY <1>d, <2>1, SpawnType
    <3> QED  BY <1>2, <1>c, <3>1 DEF Start
  <2>2. CASE GoWith(s, "failed", NoPid) /\ UNCHANGED daemon
    BY <1>2, <1>c, <1>d, <2>2, GoWithType DEF Start
  <2> QED  BY <1>2, <2>1, <2>2 DEF Start
<1>3. CASE ParentOpen(s)
  <2>1. session' \in SessionType
    BY <1>3, GoType DEF ParentOpen, SessionStates, Prompts
  <2> QED  BY <1>3, <1>c, <2>1 DEF ParentOpen, Truncate
<1>4. CASE ParentWrite(s)
  <2>1. session' \in SessionType
    BY <1>4, GoType DEF ParentWrite, SessionStates, Prompts
  <2> QED  BY <1>4, <1>a, <1>c, <2>1 DEF ParentWrite, Write, GiveUpWrite
<1>5. CASE RunForeground(s)
  <2>1. session' \in SessionType /\ daemon' \in [Pids -> DaemonStates]
    BY <1>5, <1>d, SpawnType DEF RunForeground
  <2> QED  BY <1>5, <1>c, <2>1 DEF RunForeground
<1>6. CASE ForegroundEnds(s)
  BY <1>6, <1>c, GoType DEF ForegroundEnds, SessionStates, Prompts
<1>7. CASE WaitCheck(s)
  BY <1>7, <1>c, GoType DEF WaitCheck, SessionStates, Prompts
<1>8. CASE WaitReady(s)
  BY <1>8, <1>c, GoType DEF WaitReady, SessionStates, Prompts
<1>9. CASE WaitTimeout(s)
  BY <1>9, <1>c, GoType DEF WaitTimeout, SessionStates, Prompts
<1>10. CASE StopRead(s)
  BY <1>10, <1>c, GoType, GoWithType DEF StopRead, SessionStates, Prompts
<1>11. CASE StopSignal(s)
  <2>1. session' \in SessionType
    BY <1>11, GoType DEF StopSignal, SessionStates, Prompts
  <2>2. CASE Alive(session[s].pid)
    <3>1. Terminate(session[s].pid) /\ session[s].pid \in Pids
      BY <1>11, <2>2 DEF StopSignal, Alive
    <3> QED  BY <1>11, <1>c, <2>1, <3>1, KillType DEF StopSignal, Terminate
  <2>3. CASE ~Alive(session[s].pid)
    BY <1>11, <1>c, <2>1, <2>3 DEF StopSignal
  <2> QED  BY <2>2, <2>3
<1>12. CASE StopPoll(s)
  <2>1. CASE IsDaemonRunning
    BY <1>12, <1>a, <1>c, <2>1 DEF StopPoll, SessionType
  <2>2. CASE ~IsDaemonRunning
    BY <1>12, <1>c, <2>2, GoType DEF StopPoll, SessionStates
  <2> QED  BY <2>1, <2>2
<1>13. CASE StopKill(s)
  BY <1>13, <1>c, GoType, KillType DEF StopKill, SessionStates
<1>14. CASE StopClean(s)
  BY <1>14, <1>c, GoType DEF StopClean, SessionStates, Prompts, Remove
<1>15. CASE Interrupt(s)
  <2>1. Terminate(session[s].pid) /\ session[s].pid \in Pids
    BY <1>15 DEF Interrupt, Alive
  <2> QED  BY <1>15, <1>c, <2>1, KillType DEF Interrupt, Terminate
<1> QED  BY <1>1, <1>2, <1>3, <1>4, <1>5, <1>6, <1>7, <1>8, <1>9, <1>10, <1>11, <1>12,
            <1>13, <1>14, <1>15 DEF Command

\* Every step keeps the types.
LEMMA NextTypes == TypeOK /\ [Next]_vars => TypeOK'
<1> SUFFICES ASSUME TypeOK, [Next]_vars
             PROVE  TypeOK'
  OBVIOUS
<1>1. CASE UNCHANGED vars
  BY <1>1 DEF vars, TypeOK
<1> QED  BY <1>1, DaemonTypes, CommandTypes DEF Next

\* What the two paths and the report file can hold, where each process and each
\* shell can be, and that stop polls no more than MaxPolls times, for any number of
\* shells in any roles.
THEOREM TypeInvariant == Spec => []TypeOK
<1>1. Init => TypeOK
  BY LifecycleAssumption DEF Init, TypeOK, Prompts
<1> QED  BY <1>1, NextTypes, PTL DEF Spec

----------------------------------------------------------------------------
(* One shell.                                                              *)

\* One shell keeps to the script, and the others do nothing.
SoleRunner(roles) ==
  \E s \in Sessions : roles[s] = "script" /\ \A t \in Sessions \ {s} : roles[t] = "none"

\* A process that may still use the two paths.
Lives(p) == Alive(p) /\ daemon[p] # "gone"

Owning   == {"init", "listening", "tracing", "hung", "joined", "stopped", "writing", "leaving"}
Stopping == {"hung", "joined", "stopped", "writing"}
Ending   == {"leaving", "gone", "exited", "crashed"}

\* The life of each process: only a signalled one gets past its Join, it has an
\* outcome when its run has ended, and its PID is not in the file it has removed.
LifeOf(q) ==
  /\ daemon[q] = "unborn" => q \notin signalled /\ pidFile # q
  /\ daemon[q] \in Stopping \/ outcome[q] = "reported" => q \in signalled
  /\ daemon[q] \in Ending <=> outcome[q] # "none"
  /\ daemon[q] \in {"gone", "exited"} /\ pidFile = q => q \notin signalled

LifeInv == \A q \in Pids : LifeOf(q)

\* The shells that do nothing are at their prompt.
OthersIdle == \A t \in Sessions : role[t] = "none" => session[t].at = "idle"

\* No process lives but the one the shell has in hand.
OnlyInHand(s) == \A q \in Pids : Lives(q) => q = session[s].pid

\* Where its PID is.  Once its parent has stored it, the process itself may be about
\* to store it again, or have failed to; when stop has read it, it stays.
PidStored(s) ==
  LET p == session[s].pid
      at == session[s].at IN
  /\ at \in {"parent write", "started", "waiting", "ready"} => pidFile \in {p, Empty, NoPid}
  /\ Lives(p) =>
       /\ at = "parent write" => s \in handles
       /\ at \in {"started", "waiting", "ready"} => pidFile \in {p, Empty}
       /\ at \in {"signal", "poll"} => pidFile = p

\* What the shell knows of the process at each place.
Phases(s) ==
  LET p == session[s].pid
      at == session[s].at IN
  /\ at # "foreground"
  /\ at \in {"idle", "start"} => p \notin Pids
  /\ at \notin {"idle", "start", "failed"} => p \in Pids
  /\ p \in Pids => daemon[p] # "unborn"
  /\ at \in {"parent open", "parent write", "started", "waiting", "not running"} =>
       p \notin signalled
  /\ at \in {"ready", "signal"} =>
       /\ p \notin signalled
       /\ socket = p
       /\ daemon[p] \in {"tracing", "crashed"}
  /\ at = "poll" /\ Lives(p) => daemon[p] \in Owning
  /\ at \in {"clean", "stopped"} => ~Lives(p)
  /\ at \in {"clean killed", "killed"} => ~Alive(p)
  /\ p \in Pids /\ outcome[p] = "reported" => reportFile = p

ShellInv(s) == OnlyInHand(s) /\ PidStored(s) /\ Phases(s)

WorkInv ==
  /\ LifeInv
  /\ OthersIdle
  /\ \A s \in Sessions : role[s] = "script" => ShellInv(s)

\* A living process is storing its PID or owns the file.
LEMMA LivesWhere ==
  ASSUME TypeOK, NEW p
  PROVE  Lives(p) <=> p \in Pids /\ daemon[p] \in {"boot", "store", "write"} \cup Owning
BY DEF Lives, Alive, TypeOK, Owning

\* What an advance does to each process.
LEMMA Advanced ==
  ASSUME TypeOK, NEW p \in Pids, NEW from, NEW to, Advance(p, from, to)
  PROVE  /\ daemon[p] = from
         /\ daemon'[p] = to
         /\ \A q \in Pids \ {p} : daemon'[q] = daemon[q]
BY DEF TypeOK, Advance

\* What a kill does to each process.
LEMMA Killed ==
  ASSUME TypeOK, NEW p \in Pids, Kill(p)
  PROVE  /\ daemon'[p] = IF daemon[p] = "exited" THEN "exited" ELSE "crashed"
         /\ outcome'[p] = IF outcome[p] = "none" THEN "killed" ELSE outcome[p]
         /\ \A q \in Pids \ {p} : daemon'[q] = daemon[q] /\ outcome'[q] = outcome[q]
BY DEF TypeOK, Kill

\* A process not touched by a step, and whose PID is not stored by it, lives as before.
LEMMA OthersLife ==
  ASSUME NEW p, NEW q \in Pids, LifeOf(q), daemon'[q] = daemon[q],
         outcome'[q] = outcome[q], q \in signalled' <=> q \in signalled,
         pidFile' = q => pidFile = q
  PROVE  LifeOf(q)'
BY DEF LifeOf

\* Every step of a process keeps LifeInv.
LEMMA DaemonLife ==
  ASSUME TypeOK, LifeInv, NEW p \in Pids, Daemon(p) \/ Crash(p)
  PROVE  LifeInv'
<1>a. LifeOf(p)
  BY DEF LifeInv
<1>b. outcome \in [Pids -> {"none", "reported", "error", "killed"}]
  BY DEF TypeOK
<1>c. NoPid # p /\ Empty # p
  BY LifecycleAssumption
<1>d. /\ \A q \in Pids \ {p} : daemon'[q] = daemon[q] /\ outcome'[q] = outcome[q]
      /\ signalled' = signalled
      /\ \A q \in Pids \ {p} : pidFile' = q => pidFile = q
      /\ LifeOf(p)'
  <2> USE <1>a, <1>b, <1>c, LifecycleAssumption, Advanced DEF LifeOf, Stopping, Ending
  <2>0. CASE HandleSignals(p)
    BY <2>0 DEF HandleSignals
  <2>1. CASE StorePidOpen(p)
    BY <2>1 DEF StorePidOpen, Truncate
  <2>2. CASE StorePidWrite(p)
    BY <2>2 DEF StorePidWrite, Write, GiveUpWrite
  <2>3. CASE InitializeListener(p)
    BY <2>3 DEF InitializeListener
  <2>4. CASE BecomeReady(p)
    BY <2>4 DEF BecomeReady
  <2>5. CASE Join(p)
    BY <2>5 DEF Join
  <2>6. CASE ShutdownListener(p)
    BY <2>6 DEF ShutdownListener
  <2>7. CASE CreateReport(p)
    BY <2>7 DEF CreateReport
  <2>8. CASE WriteReport(p)
    BY <2>8 DEF WriteReport
  <2>9. CASE RemovePidFile(p)
    BY <2>9 DEF RemovePidFile, Remove
  <2>10. CASE Exit(p)
    BY <2>10 DEF Exit
  <2>11. CASE Crash(p)
    BY <2>11, Killed DEF Crash, Alive
  <2> QED  BY <2>0, <2>1, <2>2, <2>3, <2>4, <2>5, <2>6, <2>7, <2>8, <2>9, <2>10, <2>11
           DEF Daemon
<1> SUFFICES ASSUME NEW q \in Pids PROVE LifeOf(q)'
  BY DEF LifeInv
<1>e. LifeOf(q)
  BY DEF LifeInv
<1> QED  BY <1>d, <1>e, OthersLife

\* A step of a process: it lived, no other process is touched, the shells and their
\* roles stay as they are, and the PID file is left alone once the process owns it,
\* until the process removes it.
LEMMA DaemonStep ==
  ASSUME TypeOK, NEW p \in Pids, Daemon(p) \/ Crash(p)
  PROVE  /\ session' = session /\ role' = role
         /\ \A q \in Pids \ {p} : daemon'[q] = daemon[q]
         /\ Alive(p)
         /\ daemon'[p] # "unborn"
         /\ daemon[p] = "gone" => daemon'[p] \in {"exited", "crashed"}
         /\ daemon[p] \in Owning =>
              /\ daemon'[p] \in Owning \cup {"gone", "crashed"}
              /\ pidFile' = IF daemon'[p] = "gone" THEN NoPid ELSE pidFile
         /\ \/ pidFile' \in {pidFile, NoPid, Empty}
            \/ pidFile' = p /\ daemon'[p] = "init"
<1> USE Advanced DEF Alive, Owning
<1>0. CASE HandleSignals(p)
  BY <1>0 DEF HandleSignals
<1>1. CASE StorePidOpen(p)
  BY <1>1 DEF StorePidOpen, Truncate
<1>2. CASE StorePidWrite(p)
  BY <1>2 DEF StorePidWrite, Write, GiveUpWrite
<1>3. CASE InitializeListener(p)
  BY <1>3 DEF InitializeListener
<1>4. CASE BecomeReady(p)
  BY <1>4 DEF BecomeReady
<1>5. CASE Join(p)
  BY <1>5 DEF Join
<1>6. CASE ShutdownListener(p)
  BY <1>6 DEF ShutdownListener
<1>7. CASE CreateReport(p)
  BY <1>7 DEF CreateReport
<1>8. CASE WriteReport(p)
  BY <1>8 DEF WriteReport
<1>9. CASE RemovePidFile(p)
  BY <1>9 DEF RemovePidFile, Remove
<1>10. CASE Exit(p)
  BY <1>10 DEF Exit
<1>11. CASE Crash(p)
  BY <1>11, Killed DEF Crash
<1> QED  BY <1>0, <1>1, <1>2, <1>3, <1>4, <1>5, <1>6, <1>7, <1>8, <1>9, <1>10, <1>11
         DEF Daemon

\* A step of a process, seen from the shell that has it in hand.
LEMMA DaemonShell ==
  ASSUME TypeOK, LifeInv, NEW s \in Sessions, ShellInv(s), NEW p \in Pids,
         Daemon(p) \/ Crash(p)
  PROVE  ShellInv(s)'
<1> DEFINE h == session[s].pid
<1>a. session' = session
  BY DaemonStep
<1>b. /\ Lives(p)' => Lives(p)
      /\ \A q \in Pids \ {p} : daemon'[q] = daemon[q]
      /\ Lives(p) \/ daemon[p] = "gone"
  BY DaemonStep DEF Lives, Alive
<1>1. OnlyInHand(s)'
  BY <1>a, <1>b DEF ShellInv, OnlyInHand, Lives, Alive
<1>c. PidStored(s) /\ Phases(s)
  BY DEF ShellInv
<1>2. CASE p # h
  <2>1. daemon[p] = "gone"
    BY <1>b, <1>2 DEF ShellInv, OnlyInHand
  <2>d. ASSUME UNCHANGED <<pidFile, handles, socket, signalled, reportFile>>,
               \A q \in Pids \ {p} : outcome'[q] = outcome[q]
        PROVE  ShellInv(s)'
    <3>1. UNCHANGED <<h, session[s].at>>
      BY <1>a
    <3>2. h \in Pids => daemon'[h] = daemon[h] /\ outcome'[h] = outcome[h]
      BY <1>2, <1>b, <2>d
    <3>3. PidStored(s)'
      BY <1>c, <2>d, <3>1, <3>2 DEF PidStored, Lives, Alive
    <3>4. Phases(s)'
      BY <1>a, <1>c, <2>d, <3>1, <3>2 DEF Phases, Lives, Alive
    <3> QED  BY <1>1, <3>3, <3>4 DEF ShellInv
  <2>2. CASE Exit(p)
    <3>1. outcome' = outcome
      BY <2>2 DEF Exit
    <3> QED  BY <2>2, <2>d, <3>1, Advanced DEF Exit
  <2>3. CASE Crash(p)
    <3>1. \A q \in Pids \ {p} : outcome'[q] = outcome[q]
      BY <2>3, Killed DEF Crash
    <3> QED  BY <2>3, <2>d, <3>1 DEF Crash
  <2> QED  BY <2>1, <2>2, <2>3, Advanced
           DEF Daemon, HandleSignals, StorePidOpen, StorePidWrite, InitializeListener,
               BecomeReady, Join, ShutdownListener, CreateReport, WriteReport, RemovePidFile
<1>3. CASE p = h
  <2>a. LifeOf(p) /\ outcome \in [Pids -> {"none", "reported", "error", "killed"}]
    BY DEF LifeInv, TypeOK
  <2>b. NoPid # p /\ Empty # p
    BY LifecycleAssumption
  <2>0. CASE HandleSignals(p)
    <3>1. /\ UNCHANGED <<pidFile, handles, socket, signalled, outcome, reportFile>>
          /\ daemon[p] = "boot" /\ daemon'[p] = "store"
      BY <2>0, Advanced DEF HandleSignals
    <3>2. PidStored(s)'
      BY <3>1, <1>3, <1>a, <1>c, <2>b DEF PidStored, Phases, Lives, Alive, Owning
    <3>3. Phases(s)'
      BY <3>1, <1>3, <1>a, <1>c, <2>a, <2>b
         DEF PidStored, Phases, LifeOf, Lives, Alive, Owning, Stopping, Ending
    <3> QED  BY <3>2, <3>3, <1>1 DEF ShellInv
  <2>1. CASE StorePidOpen(p)
    <3>1. /\ UNCHANGED <<socket, signalled, outcome, reportFile>>
          /\ daemon[p] = "store" /\ daemon'[p] \in {"write", "init"}
          /\ \/ pidFile' = Empty /\ handles' = handles \cup {p}
             \/ UNCHANGED <<pidFile, handles>>
      BY <2>1, <2>a, Advanced DEF StorePidOpen, Truncate
    <3>2. PidStored(s)'
      BY <3>1, <1>3, <1>a, <1>c, <2>b DEF PidStored, Phases, Lives, Alive, Owning
    <3>3. Phases(s)'
      BY <3>1, <1>3, <1>a, <1>c, <2>a, <2>b
         DEF PidStored, Phases, LifeOf, Lives, Alive, Owning, Stopping, Ending
    <3> QED  BY <3>2, <3>3, <1>1 DEF ShellInv
  <2>2. CASE StorePidWrite(p)
    <3>1. /\ UNCHANGED <<socket, signalled, outcome, reportFile>>
          /\ pidFile' \in {p, pidFile} /\ handles' = handles \ {p}
          /\ daemon[p] = "write" /\ daemon'[p] = "init"
      BY <2>2, <2>a, Advanced DEF StorePidWrite, Write, GiveUpWrite
    <3>2. PidStored(s)'
      BY <3>1, <1>3, <1>a, <1>c, <2>b, LifecycleAssumption
         DEF PidStored, Phases, Lives, Alive, Owning
    <3>3. Phases(s)'
      BY <3>1, <1>3, <1>a, <1>c, <2>a, <2>b
         DEF PidStored, Phases, LifeOf, Lives, Alive, Owning, Stopping, Ending
    <3> QED  BY <3>2, <3>3, <1>1 DEF ShellInv
  <2>3. CASE InitializeListener(p)
    <3>1. /\ UNCHANGED <<pidFile, handles, signalled, reportFile>>
          /\ \/ daemon[p] = "init" /\ daemon'[p] = "listening" /\ outcome' = outcome
             \/ daemon[p] = "init" /\ daemon'[p] = "leaving" /\ outcome'[p] = "error"
      BY <2>3, <2>a, Advanced DEF InitializeListener
    <3>2. PidStored(s)'
      BY <3>1, <1>3, <1>a, <1>c, <2>b DEF PidStored, Phases, Lives, Alive, Owning
    <3>3. Phases(s)'
      BY <3>1, <1>3, <1>a, <1>c, <2>a, <2>b
         DEF PidStored, Phases, LifeOf, Lives, Alive, Owning, Stopping, Ending
    <3> QED  BY <3>2, <3>3, <1>1 DEF ShellInv
  <2>4. CASE BecomeReady(p)
    <3>1. /\ UNCHANGED <<pidFile, handles, socket, signalled, reportFile>>
          /\ \/ daemon[p] = "listening" /\ daemon'[p] = "tracing" /\ outcome' = outcome
             \/ daemon[p] = "listening" /\ daemon'[p] = "leaving" /\ outcome'[p] = "error"
      BY <2>4, <2>a, Advanced DEF BecomeReady
    <3>2. PidStored(s)'
      BY <3>1, <1>3, <1>a, <1>c, <2>b DEF PidStored, Phases, Lives, Alive, Owning
    <3>3. Phases(s)'
      BY <3>1, <1>3, <1>a, <1>c, <2>a, <2>b
         DEF PidStored, Phases, LifeOf, Lives, Alive, Owning, Stopping, Ending
    <3> QED  BY <3>2, <3>3, <1>1 DEF ShellInv
  <2>5. CASE Join(p)
    <3>1. /\ UNCHANGED <<pidFile, handles, socket, signalled, outcome, reportFile>>
          /\ p \in signalled
          /\ \/ daemon[p] = "tracing" /\ daemon'[p] = "joined"
             \/ daemon[p] = "tracing" /\ daemon'[p] = "hung"
      BY <2>5, <2>a, Advanced DEF Join
    <3>2. PidStored(s)'
      BY <3>1, <1>3, <1>a, <1>c, <2>b DEF PidStored, Phases, Lives, Alive, Owning
    <3>3. Phases(s)'
      BY <3>1, <1>3, <1>a, <1>c, <2>a, <2>b
         DEF PidStored, Phases, LifeOf, Lives, Alive, Owning, Stopping, Ending
    <3> QED  BY <3>2, <3>3, <1>1 DEF ShellInv
  <2>6. CASE ShutdownListener(p)
    <3>1. /\ UNCHANGED <<pidFile, handles, signalled, reportFile>>
          /\ \/ daemon[p] = "joined" /\ daemon'[p] = "stopped" /\ outcome' = outcome
             \/ daemon[p] = "joined" /\ daemon'[p] = "leaving" /\ outcome'[p] = "error"
      BY <2>6, <2>a, Advanced DEF ShutdownListener
    <3>2. PidStored(s)'
      BY <3>1, <1>3, <1>a, <1>c, <2>b DEF PidStored, Phases, Lives, Alive, Owning
    <3>3. Phases(s)'
      BY <3>1, <1>3, <1>a, <1>c, <2>a, <2>b
         DEF PidStored, Phases, LifeOf, Lives, Alive, Owning, Stopping, Ending
    <3> QED  BY <3>2, <3>3, <1>1 DEF ShellInv
  <2>7. CASE CreateReport(p)
    <3>1. /\ UNCHANGED <<pidFile, handles, socket, signalled>>
          /\ \/ daemon[p] = "stopped" /\ daemon'[p] = "writing" /\ outcome' = outcome
             \/ daemon[p] = "stopped" /\ daemon'[p] = "leaving" /\ outcome'[p] = "error"
      BY <2>7, <2>a, Advanced DEF CreateReport
    <3>2. PidStored(s)'
      BY <3>1, <1>3, <1>a, <1>c, <2>b DEF PidStored, Phases, Lives, Alive, Owning
    <3>3. Phases(s)'
      BY <3>1, <1>3, <1>a, <1>c, <2>a, <2>b
         DEF PidStored, Phases, LifeOf, Lives, Alive, Owning, Stopping, Ending
    <3> QED  BY <3>2, <3>3, <1>1 DEF ShellInv
  <2>8. CASE WriteReport(p)
    <3>1. /\ UNCHANGED <<pidFile, handles, socket, signalled>>
          /\ \/ /\ daemon[p] = "writing" /\ daemon'[p] = "leaving"
                /\ outcome'[p] = "reported" /\ reportFile' = p
             \/ daemon[p] = "writing" /\ daemon'[p] = "leaving" /\ outcome'[p] = "error"
      BY <2>8, <2>a, Advanced DEF WriteReport
    <3>2. PidStored(s)'
      BY <3>1, <1>3, <1>a, <1>c, <2>b DEF PidStored, Phases, Lives, Alive, Owning
    <3>3. Phases(s)'
      BY <3>1, <1>3, <1>a, <1>c, <2>a, <2>b
         DEF PidStored, Phases, LifeOf, Lives, Alive, Owning, Stopping, Ending
    <3> QED  BY <3>2, <3>3, <1>1 DEF ShellInv
  <2>9. CASE RemovePidFile(p)
    <3>1. /\ UNCHANGED <<socket, signalled, outcome, reportFile>>
          /\ pidFile' = NoPid
          /\ daemon[p] = "leaving" /\ daemon'[p] = "gone"
      BY <2>9, <2>a, Advanced DEF RemovePidFile, Remove
    <3>2. PidStored(s)'
      BY <3>1, <1>3, <1>a, <1>c, <2>b DEF PidStored, Phases, Lives, Alive, Owning
    <3>3. Phases(s)'
      BY <3>1, <1>3, <1>a, <1>c, <2>a, <2>b
         DEF PidStored, Phases, LifeOf, Lives, Alive, Owning, Stopping, Ending
    <3> QED  BY <3>2, <3>3, <1>1 DEF ShellInv
  <2>10. CASE Exit(p)
    <3>1. /\ UNCHANGED <<pidFile, handles, socket, signalled, outcome, reportFile>>
          /\ daemon[p] = "gone" /\ daemon'[p] = "exited"
      BY <2>10, <2>a, Advanced DEF Exit
    <3>2. PidStored(s)'
      BY <3>1, <1>3, <1>a, <1>c, <2>b DEF PidStored, Phases, Lives, Alive, Owning
    <3>3. Phases(s)'
      BY <3>1, <1>3, <1>a, <1>c, <2>a, <2>b
         DEF PidStored, Phases, LifeOf, Lives, Alive, Owning, Stopping, Ending
    <3> QED  BY <3>2, <3>3, <1>1 DEF ShellInv
  <2>11. CASE Crash(p)
    <3>1. /\ UNCHANGED <<pidFile, handles, socket, signalled, reportFile>>
          /\ daemon[p] # "exited" /\ daemon'[p] = "crashed"
          /\ outcome'[p] = IF outcome[p] = "none" THEN "killed" ELSE outcome[p]
      BY <2>11, Killed DEF Crash, Alive
    <3>2. PidStored(s)'
      BY <3>1, <1>3, <1>a, <1>c, <2>b DEF PidStored, Phases, Lives, Alive, Owning
    <3>3. Phases(s)'
      BY <3>1, <1>3, <1>a, <1>c, <2>a, <2>b
         DEF PidStored, Phases, LifeOf, Lives, Alive, Owning, Stopping, Ending
    <3> QED  BY <3>2, <3>3, <1>1 DEF ShellInv
  <2> QED  BY <2>0, <2>1, <2>2, <2>3, <2>4, <2>5, <2>6, <2>7, <2>8, <2>9, <2>10, <2>11
           DEF Daemon
<1> QED  BY <1>2, <1>3

\* Where a shell is before and after it goes on.
LEMMA Went ==
  ASSUME TypeOK, NEW s \in Sessions, NEW from, NEW to, Go(s, from, to)
  PROVE  /\ session[s].at = from
         /\ session'[s].at = to
         /\ session'[s].pid = session[s].pid
         /\ \A t \in Sessions \ {s} : session'[t] = session[t]
BY DEF TypeOK, Go

LEMMA WentWith ==
  ASSUME TypeOK, NEW s \in Sessions, NEW to, NEW p, GoWith(s, to, p)
  PROVE  /\ session'[s].at = to
         /\ session'[s].pid = p
         /\ \A t \in Sessions \ {s} : session'[t] = session[t]
BY DEF TypeOK, GoWith

\* The commands of a shell that keeps to the script.
ScriptCommand(s) ==
  \/ RunDetach(s) \/ Start(s) \/ ParentOpen(s) \/ ParentWrite(s)
  \/ WaitCheck(s) \/ WaitReady(s) \/ WaitTimeout(s)
  \/ StopRead(s) \/ StopSignal(s) \/ StopPoll(s) \/ StopKill(s) \/ StopClean(s)

\* Where the script gives its commands.
LEMMA ScriptGives ==
  ASSUME NEW s \in Sessions, role[s] = "script"
  PROVE  /\ Gives(s, "run") => session[s].at \in {"idle", "stopped", "killed"}
         /\ Gives(s, "wait") => session[s].at = "started"
         /\ Gives(s, "stop") => session[s].at = "ready"
BY DEF Gives, Script

LEMMA OnlyScript ==
  ASSUME TypeOK, NEW s \in Sessions, role[s] = "script", Phases(s), Command(s) \/ Interrupt(s)
  PROVE  ScriptCommand(s)
BY DEF Command, ScriptCommand, Interrupt, RunForeground, ForegroundEnds, Phases, Go

\* A shell at its prompt that does nothing takes no step.
LEMMA NothingToDo ==
  ASSUME NEW s \in Sessions, role[s] = "none", session[s].at = "idle",
         Command(s) \/ Interrupt(s)
  PROVE  FALSE
<1>1. \A command : ~Gives(s, command)
  BY DEF Gives
<1> QED  BY <1>1
         DEF Command, Interrupt, RunDetach, Start, ParentOpen, ParentWrite, RunForeground,
             ForegroundEnds, WaitCheck, WaitReady, WaitTimeout, StopRead, StopSignal,
             StopPoll, StopKill, StopClean, Go

\* The others stay at their prompt while one shell goes on.
LEMMA OthersStay ==
  ASSUME TypeOK, OthersIdle, NEW s \in Sessions, role[s] = "script", ScriptCommand(s)
  PROVE  OthersIdle'
<1>1. role' = role
  BY DEF ScriptCommand, RunDetach, Start, ParentOpen, ParentWrite, WaitCheck, WaitReady,
         WaitTimeout, StopRead, StopSignal, StopPoll, StopKill, StopClean, daemonVars
<1>2. \A t \in Sessions \ {s} : session'[t] = session[t]
  <2>1. session \in SessionType
    BY DEF TypeOK, SessionStates, SessionType
  <2> QED  BY <2>1
           DEF SessionType, ScriptCommand, RunDetach, Start, Spawn, ParentOpen, ParentWrite,
               WaitCheck, WaitReady, WaitTimeout, StopRead, StopSignal, StopPoll, StopKill,
               StopClean, Go, GoWith
<1> QED  BY <1>1, <1>2 DEF OthersIdle

\* A new process of xcover run is one that has not lived before.
LEMMA Spawned ==
  ASSUME TypeOK, LifeInv, NEW s \in Sessions, NEW to, Spawn(s, to)
  PROVE  \E p \in Pids :
           /\ daemon[p] = "unborn" /\ daemon'[p] = "boot"
           /\ outcome[p] = "none" /\ p \notin signalled /\ pidFile # p
           /\ \A q \in Pids \ {p} : daemon'[q] = daemon[q]
           /\ session'[s].at = to /\ session'[s].pid = p
           /\ \A t \in Sessions \ {s} : session'[t] = session[t]
<1> DEFINE unused == {q \in Pids : daemon[q] = "unborn"}
           p == CHOOSE q \in unused : TRUE
<1>1. p \in unused
  BY DEF Spawn
<1>2. Advance(p, "unborn", "boot") /\ GoWith(s, to, p)
  BY DEF Spawn
<1>3. p \in Pids /\ LifeOf(p)
  BY <1>1 DEF LifeInv
<1> HIDE DEF p
<1>4. outcome[p] = "none" /\ p \notin signalled /\ pidFile # p
  BY <1>1, <1>3 DEF LifeOf, Ending
<1>5. /\ daemon[p] = "unborn" /\ daemon'[p] = "boot"
      /\ \A q \in Pids \ {p} : daemon'[q] = daemon[q]
  BY <1>2, <1>3, Advanced
<1>6. /\ session'[s].at = to /\ session'[s].pid = p
      /\ \A t \in Sessions \ {s} : session'[t] = session[t]
  BY <1>2, <1>3, WentWith
<1> QED  BY <1>3, <1>4, <1>5, <1>6

\* No command disturbs what is known of the processes' lives: stop signals one that
\* is tracing, and the parent stores the PID of one that nobody has signalled.
LEMMA CommandLife ==
  ASSUME TypeOK, LifeInv, NEW s \in Sessions, ShellInv(s), ScriptCommand(s)
  PROVE  LifeInv'
<1> DEFINE h == session[s].pid
<1>a. Phases(s)
  BY DEF ShellInv
<1>b. \A q \in Pids : NoPid # q /\ Empty # q
  BY LifecycleAssumption
<1> SUFFICES ASSUME NEW q \in Pids PROVE LifeOf(q)'
  BY DEF LifeInv
<1>c. LifeOf(q)
  BY DEF LifeInv
<1>1. CASE UNCHANGED <<daemon, outcome, signalled>> /\ (pidFile' = q => pidFile = q)
  BY <1>1, <1>c, OthersLife
<1>2. CASE Start(s)
  <2>1. UNCHANGED <<outcome, signalled, pidFile>>
    BY <1>2 DEF Start
  <2>2. CASE Spawn(s, "parent open")
    <3>1. PICK p \in Pids :
            /\ daemon'[p] = "boot" /\ outcome[p] = "none" /\ p \notin signalled
            /\ \A r \in Pids \ {p} : daemon'[r] = daemon[r]
      BY <2>2, Spawned
    <3>2. CASE q = p
      BY <2>1, <3>1, <3>2 DEF LifeOf, Stopping, Ending
    <3>3. CASE q # p
      BY <2>1, <3>1, <3>3, <1>c, OthersLife
    <3> QED  BY <3>2, <3>3
  <2> QED  BY <1>1, <1>2, <2>1, <2>2 DEF Start
<1>3. CASE ParentWrite(s)
  <2>1. UNCHANGED <<daemon, outcome, signalled>> /\ session[s].at = "parent write"
    BY <1>3 DEF ParentWrite, daemonVars, Go
  <2>2. pidFile' = h \/ pidFile' = pidFile
    BY <1>3 DEF ParentWrite, Write, GiveUpWrite
  <2>3. CASE q = h
    BY <1>a, <1>c, <2>1, <2>3 DEF Phases, LifeOf
  <2> QED  BY <1>1, <2>1, <2>2, <2>3
<1>4. CASE StopSignal(s)
  <2>1. UNCHANGED pidFile /\ session[s].at = "signal"
    BY <1>4 DEF StopSignal, Go
  <2>2. CASE Alive(h)
    <3>1. h \in Pids /\ daemon[h] = "tracing" /\ h \notin signalled
      BY <1>a, <2>1, <2>2 DEF Phases, Alive
    <3>2. signalled' = signalled \cup {h} /\ UNCHANGED <<daemon, outcome>>
      BY <1>4, <2>2, <3>1 DEF StopSignal, Terminate
    <3>3. CASE q = h
      BY <1>c, <2>1, <3>1, <3>2, <3>3 DEF LifeOf, Ending
    <3>4. CASE q # h
      BY <1>c, <2>1, <3>2, <3>4, OthersLife
    <3> QED  BY <3>3, <3>4
  <2>3. CASE ~Alive(h)
    BY <1>1, <1>4, <2>3 DEF StopSignal
  <2> QED  BY <2>2, <2>3
<1>5. CASE StopKill(s)
  <2>1. h \in Pids /\ UNCHANGED <<pidFile, signalled>> /\ Kill(h)
    BY <1>5, <1>a DEF StopKill, Phases, Go
  <2>2. CASE q = h
    <3>1. /\ daemon'[h] = IF daemon[h] = "exited" THEN "exited" ELSE "crashed"
          /\ outcome'[h] = IF outcome[h] = "none" THEN "killed" ELSE outcome[h]
      BY <2>1, Killed
    <3> QED  BY <1>c, <2>1, <2>2, <3>1 DEF LifeOf, Stopping, Ending
  <2>3. CASE q # h
    <3>1. daemon'[q] = daemon[q] /\ outcome'[q] = outcome[q]
      BY <2>1, <2>3, Killed
    <3> QED  BY <1>c, <2>1, <3>1, OthersLife
  <2> QED  BY <2>2, <2>3
<1>6. CASE ParentOpen(s)
  BY <1>1, <1>6, <1>b DEF ParentOpen, Truncate, daemonVars
<1>7. CASE StopClean(s)
  BY <1>1, <1>7, <1>b DEF StopClean, Remove, daemonVars
<1>8. CASE \/ RunDetach(s) \/ WaitCheck(s) \/ WaitReady(s) \/ WaitTimeout(s)
           \/ StopRead(s) \/ StopPoll(s)
  BY <1>1, <1>8
     DEF RunDetach, WaitCheck, WaitReady, WaitTimeout, StopRead, StopPoll, daemonVars
<1> QED  BY <1>2, <1>3, <1>4, <1>5, <1>6, <1>7, <1>8 DEF ScriptCommand

\* A shell whose process does not live, and is not to be started, needs no PID file.
LEMMA NothingLives ==
  ASSUME NEW s \in Sessions, OnlyInHand(s), ~Lives(session[s].pid), NEW q \in Pids
  PROVE  ~Lives(q)
BY DEF OnlyInHand

\* The shell's own commands keep track of the process it has in hand: it starts one
\* only when none lives, and stop and its polls find the one that lives in the file.
LEMMA CommandShell ==
  ASSUME TypeOK, LifeInv, NEW s \in Sessions, role[s] = "script", ShellInv(s),
         ScriptCommand(s)
  PROVE  ShellInv(s)'
<1> DEFINE h  == session[s].pid
           at == session[s].at
<1>a. OnlyInHand(s) /\ PidStored(s) /\ Phases(s)
  BY DEF ShellInv
<1>b. NoPid \notin Pids /\ Empty \notin Pids /\ s \notin Pids
  BY LifecycleAssumption
<1>c. ASSUME UNCHANGED daemon, h' = h
      PROVE  OnlyInHand(s)'
  BY <1>a, <1>c DEF OnlyInHand, Lives, Alive
\* A command that ends in an error, or before it has done anything.
<1>d. ASSUME UNCHANGED daemonVars, at' = "failed", h' = h
      PROVE  ShellInv(s)'
  <2>1. PidStored(s)' /\ Phases(s)'
    BY <1>a, <1>d DEF PidStored, Phases, daemonVars
  <2> QED  BY <1>c, <1>d, <2>1 DEF ShellInv, daemonVars
<1>1. CASE RunDetach(s)
  <2>1. UNCHANGED <<pidFile, handles, daemonVars>> /\ at \in {"idle", "stopped", "killed"}
    BY <1>1, ScriptGives DEF RunDetach
  <2>2. ~Lives(h)
    BY <1>a, <2>1 DEF Phases, Lives, Alive
  <2>3. \A q \in Pids : ~Lives(q) /\ ~Lives(q)'
    BY <1>a, <2>1, <2>2, NothingLives DEF Lives, Alive, daemonVars
  <2>4. CASE Alive(pidFile) /\ GoWith(s, "started", pidFile)
    <3>1. at' = "started" /\ h' = pidFile
      BY <2>4, WentWith
    <3>2. pidFile \in Pids /\ LifeOf(pidFile) /\ daemon[pidFile] = "gone"
      BY <2>3, <2>4 DEF LifeInv, Alive, Lives
    <3>3. pidFile \notin signalled /\ outcome[pidFile] # "reported"
      BY <3>2 DEF LifeOf
    <3>4. OnlyInHand(s)' /\ PidStored(s)'
      BY <2>1, <2>3, <3>1, <3>2 DEF OnlyInHand, PidStored
    <3>5. Phases(s)'
      BY <2>1, <3>1, <3>2, <3>3 DEF Phases, daemonVars
    <3> QED  BY <3>4, <3>5 DEF ShellInv
  <2>5. CASE GoWith(s, "start", NoPid)
    <3>1. at' = "start" /\ h' = NoPid
      BY <2>5, WentWith
    <3>2. OnlyInHand(s)' /\ PidStored(s)' /\ Phases(s)'
      BY <1>b, <2>3, <3>1 DEF OnlyInHand, PidStored, Phases
    <3> QED  BY <3>2 DEF ShellInv
  <2> QED  BY <1>1, <2>4, <2>5 DEF RunDetach, IsDaemonRunning
<1>2. CASE Start(s)
  <2>1. UNCHANGED <<pidFile, handles, socket, signalled, outcome, reportFile>> /\ at = "start"
    BY <1>2 DEF Start
  <2>2. \A q \in Pids : ~Lives(q)
    BY <1>a, <2>1, NothingLives DEF Phases, Lives, Alive
  <2>3. CASE Spawn(s, "parent open")
    <3>1. PICK p \in Pids :
            /\ daemon[p] = "unborn" /\ daemon'[p] = "boot"
            /\ outcome[p] = "none" /\ p \notin signalled /\ pidFile # p
            /\ \A q \in Pids \ {p} : daemon'[q] = daemon[q]
            /\ at' = "parent open" /\ h' = p
      BY <2>3, Spawned
    <3>2. OnlyInHand(s)'
      BY <2>2, <3>1 DEF OnlyInHand, Lives, Alive
    <3>3. PidStored(s)' /\ Phases(s)'
      BY <2>1, <3>1 DEF PidStored, Phases, Owning
    <3> QED  BY <3>2, <3>3 DEF ShellInv
  <2>4. CASE GoWith(s, "failed", NoPid) /\ UNCHANGED daemon
    <3>1. at' = "failed" /\ h' = NoPid
      BY <2>4, WentWith
    <3>2. OnlyInHand(s)' /\ PidStored(s)' /\ Phases(s)'
      BY <1>b, <2>2, <2>4, <3>1 DEF OnlyInHand, PidStored, Phases, Lives, Alive
    <3> QED  BY <3>2 DEF ShellInv
  <2> QED  BY <1>2, <2>3, <2>4 DEF Start
<1>3. CASE ParentOpen(s)
  <2>1. UNCHANGED daemonVars /\ at = "parent open" /\ h' = h
    BY <1>3, Went DEF ParentOpen
  <2>2. CASE Go(s, "parent open", "parent write") /\ Truncate(s)
    <3>1. pidFile' = Empty /\ handles' = handles \cup {s} /\ at' = "parent write"
      BY <2>2, Went DEF Truncate
    <3>2. PidStored(s)' /\ Phases(s)'
      BY <1>a, <2>1, <3>1 DEF PidStored, Phases, Lives, Alive, daemonVars
    <3> QED  BY <1>c, <2>1, <3>2 DEF ShellInv, daemonVars
  <2>3. CASE Go(s, "parent open", "failed")
    BY <1>d, <2>1, <2>3, Went
  <2> QED  BY <1>3, <2>2, <2>3 DEF ParentOpen
<1>4. CASE ParentWrite(s)
  <2>1. UNCHANGED daemonVars /\ at = "parent write" /\ h' = h
    BY <1>4, Went DEF ParentWrite
  <2>2. CASE Go(s, "parent write", "started") /\ Write(s, h)
    <3>1. at' = "started" /\ pidFile' = (IF s \in handles THEN h ELSE pidFile)
      BY <2>2, Went DEF Write
    <3>2. PidStored(s)' /\ Phases(s)'
      BY <1>a, <2>1, <3>1 DEF PidStored, Phases, Lives, Alive, daemonVars
    <3> QED  BY <1>c, <2>1, <3>2 DEF ShellInv, daemonVars
  <2>3. CASE Go(s, "parent write", "failed")
    BY <1>d, <2>1, <2>3, Went
  <2> QED  BY <1>4, <2>2, <2>3 DEF ParentWrite
<1>5. CASE WaitCheck(s)
  <2>1. UNCHANGED <<pidFile, handles, daemonVars>> /\ at = "started"
    BY <1>5, ScriptGives DEF WaitCheck
  <2>2. at' \in {"waiting", "not running"} /\ h' = h
    BY <1>5, Went DEF WaitCheck
  <2>3. PidStored(s)' /\ Phases(s)'
    BY <1>a, <2>1, <2>2 DEF PidStored, Phases, Lives, Alive, daemonVars
  <2> QED  BY <1>c, <2>1, <2>2, <2>3 DEF ShellInv, daemonVars
<1>6. CASE WaitReady(s)
  <2>1. UNCHANGED <<pidFile, handles, daemonVars>>
    BY <1>6 DEF WaitReady
  <2>2. at = "waiting" /\ at' = "ready" /\ h' = h
    BY <1>6, Went DEF WaitReady
  <2>3. socket = h /\ h \in Pids /\ h \notin signalled /\ daemon[h] = "tracing"
    <3>1. socket \in Pids /\ daemon[socket] \in {"tracing", "joined", "hung"}
      BY <1>6 DEF WaitReady
    <3>2. socket = h
      BY <1>a, <3>1 DEF OnlyInHand, Lives, Alive
    <3>3. h \notin signalled /\ LifeOf(h)
      BY <1>a, <2>2, <3>1, <3>2 DEF Phases, LifeInv
    <3> QED  BY <3>1, <3>2, <3>3 DEF LifeOf, Stopping
  <2>4. PidStored(s)' /\ Phases(s)'
    BY <1>a, <2>1, <2>2, <2>3 DEF PidStored, Phases, Lives, Alive, daemonVars
  <2> QED  BY <1>c, <2>1, <2>2, <2>4 DEF ShellInv, daemonVars
<1>7. CASE WaitTimeout(s)
  BY <1>7, <1>d, Went DEF WaitTimeout
<1>8. CASE StopRead(s)
  <2>1. UNCHANGED <<pidFile, handles, daemonVars>> /\ at = "ready"
    BY <1>8, ScriptGives DEF StopRead
  <2>2. CASE pidFile \in Pids
    <3>1. at' = "signal" /\ h' = pidFile
      BY <1>8, <2>2, WentWith DEF StopRead
    <3>2. pidFile = h
      BY <1>a, <1>b, <2>1, <2>2 DEF PidStored
    <3>3. PidStored(s)' /\ Phases(s)'
      BY <1>a, <2>1, <2>2, <3>1, <3>2 DEF PidStored, Phases, Lives, Alive, daemonVars
    <3> QED  BY <1>c, <2>1, <3>1, <3>2, <3>3 DEF ShellInv, daemonVars
  <2>3. CASE pidFile \notin Pids
    BY <1>8, <1>d, <2>1, <2>3, Went DEF StopRead
  <2> QED  BY <2>2, <2>3
<1>9. CASE StopSignal(s)
  <2>1. UNCHANGED <<pidFile, handles, socket, reportFile>> /\ at = "signal"
    BY <1>9 DEF StopSignal, Go
  <2>2. h \in Pids /\ h \notin signalled /\ daemon[h] \in {"tracing", "crashed"}
    BY <1>a, <2>1 DEF Phases
  <2>3. CASE Alive(h)
    <3>1. daemon[h] = "tracing"
      BY <2>2, <2>3 DEF Alive
    <3>2. signalled' = signalled \cup {h} /\ UNCHANGED <<daemon, outcome>>
      BY <1>9, <2>2, <2>3, <3>1 DEF StopSignal, Terminate
    <3>3. at' = "poll" /\ h' = h
      BY <1>9, <2>3, Went DEF StopSignal
    <3>4. PidStored(s)' /\ Phases(s)'
      BY <1>a, <2>1, <2>2, <3>1, <3>2, <3>3 DEF PidStored, Phases, Lives, Alive, Owning
    <3> QED  BY <1>c, <3>2, <3>3, <3>4 DEF ShellInv
  <2>4. CASE ~Alive(h)
    <3>1. UNCHANGED daemonVars
      BY <1>9, <2>4 DEF StopSignal, daemonVars
    <3> QED  BY <1>9, <1>d, <2>4, <3>1, Went DEF StopSignal
  <2> QED  BY <2>3, <2>4
<1>10. CASE StopPoll(s)
  <2>1. UNCHANGED <<pidFile, handles, daemonVars>> /\ at = "poll"
    BY <1>10 DEF StopPoll, Go
  <2>2. CASE IsDaemonRunning
    <3>1. at' = at /\ h' = h
      BY <1>10, <2>2 DEF StopPoll, TypeOK
    <3>2. PidStored(s)' /\ Phases(s)'
      BY <1>a, <2>1, <3>1 DEF PidStored, Phases, Lives, Alive, daemonVars
    <3> QED  BY <1>c, <2>1, <3>1, <3>2 DEF ShellInv, daemonVars
  <2>3. CASE ~IsDaemonRunning
    <3>1. at' = "clean" /\ h' = h
      BY <1>10, <2>3, Went DEF StopPoll
    <3>2. ~Lives(h)
      BY <1>a, <2>1, <2>3 DEF PidStored, Lives, IsDaemonRunning
    <3>3. PidStored(s)' /\ Phases(s)'
      BY <1>a, <2>1, <3>1, <3>2 DEF PidStored, Phases, Lives, Alive, daemonVars
    <3> QED  BY <1>c, <2>1, <3>1, <3>3 DEF ShellInv, daemonVars
  <2> QED  BY <2>2, <2>3
<1>11. CASE StopKill(s)
  <2>1. UNCHANGED <<pidFile, handles, socket, signalled, reportFile>> /\ Kill(h) /\ at = "poll"
    BY <1>11 DEF StopKill, Go
  <2>a. h \in Pids
    BY <1>a, <2>1 DEF Phases
  <2>2. at' = "clean killed" /\ h' = h /\ h \in Pids
    BY <1>11, <2>a, Went DEF StopKill
  <2>3. /\ daemon'[h] \in {"exited", "crashed"}
        /\ outcome'[h] = IF outcome[h] = "none" THEN "killed" ELSE outcome[h]
        /\ \A q \in Pids \ {h} : daemon'[q] = daemon[q]
    BY <2>1, <2>2, Killed
  <2>4. \A q \in Pids : ~Lives(q)'
    BY <1>a, <2>3 DEF OnlyInHand, Lives, Alive
  <2>5. OnlyInHand(s)' /\ PidStored(s)'
    BY <2>2, <2>4 DEF OnlyInHand, PidStored, Lives, Alive
  <2>6. Phases(s)'
    BY <1>a, <2>1, <2>2, <2>3, <2>4 DEF Phases, Alive
  <2> QED  BY <2>5, <2>6 DEF ShellInv
<1>12. CASE StopClean(s)
  <2>1. UNCHANGED daemonVars
    BY <1>12 DEF StopClean
  <2>2. /\ \/ at = "clean" /\ at' = "stopped"
           \/ at = "clean killed" /\ at' = "killed"
        /\ h' = h
    BY <1>12, Went DEF StopClean
  <2>3. PidStored(s)' /\ Phases(s)'
    BY <1>a, <2>1, <2>2 DEF PidStored, Phases, Lives, Alive, daemonVars
  <2> QED  BY <1>c, <2>1, <2>2, <2>3 DEF ShellInv, daemonVars
<1> QED  BY <1>1, <1>2, <1>3, <1>4, <1>5, <1>6, <1>7, <1>8, <1>9, <1>10, <1>11, <1>12
         DEF ScriptCommand

\* At first no process lives and every shell is at its prompt.
LEMMA InitWork == Init => WorkInv
<1> SUFFICES ASSUME Init PROVE WorkInv
  OBVIOUS
<1>1. \A q \in Pids :
        /\ \/ daemon[q] = "unborn" /\ outcome[q] = "none" /\ pidFile # q
           \/ daemon[q] = "crashed" /\ outcome[q] = "killed"
        /\ q \notin signalled /\ ~Lives(q)
  BY LifecycleAssumption DEF Init, Lives, Alive
<1>2. \A s \in Sessions : session[s].at = "idle" /\ session[s].pid = NoPid /\ NoPid \notin Pids
  BY LifecycleAssumption DEF Init
<1>3. LifeInv /\ OthersIdle
  BY <1>1, <1>2 DEF LifeInv, LifeOf, OthersIdle, Stopping, Ending
<1>4. ASSUME NEW s \in Sessions PROVE ShellInv(s)
  <2>1. OnlyInHand(s) /\ PidStored(s)
    BY <1>1, <1>2 DEF OnlyInHand, PidStored, Lives, Alive
  <2>2. signalled = {}
    BY DEF Init
  <2>3. Phases(s)
    BY <1>2, <2>2 DEF Phases, Lives, Alive
  <2> QED  BY <2>1, <2>3 DEF ShellInv
<1> QED  BY <1>3, <1>4 DEF WorkInv

\* Every step of a process or of the one shell keeps WorkInv.
LEMMA NextWork ==
  ASSUME SoleRunner(role), TypeOK, WorkInv, [Next]_vars
  PROVE  WorkInv'
<1>1. PICK s \in Sessions : role[s] = "script" /\ \A t \in Sessions \ {s} : role[t] = "none"
  BY DEF SoleRunner
<1>2. ShellInv(s) /\ LifeInv /\ OthersIdle
  BY <1>1 DEF WorkInv
<1>3. ASSUME role' = role, LifeInv', OthersIdle', ShellInv(s)'
      PROVE  WorkInv'
  <2>1. \A t \in Sessions : role'[t] = "script" => t = s
    BY <1>1, <1>3
  <2> QED  BY <1>3, <2>1 DEF WorkInv
<1>4. CASE UNCHANGED vars
  BY <1>2, <1>3, <1>4
     DEF vars, LifeInv, LifeOf, OthersIdle, ShellInv, OnlyInHand, PidStored, Phases, Lives,
         Alive
<1>5. ASSUME NEW p \in Pids, Daemon(p) \/ Crash(p)
      PROVE  WorkInv'
  <2>1. role' = role /\ session' = session
    BY <1>5, DaemonStep
  <2>2. OthersIdle'
    BY <1>2, <2>1 DEF OthersIdle
  <2> QED  BY <1>2, <1>3, <1>5, <2>1, <2>2, DaemonLife, DaemonShell
<1>6. ASSUME NEW t \in Sessions, Command(t) \/ Interrupt(t)
      PROVE  WorkInv'
  <2>1. t = s
    BY <1>1, <1>2, <1>6, NothingToDo DEF OthersIdle
  <2>2. ScriptCommand(s)
    BY <1>1, <1>2, <1>6, <2>1, OnlyScript DEF ShellInv
  <2>3. role' = role
    BY <2>2
       DEF ScriptCommand, RunDetach, Start, ParentOpen, ParentWrite, WaitCheck, WaitReady,
           WaitTimeout, StopRead, StopSignal, StopPoll, StopKill, StopClean, daemonVars
  <2> QED  BY <1>1, <1>2, <1>3, <2>2, <2>3, CommandLife, CommandShell, OthersStay
<1> QED  BY <1>4, <1>5, <1>6 DEF Next
=============================================================================
