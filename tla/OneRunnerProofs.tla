-------------------------- MODULE OneRunnerProofs --------------------------
(***************************************************************************)
(* What the commands promise each other when one shell at most starts      *)
(* daemons, and does it with discipline (OneRunner): either it keeps to    *)
(* the script of the README and no other shell does anything (SoleRunner,  *)
(* WorkInv of LifecycleProofs), or it runs them in the foreground while    *)
(* other shells wait and stop (ForegroundRunner, FrontInv here).  Earlier  *)
(* runs may have left their files, every store of a PID may fail, and no   *)
(* bound is put on the processes, the shells or the polls.                 *)
(*                                                                         *)
(*   OneDaemon       Spec => []AtMostOneDaemon                             *)
(*   StopFindsIt     Spec => []ReadyIsTarget                               *)
(*   PidFileClean    Spec => []NoStalePid                                  *)
(*   StopIsHonest    Spec => []StoppedMeansDone                            *)
(*                                                                         *)
(* the last for one stop at a time (OneObserver): the PID file is all that *)
(* a stop polls, and a second stop may remove it while the daemon lives.   *)
(* The hypotheses are needed: the runs two_shells and stop_lies show what  *)
(* the commands do for a second script, and for a user who does not wait.  *)
(***************************************************************************)
EXTENDS LifecycleProofs

\* One shell at most runs daemons, in the foreground; the others only observe.
ForegroundRunner(roles) ==
  /\ \A s \in Sessions : roles[s] \notin {"script", "free"}
  /\ \A s, t \in Sessions : roles[s] = "foreground" /\ roles[t] = "foreground" => s = t

OneRunner == \A roles \in Roles : SoleRunner(roles) \/ ForegroundRunner(roles)

\* One other shell at most calls stop.
OneObserverIn(roles) ==
  \A s, t \in Sessions : roles[s] = "observe" /\ roles[t] = "observe" => s = t

OneObserver == \A roles \in Roles : OneObserverIn(roles)

----------------------------------------------------------------------------
(* The invariant of foreground runs.                                       *)

\* A process that lives is in the hand of a shell that runs it in the foreground.
InFront ==
  \A q \in Pids : Alive(q) =>
    \E f \in Sessions :
      role[f] = "foreground" /\ session[f].at = "foreground" /\ session[f].pid = q

\* Nobody but the process itself stores its PID, and it removes what it has stored.
StoredByItself == \A q \in Pids : pidFile = q => daemon[q] \in Owning \cup {"crashed"}

StopPlaces  == {"signal", "poll", "clean", "clean killed", "stopped", "killed"}
FrontPlaces == {"start", "parent open", "parent write", "foreground"}

\* Where a shell can be in its role; and a stop has in hand a process that has stored
\* its PID, and that is dead if the stop has killed it.
Keeping(s) ==
  LET p == session[s].pid
      at == session[s].at IN
  /\ role[s] = "none" => at = "idle"
  /\ role[s] = "foreground" => at \in {"idle", "foreground"}
  /\ role[s] = "observe" => at \notin FrontPlaces
  /\ at \in StopPlaces => p \in Pids /\ daemon[p] \in Owning \cup Ending
  /\ at \in {"clean killed", "killed"} => ~Alive(p)

\* As long as the process of a stop lives its PID is in the file, and the stop goes on
\* when it does not live any more.
Watching(s) ==
  LET p == session[s].pid
      at == session[s].at IN
  /\ at \in {"signal", "poll"} /\ Lives(p) => pidFile = p
  /\ at \in StopPlaces \ {"signal", "poll"} => ~Lives(p)

FrontInv ==
  /\ LifeInv
  /\ InFront
  /\ StoredByItself
  /\ \A s \in Sessions : Keeping(s)
  /\ OneObserverIn(role) => \A s \in Sessions : Watching(s)

\* The roles there are.
LEMMA RoleType ==
  ASSUME TypeOK, NEW s \in Sessions
  PROVE  role[s] \in {"script", "free", "foreground", "observe", "none"}
<1>1. role \in Roles
  BY DEF TypeOK
<1>2. role \in [Sessions -> {"script", "free", "foreground", "observe", "none"}]
  BY <1>1, LifecycleAssumption
<1> QED  BY <1>2

\* The one process that lives.
LEMMA TheFront ==
  ASSUME ForegroundRunner(role), InFront, NEW p \in Pids, Alive(p), NEW q \in Pids, Alive(q)
  PROVE  p = q
BY DEF ForegroundRunner, InFront

----------------------------------------------------------------------------
(* The processes.                                                          *)

\* Every step of a process keeps FrontInv.
LEMMA DaemonFront ==
  ASSUME TypeOK, ForegroundRunner(role), FrontInv, NEW p \in Pids, Daemon(p) \/ Crash(p)
  PROVE  FrontInv'
<1>a. /\ LifeInv /\ InFront /\ StoredByItself
      /\ \A s \in Sessions : Keeping(s)
      /\ OneObserverIn(role) => \A s \in Sessions : Watching(s)
  BY DEF FrontInv
<1>b. session' = session /\ role' = role
  BY DaemonStep
<1>c. \A q \in Pids \ {p} : daemon'[q] = daemon[q]
  BY DaemonStep
<1>d. Alive(p) /\ daemon'[p] # "unborn"
  BY DaemonStep
<1>e. NoPid \notin Pids /\ Empty \notin Pids
  BY LifecycleAssumption
<1>f. daemon[p] = "gone" => daemon'[p] \in {"exited", "crashed"}
  BY DaemonStep
<1>g. daemon[p] \in Owning =>
        /\ daemon'[p] \in Owning \cup {"gone", "crashed"}
        /\ pidFile' = IF daemon'[p] = "gone" THEN NoPid ELSE pidFile
  BY DaemonStep
<1>h. \A q \in Pids : pidFile' = q => pidFile = q \/ (q = p /\ daemon'[p] = "init")
  BY <1>e, DaemonStep
<1>1. LifeInv'
  BY <1>a, DaemonLife
<1>2. InFront'
  <2>1. \A q \in Pids : Alive(q)' => Alive(q)
    BY <1>c, <1>d DEF Alive
  <2> QED  BY <1>a, <1>b, <2>1 DEF InFront
<1>3. StoredByItself'
  <2> SUFFICES ASSUME NEW q \in Pids, pidFile' = q
               PROVE  daemon'[q] \in Owning \cup {"crashed"}
    BY DEF StoredByItself
  <2>1. CASE q = p /\ daemon'[p] = "init"
    BY <2>1 DEF Owning
  <2>2. CASE pidFile = q
    <3>1. daemon[q] \in Owning \cup {"crashed"}
      BY <1>a, <2>2 DEF StoredByItself
    <3>2. CASE q # p
      BY <1>c, <3>1, <3>2
    <3>3. CASE q = p
      <4>1. daemon[p] \in Owning
        BY <1>d, <3>1, <3>3 DEF Alive
      <4> QED  BY <1>e, <1>g, <4>1, <3>3
    <3> QED  BY <3>2, <3>3
  <2> QED  BY <1>h, <2>1, <2>2
<1>4. ASSUME NEW s \in Sessions PROVE Keeping(s)'
  <2>1. Keeping(s)
    BY <1>a
  <2>2. \A q \in Pids : daemon[q] \in Owning \cup Ending => daemon'[q] \in Owning \cup Ending
    <3>1. daemon[p] \in Owning \cup Ending => daemon[p] \in Owning \cup {"gone"}
      BY <1>d DEF Alive, Ending, Owning
    <3> QED  BY <1>c, <1>f, <1>g, <3>1 DEF Ending
  <2>3. \A q : Alive(q)' => Alive(q)
    BY <1>c, <1>d DEF Alive
  <2> QED  BY <1>b, <2>1, <2>2, <2>3 DEF Keeping
<1>5. ASSUME OneObserverIn(role)', NEW s \in Sessions PROVE Watching(s)'
  <2> DEFINE h == session[s].pid
  <2>1. Watching(s) /\ Keeping(s)
    BY <1>a, <1>b, <1>5 DEF OneObserverIn
  <2>2. ASSUME Lives(h)' PROVE Lives(h)
    BY <1>b, <1>c, <1>d, <1>f, <2>2 DEF Lives, Alive
  <2>3. ASSUME session[s].at \in {"signal", "poll"}, Lives(h)' PROVE pidFile' = h
    <3>1. Lives(h) /\ h \in Pids /\ Alive(h)
      BY <2>2, <2>3 DEF Lives, Alive
    <3>2. h = p
      <4>1. \A q \in Pids : Alive(q) => q = p
        BY <1>a, <1>d, TheFront
      <4> QED  BY <3>1, <4>1
    <3>3. daemon[p] \in Owning
      BY <2>1, <2>3, <3>1, <3>2 DEF Keeping, StopPlaces, Lives, Alive, Owning, Ending
    <3>4. daemon'[p] # "gone"
      BY <1>b, <2>3, <3>2 DEF Lives
    <3>5. pidFile = h
      BY <2>1, <2>3, <3>1 DEF Watching
    <3> QED  BY <1>g, <3>3, <3>4, <3>5
  <2> QED  BY <1>b, <2>1, <2>2, <2>3 DEF Watching
<1> QED  BY <1>1, <1>2, <1>3, <1>4, <1>5 DEF FrontInv

----------------------------------------------------------------------------
(* The shells.                                                             *)

\* A command that at most ends processes: no process is started, and the PID file is
\* left alone or removed.
Ends(p) ==
  \/ daemon'[p] = daemon[p]
  \/ daemon'[p] = "crashed" /\ daemon[p] # "unborn"

\* What is kept of the processes by a command that at most ends some.
LEMMA EndsFront ==
  ASSUME TypeOK, StoredByItself, \A q \in Pids : Ends(q), pidFile' \in {pidFile, NoPid}
  PROVE  /\ StoredByItself'
         /\ \A q : Alive(q)' => Alive(q)
         /\ \A q : Lives(q)' => Lives(q)
         /\ \A q \in Pids :
              daemon[q] \in Owning \cup Ending => daemon'[q] \in Owning \cup Ending
BY LifecycleAssumption DEF StoredByItself, Ends, Alive, Lives, Ending

\* SIGTERM: a process that lives takes note of it or dies.
LEMMA Terminated ==
  ASSUME TypeOK, LifeInv, StoredByItself, NEW p \in Pids, Alive(p), Terminate(p),
         pidFile' = pidFile
  PROVE  LifeInv' /\ \A q \in Pids : Ends(q)
<1>a. LifeOf(p) /\ (pidFile = p => daemon[p] \notin {"gone", "exited"})
  BY DEF LifeInv, StoredByItself, Owning
<1>1. CASE Kill(p) /\ UNCHANGED signalled
  <2>1. /\ daemon'[p] = "crashed"
        /\ outcome'[p] = IF outcome[p] = "none" THEN "killed" ELSE outcome[p]
        /\ \A q \in Pids \ {p} : daemon'[q] = daemon[q] /\ outcome'[q] = outcome[q]
    BY <1>1, Killed DEF Alive
  <2>2. LifeOf(p)'
    BY <1>a, <1>1, <2>1 DEF LifeOf, Stopping, Ending
  <2>3. ASSUME NEW q \in Pids \ {p} PROVE LifeOf(q)'
    BY <1>1, <2>1, OthersLife DEF LifeInv
  <2> QED  BY <2>1, <2>2, <2>3 DEF LifeInv, Ends, Alive
<1>2. CASE signalled' = signalled \cup {p} /\ UNCHANGED <<daemon, outcome>>
  <2>1. LifeOf(p)'
    BY <1>a, <1>2 DEF LifeOf, Alive
  <2>2. ASSUME NEW q \in Pids \ {p} PROVE LifeOf(q)'
    BY <1>2, OthersLife DEF LifeInv
  <2> QED  BY <1>2, <2>1, <2>2 DEF LifeInv, Ends
<1> QED  BY <1>1, <1>2 DEF Terminate

\* The commands of the shell that runs daemons in the foreground.
FrontCommand(f) == RunForeground(f) \/ ForegroundEnds(f) \/ Interrupt(f)

LEMMA OnlyFront ==
  ASSUME NEW f \in Sessions, role[f] = "foreground", Keeping(f), Command(f) \/ Interrupt(f)
  PROVE  FrontCommand(f)
<1>1. \A command : ~Gives(f, command)
  BY DEF Gives
<1> QED  BY <1>1
         DEF FrontCommand, Keeping, Command, RunDetach, Start, ParentOpen, ParentWrite,
             WaitCheck, WaitReady, WaitTimeout, StopRead, StopSignal, StopPoll, StopKill,
             StopClean, Go

\* Every step of that shell keeps FrontInv.
LEMMA FrontShell ==
  ASSUME TypeOK, ForegroundRunner(role), FrontInv,
         NEW f \in Sessions, role[f] = "foreground", FrontCommand(f)
  PROVE  FrontInv'
<1> DEFINE h == session[f].pid
<1>a. /\ LifeInv /\ InFront /\ StoredByItself
      /\ \A s \in Sessions : Keeping(s)
      /\ OneObserverIn(role) => \A s \in Sessions : Watching(s)
  BY DEF FrontInv
<1>b. role' = role /\ pidFile' = pidFile
  BY DEF FrontCommand, RunForeground, ForegroundEnds, Interrupt, daemonVars
<1>c. \A s \in Sessions : role[s] = "foreground" => s = f
  BY DEF ForegroundRunner
\* What is left to show of a step that leaves the other shells where they are.
<1>d. ASSUME LifeInv', InFront', StoredByItself',
             \A s \in Sessions \ {f} : session'[s] = session[s],
             session'[f].at \in {"idle", "foreground"},
             \A q \in Pids : daemon[q] \in Owning \cup Ending =>
               /\ daemon'[q] \in Owning \cup Ending
               /\ Lives(q)' => Lives(q)
               /\ Alive(q)' => Alive(q)
      PROVE  FrontInv'
  <2>1. ASSUME NEW s \in Sessions PROVE Keeping(s)'
    <3>1. CASE s = f
      BY <1>b, <1>d, <3>1 DEF Keeping, StopPlaces
    <3>2. CASE s # f
      <4>1. Keeping(s) /\ session'[s] = session[s]
        BY <1>a, <1>d, <3>2
      <4> QED  BY <1>b, <1>d, <4>1 DEF Keeping, StopPlaces
    <3> QED  BY <3>1, <3>2
  <2>2. ASSUME OneObserverIn(role)', NEW s \in Sessions PROVE Watching(s)'
    <3>1. CASE s = f
      BY <1>d, <3>1 DEF Watching, StopPlaces
    <3>2. CASE s # f
      <4>1. Watching(s) /\ Keeping(s) /\ session'[s] = session[s]
        BY <1>a, <1>b, <1>d, <2>2, <3>2 DEF OneObserverIn
      <4>2. session[s].at \in StopPlaces /\ Lives(session[s].pid)' => Lives(session[s].pid)
        BY <1>d, <4>1 DEF Keeping
      <4> QED  BY <1>b, <4>1, <4>2 DEF Watching, StopPlaces
    <3> QED  BY <3>1, <3>2
  <2> QED  BY <1>d, <2>1, <2>2 DEF FrontInv
<1>1. CASE RunForeground(f)
  <2>1. PICK p \in Pids :
          /\ daemon[p] = "unborn" /\ daemon'[p] = "boot"
          /\ outcome[p] = "none" /\ p \notin signalled /\ pidFile # p
          /\ \A q \in Pids \ {p} : daemon'[q] = daemon[q]
          /\ session'[f].at = "foreground" /\ session'[f].pid = p
          /\ \A s \in Sessions \ {f} : session'[s] = session[s]
    BY <1>1, <1>a, Spawned DEF RunForeground
  <2>2. UNCHANGED <<outcome, signalled>> /\ session[f].at = "idle"
    BY <1>1 DEF RunForeground
  <2>3. LifeInv'
    <3>1. LifeOf(p)'
      BY <1>b, <2>1, <2>2 DEF LifeOf, Stopping, Ending
    <3>2. ASSUME NEW q \in Pids \ {p} PROVE LifeOf(q)'
      BY <1>a, <1>b, <2>1, <2>2, OthersLife DEF LifeInv
    <3> QED  BY <3>1, <3>2 DEF LifeInv
  <2>4. InFront'
    <3> SUFFICES ASSUME NEW q \in Pids, Alive(q)' PROVE q = p
      BY <1>b, <2>1 DEF InFront
    <3>1. ~Alive(q)
      BY <1>a, <1>c, <2>2 DEF InFront
    <3> QED  BY <2>1, <3>1 DEF Alive
  <2>5. StoredByItself'
    BY <1>a, <1>b, <2>1 DEF StoredByItself
  <2>6. \A q \in Pids : daemon[q] \in Owning \cup Ending => daemon'[q] = daemon[q]
    BY <2>1 DEF Owning, Ending
  <2> QED  BY <1>d, <2>1, <2>3, <2>4, <2>5, <2>6 DEF Lives, Alive
<1>2. CASE ForegroundEnds(f)
  <2>1. UNCHANGED <<daemon, outcome, signalled>> /\ ~Alive(h)
    BY <1>2 DEF ForegroundEnds, daemonVars
  <2>2. session'[f].at = "idle" /\ \A s \in Sessions \ {f} : session'[s] = session[s]
    BY <1>2, Went DEF ForegroundEnds
  <2>3. LifeInv'
    BY <1>a, <1>b, <2>1 DEF LifeInv, LifeOf
  <2>4. InFront'
    <3>1. \A q \in Pids : ~Alive(q)
      BY <1>a, <1>c, <2>1 DEF InFront
    <3> QED  BY <2>1, <3>1 DEF InFront, Alive
  <2>5. StoredByItself'
    BY <1>a, <1>b, <2>1 DEF StoredByItself
  <2> QED  BY <1>d, <2>1, <2>2, <2>3, <2>4, <2>5 DEF Lives, Alive
<1>3. CASE Interrupt(f)
  <2>1. /\ session' = session /\ session[f].at = "foreground"
        /\ h \in Pids /\ Alive(h) /\ Terminate(h)
    BY <1>3 DEF Interrupt, Alive
  <2>2. LifeInv' /\ \A q \in Pids : Ends(q)
    BY <1>a, <1>b, <2>1, Terminated
  <2>3. /\ StoredByItself'
        /\ \A q \in Pids : Alive(q)' => Alive(q)
        /\ \A q \in Pids : Lives(q)' => Lives(q)
        /\ \A q \in Pids :
             daemon[q] \in Owning \cup Ending => daemon'[q] \in Owning \cup Ending
    BY <1>a, <1>b, <2>2, EndsFront
  <2>4. InFront'
    BY <1>a, <1>b, <2>1, <2>3 DEF InFront
  <2> QED  BY <1>d, <2>1, <2>2, <2>3, <2>4
<1> QED  BY <1>1, <1>2, <1>3 DEF FrontCommand

\* The commands of a shell that waits and stops.
ObserverCommand(o) ==
  \/ WaitCheck(o) \/ WaitReady(o) \/ WaitTimeout(o)
  \/ StopRead(o) \/ StopSignal(o) \/ StopPoll(o) \/ StopKill(o) \/ StopClean(o)

LEMMA OnlyObserve ==
  ASSUME NEW o \in Sessions, role[o] = "observe", Keeping(o), Command(o) \/ Interrupt(o)
  PROVE  ObserverCommand(o)
<1>1. ~Gives(o, "run")
  BY DEF Gives
<1> QED  BY <1>1
         DEF ObserverCommand, Keeping, FrontPlaces, Command, Interrupt, RunDetach, Start,
             ParentOpen, ParentWrite, RunForeground, ForegroundEnds, Go

\* Where the shell that takes a step goes, of two sorts: one that touches no process and
\* leaves the PID file alone, or one that ends a process at most.
LEMMA ObserverStep ==
  ASSUME TypeOK, FrontInv, NEW o \in Sessions, role[o] = "observe", ObserverCommand(o)
  PROVE  /\ role' = role
         /\ \A s \in Sessions \ {o} : session'[s] = session[s]
         /\ LifeInv'
         /\ \A q \in Pids : Ends(q)
         /\ pidFile' \in {pidFile, NoPid}
         /\ pidFile' = pidFile \/ session[o].at \in {"clean", "clean killed"}
         /\ Keeping(o)'
         /\ Watching(o) => Watching(o)'
<1> DEFINE h  == session[o].pid
           at == session[o].at
<1>a. LifeInv /\ InFront /\ StoredByItself /\ Keeping(o)
  BY DEF FrontInv
<1>b. role' = role
  BY DEF ObserverCommand, WaitCheck, WaitReady, WaitTimeout, StopRead, StopSignal, StopPoll,
         StopKill, StopClean, daemonVars
<1>c. /\ at \notin FrontPlaces
      /\ at \in StopPlaces => h \in Pids /\ daemon[h] \in Owning \cup Ending
      /\ at \in {"clean killed", "killed"} => ~Alive(h)
  BY <1>a DEF Keeping
\* A command that touches no process, and where it goes.
<1>d. ASSUME UNCHANGED <<daemon, outcome, signalled>>, pidFile' = pidFile
      PROVE  LifeInv' /\ \A q \in Pids : Ends(q)
  BY <1>a, <1>d DEF LifeInv, LifeOf, Ends
<1>e. ASSUME at' \notin FrontPlaces \cup StopPlaces
      PROVE  Keeping(o)' /\ Watching(o)'
  BY <1>b, <1>e DEF Keeping, Watching, StopPlaces
<1>1. CASE WaitCheck(o) \/ WaitReady(o) \/ WaitTimeout(o)
  <2>1. UNCHANGED <<daemon, outcome, signalled>> /\ pidFile' = pidFile
    BY <1>1 DEF WaitCheck, WaitReady, WaitTimeout, daemonVars
  <2>2. /\ at' \in {"waiting", "not running", "ready", "failed"}
        /\ \A s \in Sessions \ {o} : session'[s] = session[s]
    BY <1>1, Went DEF WaitCheck, WaitReady, WaitTimeout
  <2>3. Keeping(o)' /\ Watching(o)'
    BY <1>e, <2>2 DEF FrontPlaces, StopPlaces
  <2> QED  BY <1>b, <1>d, <2>1, <2>2, <2>3
<1>2. CASE StopRead(o)
  <2>1. UNCHANGED <<daemon, outcome, signalled>> /\ pidFile' = pidFile
    BY <1>2 DEF StopRead, daemonVars
  <2>2. CASE pidFile \in Pids
    <3>1. /\ at' = "signal" /\ h' = pidFile
          /\ \A s \in Sessions \ {o} : session'[s] = session[s]
      BY <1>2, <2>2, WentWith DEF StopRead
    <3>2. daemon[pidFile] \in Owning \cup Ending
      BY <1>a, <2>2 DEF StoredByItself, Ending
    <3>3. Keeping(o)'
      BY <1>b, <2>1, <2>2, <3>1, <3>2 DEF Keeping, FrontPlaces
    <3>4. Watching(o)'
      BY <2>1, <3>1 DEF Watching, StopPlaces
    <3> QED  BY <1>b, <1>d, <2>1, <3>1, <3>3, <3>4
  <2>3. CASE pidFile \notin Pids
    <3>1. at' = "failed" /\ \A s \in Sessions \ {o} : session'[s] = session[s]
      BY <1>2, <2>3, Went DEF StopRead
    <3>2. Keeping(o)' /\ Watching(o)'
      BY <1>e, <3>1 DEF FrontPlaces, StopPlaces
    <3> QED  BY <1>b, <1>d, <2>1, <3>1, <3>2
  <2> QED  BY <2>2, <2>3
<1>3. CASE StopSignal(o)
  <2>1. pidFile' = pidFile /\ at = "signal"
    BY <1>3 DEF StopSignal, Go
  <2>2. h \in Pids /\ daemon[h] \in Owning \cup Ending
    BY <1>c, <2>1 DEF StopPlaces
  <2>3. CASE Alive(h)
    <3>1. Terminate(h)
      BY <1>3, <2>3 DEF StopSignal
    <3>2. /\ at' = "poll" /\ h' = h
          /\ \A s \in Sessions \ {o} : session'[s] = session[s]
      BY <1>3, <2>3, Went DEF StopSignal
    <3>3. LifeInv' /\ \A q \in Pids : Ends(q)
      BY <1>a, <2>1, <2>2, <2>3, <3>1, Terminated
    <3>4. daemon'[h] \in Owning \cup Ending
      BY <2>2, <3>3 DEF Ends, Ending
    <3>5. Keeping(o)'
      BY <1>b, <2>2, <3>2, <3>4 DEF Keeping, FrontPlaces
    <3>6. Lives(h)' => Lives(h)
      BY <2>2, <3>2, <3>3 DEF Ends, Lives, Alive
    <3>7. Watching(o) => Watching(o)'
      BY <2>1, <3>2, <3>6 DEF Watching, StopPlaces
    <3> QED  BY <1>b, <2>1, <3>2, <3>3, <3>5, <3>7
  <2>4. CASE ~Alive(h)
    <3>1. UNCHANGED <<daemon, outcome, signalled>>
      BY <1>3, <2>4 DEF StopSignal
    <3>2. at' = "failed" /\ \A s \in Sessions \ {o} : session'[s] = session[s]
      BY <1>3, <2>4, Went DEF StopSignal
    <3>3. Keeping(o)' /\ Watching(o)'
      BY <1>e, <3>2 DEF FrontPlaces, StopPlaces
    <3> QED  BY <1>b, <1>d, <2>1, <3>1, <3>2, <3>3
  <2> QED  BY <2>3, <2>4
<1>4. CASE StopPoll(o)
  <2>1. UNCHANGED <<daemon, outcome, signalled>> /\ pidFile' = pidFile /\ at = "poll"
    BY <1>4 DEF StopPoll, Go, daemonVars
  <2>2. h \in Pids /\ daemon[h] \in Owning \cup Ending
    BY <1>c, <2>1 DEF StopPlaces
  <2>3. CASE IsDaemonRunning
    <3>1. at' = at /\ h' = h /\ \A s \in Sessions \ {o} : session'[s] = session[s]
      BY <1>4, <2>3 DEF StopPoll, TypeOK
    <3>2. Keeping(o)' /\ (Watching(o) => Watching(o)')
      BY <1>a, <1>b, <2>1, <3>1 DEF Keeping, Watching, Lives, Alive
    <3> QED  BY <1>b, <1>d, <2>1, <3>1, <3>2
  <2>4. CASE ~IsDaemonRunning
    <3>1. at' = "clean" /\ h' = h /\ \A s \in Sessions \ {o} : session'[s] = session[s]
      BY <1>4, <2>4, Went DEF StopPoll
    <3>2. Keeping(o)'
      BY <1>b, <2>1, <2>2, <3>1 DEF Keeping, FrontPlaces
    <3>3. Watching(o) => Watching(o)'
      BY <2>1, <2>4, <3>1 DEF Watching, IsDaemonRunning, Lives, Alive
    <3> QED  BY <1>b, <1>d, <2>1, <3>1, <3>2, <3>3
  <2> QED  BY <2>3, <2>4
<1>5. CASE StopKill(o)
  <2>1. /\ pidFile' = pidFile /\ signalled' = signalled /\ Kill(h)
        /\ at = "poll" /\ at' = "clean killed" /\ h' = h
        /\ \A s \in Sessions \ {o} : session'[s] = session[s]
    BY <1>5, Went DEF StopKill
  <2>2. h \in Pids /\ daemon[h] \in Owning \cup Ending
    BY <1>c, <2>1 DEF StopPlaces
  <2>3. /\ daemon'[h] = IF daemon[h] = "exited" THEN "exited" ELSE "crashed"
        /\ outcome'[h] = IF outcome[h] = "none" THEN "killed" ELSE outcome[h]
        /\ \A q \in Pids \ {h} : daemon'[q] = daemon[q] /\ outcome'[q] = outcome[q]
    BY <2>1, <2>2, Killed
  <2>4. \A q \in Pids : Ends(q)
    BY <2>2, <2>3 DEF Ends, Owning, Ending
  <2>5. LifeInv'
    <3>1. PICK p \in Pids : p = h
      BY <2>2
    <3>2. LifeOf(p)'
      BY <1>a, <2>1, <2>2, <2>3, <3>1 DEF LifeInv, LifeOf, Stopping, Ending
    <3>3. ASSUME NEW q \in Pids \ {p} PROVE LifeOf(q)'
      BY <1>a, <2>1, <2>3, <3>1, OthersLife DEF LifeInv
    <3> QED  BY <3>2, <3>3 DEF LifeInv
  <2>6. Keeping(o)' /\ Watching(o)'
    BY <1>b, <2>1, <2>2, <2>3 DEF Keeping, Watching, FrontPlaces, Ending, Lives, Alive
  <2> QED  BY <1>b, <2>1, <2>4, <2>5, <2>6
<1>6. CASE StopClean(o)
  <2>1. UNCHANGED <<daemon, outcome, signalled>> /\ pidFile' = NoPid
    BY <1>6 DEF StopClean, Remove, daemonVars
  <2>2. /\ \/ at = "clean" /\ at' = "stopped"
           \/ at = "clean killed" /\ at' = "killed"
        /\ h' = h
        /\ \A s \in Sessions \ {o} : session'[s] = session[s]
    BY <1>6, Went DEF StopClean
  <2>3. LifeInv' /\ \A q \in Pids : Ends(q)
    BY <1>a, <2>1, LifecycleAssumption DEF LifeInv, LifeOf, Ends
  <2>4. Keeping(o)'
    BY <1>b, <1>c, <2>1, <2>2 DEF Keeping, FrontPlaces, StopPlaces, Alive
  <2>5. Watching(o) => Watching(o)'
    BY <2>1, <2>2 DEF Watching, StopPlaces, Lives, Alive
  <2> QED  BY <1>b, <2>1, <2>2, <2>3, <2>4, <2>5
<1> QED  BY <1>1, <1>2, <1>3, <1>4, <1>5, <1>6 DEF ObserverCommand

\* Every step of an observer keeps FrontInv.
LEMMA ObserverFront ==
  ASSUME TypeOK, ForegroundRunner(role), FrontInv,
         NEW o \in Sessions, role[o] = "observe", ObserverCommand(o)
  PROVE  FrontInv'
<1>a. /\ InFront /\ StoredByItself
      /\ \A s \in Sessions : Keeping(s)
      /\ OneObserverIn(role) => \A s \in Sessions : Watching(s)
  BY DEF FrontInv
<1>b. role' = role /\ \A s \in Sessions \ {o} : session'[s] = session[s]
  BY ObserverStep
<1>c. /\ StoredByItself'
      /\ \A q : Alive(q)' => Alive(q)
      /\ \A q \in Pids :
           daemon[q] \in Owning \cup Ending => daemon'[q] \in Owning \cup Ending
  BY <1>a, ObserverStep, EndsFront
<1>1. LifeInv'
  BY ObserverStep
<1>2. InFront'
  <2> SUFFICES ASSUME NEW q \in Pids, Alive(q)'
               PROVE  \E f \in Sessions : role'[f] = "foreground"
                        /\ session'[f].at = "foreground" /\ session'[f].pid = q
    BY DEF InFront
  <2>1. PICK f \in Sessions :
          role[f] = "foreground" /\ session[f].at = "foreground" /\ session[f].pid = q
    BY <1>a, <1>c DEF InFront
  <2>2. f # o
    BY <2>1
  <2> QED  BY <1>b, <2>1, <2>2
<1>3. ASSUME NEW s \in Sessions PROVE Keeping(s)'
  <2>1. CASE s = o
    BY <2>1, ObserverStep
  <2>2. CASE s # o
    <3>1. Keeping(s) /\ session'[s] = session[s]
      BY <1>a, <1>b, <2>2
    <3> QED  BY <1>b, <1>c, <3>1 DEF Keeping
  <2> QED  BY <2>1, <2>2
<1>4. ASSUME OneObserverIn(role)', NEW s \in Sessions PROVE Watching(s)'
  <2>1. OneObserverIn(role)
    BY <1>b, <1>4 DEF OneObserverIn
  <2>2. CASE s = o
    BY <1>a, <2>1, <2>2, ObserverStep
  <2>3. CASE s # o
    <3>1. role[s] \notin {"observe", "script", "free"}
      BY <2>1, <2>3 DEF OneObserverIn, ForegroundRunner
    <3>2. Keeping(s) /\ session'[s] = session[s]
      BY <1>a, <1>b, <2>3
    <3>3. role[s] \in {"script", "free", "foreground", "observe", "none"}
      BY RoleType
    <3>4. role[s] = "foreground" \/ role[s] = "none"
      BY <3>1, <3>3
    <3>5. session[s].at \in {"idle", "foreground"}
      BY <3>2, <3>4 DEF Keeping
    <3> QED  BY <3>2, <3>5 DEF Watching, StopPlaces
  <2> QED  BY <2>2, <2>3
<1> QED  BY <1>c, <1>1, <1>2, <1>3, <1>4 DEF FrontInv

\* At first no process lives and every shell is at its prompt.
LEMMA InitFront == Init => FrontInv
<1> SUFFICES ASSUME Init PROVE FrontInv
  OBVIOUS
<1>1. \A q \in Pids : ~Alive(q) /\ (pidFile = q => daemon[q] = "crashed")
  BY LifecycleAssumption DEF Init, Alive
<1>2. LifeInv
  BY InitWork DEF WorkInv
<1>3. \A s \in Sessions : session[s].at = "idle"
  BY DEF Init
<1>4. InFront /\ StoredByItself
  BY <1>1 DEF InFront, StoredByItself
<1>5. \A s \in Sessions : Keeping(s) /\ Watching(s)
  BY <1>3 DEF Keeping, Watching, FrontPlaces, StopPlaces
<1> QED  BY <1>2, <1>4, <1>5 DEF FrontInv

\* Every step keeps FrontInv.
LEMMA NextFront ==
  ASSUME ForegroundRunner(role), TypeOK, FrontInv, [Next]_vars
  PROVE  FrontInv'
<1>1. CASE UNCHANGED vars
  <2>1. UNCHANGED <<role, session, daemon, pidFile, outcome, signalled>>
    BY <1>1 DEF vars
  <2>2. LifeInv' /\ InFront' /\ StoredByItself'
    BY <2>1 DEF FrontInv, LifeInv, LifeOf, InFront, StoredByItself, Alive
  <2>3. \A s \in Sessions : Keeping(s)'
    BY <2>1 DEF FrontInv, Keeping, Alive
  <2>4. OneObserverIn(role)' => \A s \in Sessions : Watching(s)'
    BY <2>1 DEF FrontInv, Watching, Lives, Alive, OneObserverIn
  <2> QED  BY <2>2, <2>3, <2>4 DEF FrontInv
<1>2. ASSUME NEW p \in Pids, Daemon(p) \/ Crash(p)
      PROVE  FrontInv'
  BY <1>2, DaemonFront
<1>3. ASSUME NEW s \in Sessions, Command(s) \/ Interrupt(s)
      PROVE  FrontInv'
  <2>1. Keeping(s)
    BY DEF FrontInv
  <2>2. role[s] \in {"script", "free", "foreground", "observe", "none"}
    BY RoleType
  <2>3. CASE role[s] \in {"script", "free"}
    BY <2>3 DEF ForegroundRunner
  <2>4. CASE role[s] = "none"
    BY <1>3, <2>1, <2>4, NothingToDo DEF Keeping
  <2>5. CASE role[s] = "foreground"
    BY <1>3, <2>1, <2>5, OnlyFront, FrontShell
  <2>6. CASE role[s] = "observe"
    BY <1>3, <2>1, <2>6, OnlyObserve, ObserverFront
  <2> QED  BY <2>2, <2>3, <2>4, <2>5, <2>6
<1> QED  BY <1>1, <1>2, <1>3 DEF Next

----------------------------------------------------------------------------
(* Both.                                                                   *)

\* The one who runs daemons, and what holds then.
RunnerInv ==
  \/ SoleRunner(role) /\ WorkInv
  \/ ForegroundRunner(role) /\ FrontInv

\* No step changes a role.
LEMMA RolesKept == ASSUME TypeOK, [Next]_vars PROVE role' = role
<1>1. ASSUME NEW p \in Pids, Daemon(p) \/ Crash(p) PROVE role' = role
  BY <1>1, DaemonStep
<1>2. ASSUME NEW s \in Sessions, Command(s) \/ Interrupt(s) PROVE role' = role
  BY <1>2
     DEF Command, Interrupt, RunDetach, Start, ParentOpen, ParentWrite, RunForeground,
         ForegroundEnds, WaitCheck, WaitReady, WaitTimeout, StopRead, StopSignal, StopPoll,
         StopKill, StopClean, daemonVars
<1> QED  BY <1>1, <1>2 DEF Next, vars

\* What is known of the shells and of the processes holds throughout.
LEMMA RunnerInvariant ==
  ASSUME OneRunner
  PROVE  Spec => [](TypeOK /\ RunnerInv)
<1>1. Init => TypeOK /\ RunnerInv
  <2>1. Init => SoleRunner(role) \/ ForegroundRunner(role)
    BY DEF Init, OneRunner
  <2>2. Init => TypeOK
    BY LifecycleAssumption DEF Init, TypeOK, Prompts
  <2> QED  BY <2>1, <2>2, InitWork, InitFront DEF RunnerInv
<1>2. TypeOK /\ RunnerInv /\ [Next]_vars => (TypeOK /\ RunnerInv)'
  <2> SUFFICES ASSUME TypeOK, RunnerInv, [Next]_vars
               PROVE  TypeOK' /\ RunnerInv'
    OBVIOUS
  <2>1. role' = role
    BY RolesKept
  <2>2. CASE SoleRunner(role) /\ WorkInv
    <3>1. WorkInv'
      BY <2>2, NextWork
    <3>2. SoleRunner(role)'
      BY <2>1, <2>2 DEF SoleRunner
    <3> QED  BY <3>1, <3>2, NextTypes DEF RunnerInv
  <2>3. CASE ForegroundRunner(role) /\ FrontInv
    <3>1. FrontInv'
      BY <2>3, NextFront
    <3>2. ForegroundRunner(role)'
      BY <2>1, <2>3 DEF ForegroundRunner
    <3> QED  BY <3>1, <3>2, NextTypes DEF RunnerInv
  <2> QED  BY <2>2, <2>3 DEF RunnerInv
<1> QED  BY <1>1, <1>2, PTL DEF Spec

\* If one shell at most starts daemons, by the script or in the foreground, there are
\* never two of them that use the PID file and the socket, whatever earlier runs have
\* left there and whoever fails to store a PID: the script's stop, which ends with the
\* process it has read from the PID file dead or gone, has read the PID of the daemon
\* that lives; and a shell whose daemon is in the foreground has no prompt.
THEOREM OneDaemon ==
  ASSUME OneRunner
  PROVE  Spec => []AtMostOneDaemon
<1>1. TypeOK /\ RunnerInv => AtMostOneDaemon
  <2> SUFFICES ASSUME TypeOK, RunnerInv PROVE AtMostOneDaemon
    OBVIOUS
  <2> DEFINE living == {p \in Pids : Alive(p) /\ daemon[p] # "gone"}
  <2>1. ASSUME NEW p \in living, NEW q \in living PROVE p = q
    <3>1. CASE SoleRunner(role) /\ WorkInv
      <4>1. PICK s \in Sessions : OnlyInHand(s)
        BY <3>1 DEF SoleRunner, WorkInv, ShellInv
      <4> QED  BY <4>1 DEF OnlyInHand, Lives
    <3>2. CASE ForegroundRunner(role) /\ FrontInv
      BY <3>2, TheFront DEF FrontInv
    <3> QED  BY <3>1, <3>2 DEF RunnerInv
  <2>2. \E x : living \subseteq {x}
    BY <2>1
  <2>3. PICK x : living \subseteq {x}
    BY <2>2
  <2>4. IsFiniteSet({x}) /\ Cardinality({x}) = 1
    BY FS_Singleton
  <2>5. Cardinality(living) <= 1
    BY <2>3, <2>4, FS_Subset
  <2> QED  BY <2>5 DEF AtMostOneDaemon
<1> QED  BY <1>1, RunnerInvariant, PTL

\* When the script's wait reports readiness, the socket is that of the daemon its run
\* has started, if it is alive, and the PID file either holds that daemon's PID or,
\* where the daemon has truncated it and failed to write it, none: stop cannot miss
\* the daemon for another one.
THEOREM StopFindsIt ==
  ASSUME OneRunner
  PROVE  Spec => []ReadyIsTarget
<1>1. TypeOK /\ RunnerInv => ReadyIsTarget
  <2> SUFFICES ASSUME TypeOK, RunnerInv, NEW s \in Sessions, role[s] = "script",
                      session[s].at = "ready", Alive(session[s].pid)
               PROVE  socket = session[s].pid /\ pidFile \in {session[s].pid, Empty}
    BY DEF ReadyIsTarget
  <2>1. PidStored(s) /\ Phases(s)
    BY DEF RunnerInv, ForegroundRunner, WorkInv, ShellInv
  <2>2. socket = session[s].pid /\ daemon[session[s].pid] \in {"tracing", "crashed"}
    BY <2>1 DEF Phases
  <2>3. Lives(session[s].pid)
    BY <2>2 DEF Lives
  <2> QED  BY <2>1, <2>2, <2>3 DEF PidStored
<1> QED  BY <1>1, RunnerInvariant, PTL

\* No process that stop or ^C has signalled leaves its PID in the file when it exits in
\* order, although its parent and the process itself write the file.
THEOREM PidFileClean ==
  ASSUME OneRunner
  PROVE  Spec => []NoStalePid
<1>1. RunnerInv => NoStalePid
  BY DEF RunnerInv, WorkInv, FrontInv, LifeInv, LifeOf, NoStalePid
<1> QED  BY <1>1, RunnerInvariant, PTL

\* When stop says "force killed" the daemon it has signalled is dead, and when it says
\* "stopped" that daemon has ended by itself; if a script ran it and it wrote a report,
\* the report file holds it.  It takes a stop that has read a PID nobody stores again:
\* after a wait in the script, of the process itself in the foreground.
THEOREM StopIsHonest ==
  ASSUME OneRunner, OneObserver
  PROVE  Spec => []StoppedMeansDone
<1>1. TypeOK /\ RunnerInv => StoppedMeansDone
  <2> SUFFICES ASSUME TypeOK, RunnerInv, NEW s \in Sessions
               PROVE  LET p == session[s].pid IN
                      /\ session[s].at \in {"clean killed", "killed"} => ~Alive(p)
                      /\ session[s].at \in {"clean", "stopped"} =>
                           /\ outcome[p] # "none"
                           /\ daemon[p] \in {"gone", "exited", "crashed"}
                           /\ role[s] = "script" /\ outcome[p] = "reported" => reportFile = p
    BY DEF StoppedMeansDone
  <2> DEFINE p  == session[s].pid
             at == session[s].at
  <2>1. LifeInv
    BY DEF RunnerInv, WorkInv, FrontInv
  <2>2. /\ at \in {"clean killed", "killed"} => ~Alive(p)
        /\ at \in {"clean", "stopped"} =>
             /\ p \in Pids /\ ~Lives(p) /\ daemon[p] # "unborn"
             /\ role[s] = "script" /\ outcome[p] = "reported" => reportFile = p
    <3>1. CASE SoleRunner(role) /\ WorkInv
      <4>1. role[s] # "script" => at = "idle"
        BY <3>1 DEF SoleRunner, WorkInv, OthersIdle
      <4>2. role[s] = "script" => Phases(s)
        BY <3>1 DEF WorkInv, ShellInv
      <4> QED  BY <4>1, <4>2 DEF Phases
    <3>2. CASE ForegroundRunner(role) /\ FrontInv
      <4>1. role[s] # "script"
        BY <3>2 DEF ForegroundRunner
      <4>2. OneObserverIn(role)
        BY DEF OneObserver, TypeOK
      <4>3. Keeping(s) /\ Watching(s)
        BY <3>2, <4>2 DEF FrontInv
      <4> QED  BY <4>1, <4>3 DEF Keeping, Watching, StopPlaces, Owning, Ending
    <3> QED  BY <3>1, <3>2 DEF RunnerInv
  <2>3. at \in {"clean", "stopped"} => daemon[p] \in {"gone", "exited", "crashed"}
    BY <2>2 DEF Lives, Alive
  <2>4. at \in {"clean", "stopped"} => outcome[p] # "none"
    BY <2>1, <2>2, <2>3 DEF LifeInv, LifeOf, Ending
  <2> QED  BY <2>2, <2>3, <2>4
<1> QED  BY <1>1, RunnerInvariant, PTL
=============================================================================
