# A TLA+ model of xcover

xcover measures the functional coverage of a running program: it attaches an
eBPF uprobe to every function of an executable, and each function that is
entered sends one event to user space, where it ends up in a report. This
directory holds the TLA+ modules that model its state machines, the TLC
configurations that check them, and TLAPS proofs. Paths below are relative to
the repository's root.

## 1. Inventory

### Components

| Component | Source | State | Operations |
|---|---|---|---|
| Kernel program | `bpf/trace.bpf.c` | `seen_funcs` (hash, 40960 keys), `events` (ring buffer, 256 MB), one program run per thread | `handle_user_function`: lookup, update, reserve, submit |
| Event pipeline | `pkg/trace/tracer.go` | `ack`, two channels of 4096, two goroutines and the goroutine of `Run` | `Run`, `ingestEvents`, `processEvents`, `handleEvent`, `writeReport` |
| Tracee and attachment | `pkg/trace/tracee.go`, `attachProbe` | the filters, map `funcs` (cookie to name and offset), the slices of offsets and cookies | `getFuncSyms`, `ShouldIncludeSymbol`, `loadFunctions`, `GetFuncOffsets`, `GetFuncCookies`, `attachProbe` |
| Probe | `pkg/probe/probe.go` | handles of libbpfgo | `Init`, `Attach`, `InitEventBuf`, `PollEventBuf`, `CloseEventBuf` |
| Health check server | `pkg/healthcheck/healthcheck.go` | listener, `readyCh`, one goroutine per connection | `InitializeListener`, `NotifyReadiness`, `ShutdownListener`, `acceptConnections`, `processConnection` |
| `run` command | `pkg/cmd/run/run.go`, `pkg/cmd/cmd.go` | the PID file, the signal context | `Run` in the foreground and detached, `daemonize`, `Execute` |
| `wait` command | `pkg/cmd/wait/wait.go` | its connections and its deadline | check, then poll the socket |
| `stop` command | `pkg/cmd/stop/stop.go`, `pkg/cmd/common` | none | signal, poll, kill |
| Coverage report | `pkg/coverage`, `writeReport` | the JSON file | create, write |
| Status bar | `pkg/trace/status.go`, `internal/output` | the counter of consumed events | `ProgressBar`, the ticker |
| Others | status command, options, static helper, shell wait script, docs generator | none that the rest reads | see section 7 |

### Interactions

- Kernel to user space: the ring buffer. A record is reserved and submitted in
  two steps; libbpfgo's poller sends it, blocking, on `eventsCh`;
  `ingestEvents` sends it, blocking, on `feedCh`; `processEvents` stores it in
  `ack`. Back-pressure reaches the ring, where the kernel drops events.
- User space to kernel: the probes, each with a cookie, attached in batches.
- Daemon to commands: two paths only, `/tmp/xcover.pid` and
  `/tmp/xcover.sock`, plus signals. Nothing locks either path.
- Cancellation: one context, cancelled by the first SIGINT or SIGTERM, that
  `Run`, both goroutines, the accept loop and every connection look at.

### What is hard, and what correct means

- *Concurrency.* Threads of the traced program race between the lookup and the
  update of `seen_funcs`; `select` picks at random; `Accept` does not see the
  context. Correct: every function entered is acknowledged, is on its way, or
  was lost to a full ring and nowhere else; it is printed and counted once.
- *Shutdown order.* The goroutines must be gone before the report is made and
  the ring closed. Correct: the report lists exactly what was acknowledged, its
  percentage is that of the list, and the run ends after the signal.
- *Selection and pairing.* Four filters decide with early returns; offsets and
  cookies come from two map iterations and are cut in batches. Correct: the
  functions selected, and no others, have a probe, each in one batch, and the
  right cookie.
- *Readiness.* Stale socket files, abandoned connections, cancellation before
  readiness; `Run` announces, another goroutine answers, a third process starts
  the tests. Correct: `wait` succeeds only after readiness was announced, every
  function the tests then execute is recorded, and neither a connection nor a
  `wait` hangs.
- *Daemon life.* Three writers and two removers of one PID file that never
  lock it and whose writes may fail, crashes, a bounded wait before SIGKILL.
  Correct: one daemon at a time, `stop` tells the truth about the process and its
  report, and no dead PID is left for it to signal. The commands do not achieve
  that for every user; the models say for which discipline they do.

`PROJECT.json` lists these hazards at their lines, with the properties that
would show each of them.

## 2. Modules

    Uprobe <-- EventPipeline --> (implements) Coverage
                ^    ^    ^-- MCEventPipeline
                |    +------- EventPipelineProofs <-- CapacityProofs
                |                                          ^
                |          +-------------------------------+
                |          |
                Profiler <-+- ProfilerProofs
                |
                +--> (contains, and implements) HealthCheck <-- HealthCheckProofs

    AttachProbe --> (implements) Attachment
         ^-- MCAttachProbe, AttachProbeProofs

    Lifecycle <-- MCLifecycle, LifecycleProofs <-- OneRunnerProofs

**Uprobe** - one run of `handle_user_function` per thread: `Enter` (cookie and
lookup), `MarkSeen` (update), `Reserve` or `ReserveFail`, `Submit`, one action
per map helper since each is atomic and nothing orders those of two threads. A
busy record blocks the consumer until its owner submits it. `hits` and `lost`
are history variables.

**EventPipeline** - one `UserTracer.Run` on top of Uprobe. `main` is the
goroutine of `Run` (`AttachBatch`, `Start`, `NotifyReadiness`, `Join`,
`ShutdownListener`, `WriteReport`, `CloseEventBuf` and their failures); `ingest`
and `process` are the two goroutines with the event each carries between its
receive and its send or store; `eventsCh` and `feedCh` are bounded sequences.
A cookie stands for the function it is attached to; whether that is the right
one is AttachProbe's subject. A receive from the closed `eventsCh` yields the
empty event, which decodes as cookie 0, as in the code, so that the properties
depend on `CloseEventBuf` coming after the join. The run has `--report` (the
default). libbpfgo (`Poll`, closing the channel) is external, modelled from how
`pkg/probe` uses it.

**Coverage** - the abstract profiler: executed, acknowledged, reported. No
kernel, channel or goroutine. `EventPipeline!Abstract` is the refinement
mapping.

**AttachProbe** - the filter of the command line (`ShouldIncludeSymbol`, with its
early returns in the code's order) over the symbols, `loadFunctions` one symbol
at a time with a failing lookup as an alternative, `GetFuncOffsets` and
`GetFuncCookies` as any two orders of the same keys, with the zeros in front that
`make` with a length followed by `append` leaves, `attachProbe` batch by batch
with failing batches, and entries at offsets. A pattern is the set of the symbols
it matches.

**Attachment** - what attaching promises to the rest of a run: every function is
tried in one batch, a batch gets its probes as a whole or not at all, and the
attaching is over when all were tried. `AttachProbe!Abstract` is the refinement
mapping. EventPipeline's `AttachBatch` and `Start` are this interface.

**HealthCheck** - the server and the processes of `wait`. A waiter is at its
`os.Stat`, its dial or its read; each attempt is a connection of its own, since
the code keeps the old ones open (`defer conn.Close()`). A dial may fail although
the listener is there (a full backlog), and `Accept` may, for want of file
descriptors; both are tried again. The timeout is a number of attempts. The
tracer around the server is a small machine of its own (`Tracer`) that is assumed
to get to its announcement and its shutdown.

**Profiler** - the process as a whole: EventPipeline's `Run` and HealthCheck's
server with its waiters, and the traced program before and after the probes are
there. Four steps belong to both parts (`Notify`, `Signal`, `Shutdown`, `Exit`),
every other step to one. `tested` is a history of what is executed after a
`wait` has succeeded. HealthCheck's assumption about its tracer is a property
here (`ImplementsHealthCheck`), with `Run`'s own steps in its place.

**Lifecycle** - shells in roles:

- `script` gives the README's commands again and again, `run --detach`, `wait`,
  `stop`, each only when the one before it has succeeded, as `set -e` would: after
  an error (`wait` finds nothing or times out, a PID file cannot be stored or
  read) the script is over, whatever still runs;
- `free` gives the same commands in any order and at any time, after any outcome;
- `foreground` repeats `run`, ended by ^C or by another shell's `stop`;
- `observe` calls `wait` and `stop` at any time.

They share the PID file, the socket path and the report file. `os.WriteFile` is
two steps (truncate, write), for the parent and for the daemon, and each of them
may fail: the daemon ignores that and goes on, the parent returns with its child
running. A write after the path was removed goes to the removed file. The check of
`run --detach` and the start of the child are two steps; `IsDaemonRunning`, which
reads a file of a few bytes and sends signal 0, is one. The report is created,
which truncates it, and then written. A signal before `Execute` has installed its
handler (`HandleSignals`) kills, and so does a second one once the first has
uninstalled it, which takes a moment in which it is swallowed. Earlier runs that
were killed (`Left`) may have left their PID file, socket or both. The insides of
`Run` and of the socket protocol are one step each; that a join may hang is taken
from EventPipeline. A crash can happen at any time.

Definitions introduced by a comment `Fault:` are variants of the definition below
them with a plausible bug. No specification uses them: they serve to check that
the properties notice the bug (`mutants` in `PROJECT.json`).

## 3. Runs

| Run | Instance | What it shows |
|---|---|---|
| `pipeline_tight` | 2 functions, 2 threads; seen 1, ring 2, channels 1 each | with every container smaller than what competes for it: no event vanishes but to the full ring, output, list and percentage are right, and the status bar can always be drawn; the run implements Coverage |
| `pipeline_ample` | same; ring and `feedCh` hold one event per function and thread | nothing is lost, `ingestEvents` finds room in `feedCh` whenever it sends, every entered function is acknowledged, `Run` returns |
| `pipeline_hang` | `feedCh` 1 | finding: `Run` may never return |
| `seen_but_lost` | tight | finding: a function marked and never reported |
| `attach` | 6 symbols: a name twice, two names of one hash, two of one address, one that is no function; 7 filters; batches of 4 | the selected functions and no others are probed, each in one batch, and the counts are right; it implements Attachment |
| `attach_pairing` | same | finding: wrong names in the report |
| `healthcheck` | 2 waiters, 2 attempts each | no false readiness, no hanging connection, accept loop or waiter |
| `profiler` | 2 functions, 1 thread, ring 1, `eventsCh` 1, `feedCh` 2; 1 waiter, 1 attempt | what a successful `wait` is worth to the tests; `Run` does what HealthCheck assumes; the tracer gets ready and the signal ends it wherever it was |
| `lifecycle` | a killed daemon and 2 new ones, 2 polls; a `script` shell, or a `foreground` one beside an `observe` one | one daemon at a time, `stop` tells the truth, no stale PID, a signalled daemon ends |
| `wait_refused` | same roles, 2 daemons | finding: `wait` refuses a live daemon |
| `two_shells` | 2 `script` shells, 2 daemons | finding: two daemons |
| `stop_lies` | 1 `free` shell, 2 daemons | finding: `stop` says "stopped" of a daemon that lives |

### Why the bounds are enough

- *Pipeline.* Two threads are what it takes to race between lookup and update,
  two functions to fill a `seen_funcs` of one key and to have a busy record
  ahead of a submitted one. Capacities below the number of events reach every
  blocking send and every drop. The safety results are proved for all bounds.
  The ample run gives the ring and `feedCh` `RoomForAll`, functions times
  threads, the most events there can be if `seen_funcs` has room for every
  function (proved in CapacityProofs); the code's 4096 does not guarantee that
  for `feedCh`, which is what `pipeline_hang` shows with a capacity of one
  instead of 4096.
- *Attach.* The filters leave none to three functions, that is up to six slice
  entries, half of them zeros, so a batch of four reaches from the zeros into the
  functions or ends before them, and the last one is short. The seven filters are:
  none, each pattern alone, both with a name that matches both, both with nothing
  left, binds to exclude, and binds to include beside a pattern to exclude.
- *HealthCheck.* Two attempts let a waiter abandon a connection that the server
  still holds; a second waiter makes the server hold connections at different
  stages. `socket` is arbitrary at first, for the file of a killed tracer.
- *Profiler.* The bounds of the parts are theirs; this run is about their
  interplay, and one thread and one waiter take every step both parts share.
  `feedCh` holds an event of each function: with less, `SignalEnds` fails as
  `pipeline_hang` shows. The ring holds one event, so drops do happen.
- *Lifecycle.* Two new daemons let a shell start again over the files left by
  a daemon that has ended or crashed, and the killed one has left none, one or both
  of its files before. `MaxPolls` is 50 in the code and 2 here: none, some and all
  rounds used up. A PID is never used again.

Deadlock checking is off in all runs, because each of these systems may rightly
stop: a finished run, an ended program, a shell that has no process left.

## 4. Fairness

- *EventPipeline* (`Fairness`): weak fairness of each thread's run of the BPF
  program (the verifier guarantees that it ends), of `Run`, of the poller and of
  the actions of both goroutines. Strong fairness of `IngestStop` and
  `ProcessStop`: `select` chooses at random among ready cases, so a goroutine
  that finds the context done over and over leaves. No fairness of `Enter` and
  `Cancel`.
- *HealthCheck*: the tracer goes on with its start and, once signalled, its
  shutdown; goroutines and waiters run. Strong fairness of `Accept`: its errors
  are those of a moment, and an accept that is possible again and again succeeds;
  no error has to come. Neither `Cancel` nor `Exit` has to come.
- *Profiler*: that of its two parts, action by action, without HealthCheck's
  assumption about the tracer, which `ImplementsHealthCheck` derives from the
  fairness of `Run`. The process exits when `Run` has returned.
- *Lifecycle*: daemons run unless they hang, and a command that was started goes
  on. A shell may stay at its prompt (`Prompts`) for good, and crashes need not
  come.

`pipeline_hang` is a counterexample under `FairSpec`: the goroutine is blocked,
not starved.

## 5. Proofs

All proofs are checked by TLAPS (1.4.5) with SMT, Zenon and LS4. They hold for
all values of the constants that satisfy the named assumptions.

**EventPipelineProofs**, for all functions, threads and capacities, from
`ConstantsAssumption` (finitely many functions and at least one, the special
values are none of the ordinary ones, capacities are naturals) and
`ChannelsAssumption` (channel capacities are positive):

- `TypeInvariant`: `TypeOK` is inductive by itself, including the capacities.
- `EveryHitAccounted`: `TypeOK /\ FlowInv` is inductive. `Accounted` alone is
  not: `Submit` clears a thread's program, so its record must still be in the
  ring (`SubmitHeld`); `Enter` skips a function that is in `seen_funcs`, which
  must then have been entered before (`OnlyHits`); `Start` resets both
  goroutines, which must carry nothing, and the closing of `eventsCh` must not
  produce an empty event that is acknowledged (`RunOrder`).
- `PrintedExactlyOnce`, from `TypeOK`.
- `BarNeverOverflows`: what is acknowledged is a subset of the functions, so its
  share is at most 100 (`PercentBound`).
- `PercentOfListed` and `ReportMissesNone`, from `ReportInvariant`: a written
  report equals `ack`, since nothing is acknowledged after the join.
- `Implementation`: initial states map to initial states, and each step to a
  step of Coverage or a stutter (`StepSimulation`), using the same invariant.

**CapacityProofs**, for finitely many functions and threads, is about capacities
that suffice. It assumes `RoomInSeen`, that `seen_funcs` has room for every
function, and `RoomFor` of the container in question, room for one event of
each function from each thread:

- `RingNeverFull`: with room in the ring, no event is lost. `seen_funcs` takes
  40960 functions, and the ring of 2^28 bytes takes 2^24 records of 8 bytes with
  their headers of 8, so for that many functions this covers 409 threads, and
  more threads for fewer functions. Larger programs may lose events, as
  `seen_but_lost` shows.
- `SendsNeverWait`: with room in `feedCh`, `ingestEvents` never waits to send.
  The code's 4096 entries are enough when functions times threads are; otherwise
  `pipeline_hang` can happen.

Both follow from a bound on the events under way, which is not inductive: it must
be known that no thread has two events of one function between the ring and
`processEvents`, and no variable says which thread an event came from.
`QueueInv` therefore says that the queue of them (`Queued`: feed, the event in
`ingestEvents`' hand, `eventsCh`, ring) can be dealt out to the threads in this
way (`OnePerThread`), which is kept because a function that is queued or about to
be is marked (`MarkedFirst`): no thread that looks it up begins another event of it.
Most of the lemmas are about that queue: an event that moves on from one
container to the next leaves it as it is.

**AttachProbeProofs**, for all symbols, filters, hashes, addresses and batch
sizes, from `SymbolsAssumption` (finitely many symbols, cookies and offsets not
zero, every symbol has a bind):

- `TypeInvariant`: the slices have one length and no entry reports the cookie 0,
  which needs `ZerosAligned`: zero cookies stand at zero offsets.
- `AllProbed`: every function has a probe if no batch fails. `AttachInv` adds
  that both slices list every function (`SlicesComplete`) and that the pairs
  below `next` are attached (`PrefixAttached`).
- `OnlySelected`, from `LoadInv`: what is loaded so far is the selected part of
  the symbols looked at so far, and an offset with a probe is that of a loaded
  function.
- `CountIsRight`: no more functions are acknowledged than were entered, and at
  most one batch fewer for each batch that failed, though their names may be wrong
  (finding 3). `CountInv` has what the counting needs: the slice of offsets lists
  each function at an index of its own, and nothing else behind the zeros
  (`OffsetsListed`); the probes are pairs of the slices, and the failed batches
  miss at most `BatchSize` each (`ProbesArePairs`); what is acknowledged are the
  cookies of the probes entered (`AckedOfProbes`).
- `Implementation`: AttachProbe refines Attachment. A round of the batch loop
  attaches, in terms of functions, the untried ones of its slice
  (`RoundUntried`), which are none when the slice lies within the zeros.

**HealthCheckProofs**, for all waiters and attempts:

- `TypeInvariant`: `TypeOK` and `ServerInv` are inductive together.
- `NoFalseReadiness`: an answer is only written on a connection accepted by a
  listener of this tracer, once `ready` holds (`ServerInv`), so it cannot come
  out of a stale file or an abandoned attempt.

**ProfilerProofs**, from the assumptions of both parts:

- `PipelinePart` and `ServerPart`: the composition implements EventPipeline and
  HealthCheck's safety part, each step being a step of the part or leaving it
  alone. So every theorem about a part is one about the whole.
- `EveryTestRecorded`: what is tested is accounted for (`Accounted`), because a
  successful wait comes after the announcement (`ReadyAfterNotify`), and that
  after the last batch, so that a function without a probe by then is one of a
  failed batch.
- `NoTestLost`: with room in the ring, what is tested is acknowledged, or on its
  way, or a function without a probe; the fourth case of `EveryTestRecorded`, an
  event lost to a full ring, cannot occur.

**LifecycleProofs** and **OneRunnerProofs**, from `LifecycleAssumption`:

- `TypeInvariant`, for any shells in any roles.
- `OneDaemon`, `StopFindsIt` and `PidFileClean`, if one shell at most starts
  daemons, by the script with no other shell at work or in the foreground
  (`OneRunner`); `StopIsHonest`, if moreover one other shell at most calls `stop`
  (`OneObserver`). They hold for any number of daemons and polls, whatever files
  earlier runs have left, with failures, also of storing a PID, and crashes at any
  time.

The hypotheses are a discipline of the user's, not a property of the code, and
they are needed:

- two shells that start daemons get two (finding 5);
- a shell that gives `run --detach` again after an error gets a second daemon, when
  the first command could not store the PID (`run.go:158`), or when the second one,
  or a `wait` before it, finds the file just truncated (finding 4): with a `free`
  shell TLC finds `AtMostOneDaemon` violated too;
- a `stop` that does not come after a successful `wait` may say "stopped" while the
  daemon lives (finding 6);
- of two shells that stop a daemon in the foreground, one may remove the PID file
  while the other one polls it, and says "stopped".

None of the four properties is inductive. `OneRunner` has two cases, each with its
invariant.

- One shell keeps to the script (`SoleRunner`). `WorkInv`: only the process the
  shell has in hand lives (`OnlyInHand`); what the PID file can hold between the
  parent's store and `stop`, with the process's own truncation and its failures,
  and that a PID which `stop` has read stays (`PidStored`); what each place of the
  shell implies for the process and the report (`Phases`); and each process's
  signal, outcome and PID (`LifeOf`). A new daemon is started by a script only at
  its beginning or after `stop`, which has found the file without a living PID, and
  thus the process dead (`PidStored`), or killed it. That a `stop` reads the right
  PID comes from the `wait` before it: the daemon that answers on the socket is past
  its own store.
- One shell runs in the foreground, any number of others wait and stop
  (`ForegroundRunner`). `FrontInv`: a process that lives is the one in the
  foreground (`InFront`); a PID in the file was stored by its process, which has
  not removed it, or is that of a process that was killed (`StoredByItself`); what a
  stop has in hand has stored its PID (`Keeping`); and, for one observer, the PID of
  a process that a stop polls is in the file while the process lives (`Watching`).

Model-checked only: all liveness properties and with them `ImplementsHealthCheck`,
whose safety part is `ServerPart`; liveness under fairness is out of the prover's
reach. Every invariant of a passing run is stated by a theorem, and so are the
refinements of Coverage and Attachment.

## 6. What the models found

1. `pkg/trace/tracer.go:197`: after the signal, `processEvents` may leave first;
   `ingestEvents` then blocks on a full `feedCh` and `wg.Wait` never returns. No
   report is written and `stop` ends in SIGKILL.
2. `bpf/trace.bpf.c:42`: a function is marked before its event is reserved and
   the mark stays if the ring is full; it is never reported.
3. `pkg/trace/tracer.go:178`: offsets and cookies are taken in two map
   iterations of different order, so the report names functions that were not
   executed. The number of functions is right all the same (`CountPreserved`).
4. `pkg/cmd/run/run.go:80`: the daemon rewrites the PID file its parent wrote;
   `wait` may read it empty and say that nothing is running.
5. `pkg/cmd/run/run.go:122`: two `run --detach` at once start two daemons.
6. `pkg/cmd/stop/stop.go:66`: `stop` polls the PID file of the moment and not the
   process it has signalled. Right after `run --detach` the daemon may truncate the
   file once `stop` has read it; `stop` then says "stopped" while the daemon lives.

Also, without a run of its own since it takes a single step: a batch of probes
that fails to attach is not reported to `Run` (`pkg/probe/probe.go:105`), which
announces readiness, against `README.md:123`. `TestsRecorded` and
`CountPreserved` bound what is missing then.

## 7. Assumptions and what is not modelled

- In Lifecycle a `wait` may fail at any moment, since `--timeout` is the user's
  and stat and dial have errors that end the command at once (permissions, a path
  that is no socket). HealthCheck, which is about what `wait` does until then,
  leaves these errors out. The time-outs of `stop` are not tied to the daemon's
  progress.
- `isConnectionAlive` and `safeWrite` change no state; a lost answer is
  `ReadDeadline`.
- Records are 8 bytes and decode without error; the empty event is modelled.
- Reading the ELF file (one outcome: symbols or an error), matching a pattern
  against a name, and FNV-1a: a pattern is a set of symbols and the hash is any
  function that is never 0.
- A PID is given to one process only. What could make `stop` signal a foreign
  process is a dead PID left in the file, which `NoStalePid` is about: it is
  left only by a run that failed before anyone stopped it, or by a crash. A `stop`
  that has read a PID whose process ends before the signal is not covered.
- The status command reads one fact and prints it. Of the status bar,
  `ProgressBar` is modelled, because its panic would end the tracer; the rest is
  layout, and the counter of consumed events is read by nothing else. The integer
  division in `pkg/trace/status.go:23` shows 0% until a channel is full: no state
  depends on it and no document says what it should show.
- `--pid` is stored and read by nobody, `GetFuncNames` is not called, and
  `PrettyTraceStatus` does not print its `feedUtil`.
- Options and settings are field assignments; `pkg/static` and `scripts/` are not
  used by the program; the documentation generator is a build tool. The JSON
  encoding of the report and the wording of output and logs are left out.
- `bpf/vmlinux.h`, nearly all of the C in the repository by lines, is a generated
  dump of kernel types of which the program uses a few integers and `pt_regs`. The C code
  that runs is `bpf/trace.bpf.c`, and all of its program and maps are modelled;
  the rest of the models is of Go code.

## 8. What is left

- *Prove.* Nothing that the runs check and the prover can reach is left. What
  could be strengthened are hypotheses: `RingNeverFull` needs room for every
  thread, although the threads that run an event of one function are at most those
  that looked it up before the first one marked it.
- *Model.* Two foreground runs, or a foreground run beside a detached one, violate
  `AtMostOneDaemon` as `two_shells` does, since a foreground run never checks; they
  have no run of their own. `stop` beside another shell's `run --detach`, whose PID
  file it may remove at `pkg/cmd/stop/stop.go:68`, is not among the roles of a run
  either. A PID given to a second process would need PIDs separate from processes
  in Lifecycle.
