# A TLA+ model of httprove

httprove probes HTTP targets and measures every phase of each request: once, repeatedly
("ping"), in a terminal UI, as a Prometheus exporter, or until the first failure (a
trap). It follows redirects, keeps connections alive, resolves through chosen DNS servers,
alerts a webhook, exports to an OTLP collector, compares what a service was and is, checks
certificates, runs a mock server and updates itself. This directory models these parts,
checks them with TLC, and proves the central ones with TLAPS.

Paths below are relative to the sources: `runner.rs` is `src/src/runner.rs`.

1. Inventory · 2. Modules · 3. Runs · 4. Where code and documentation disagree ·
5. Proofs · 6. Only model-checked · 7. Not modelled · 8. Plan

## 1. Inventory

### Components, their state, their operations

| part | code | state | operations | modules |
|---|---|---|---|---|
| probe loop | `runner.rs` | one task per target (`seq`, `next_start`), an mpsc channel of 64 results, a `CancellationToken`, an `AtomicBool` | spawn, pace, pause, probe, send, end | `ProbeStream`, `ProbeRunner` |
| single-shot and ping mode | `lib.rs` `run_cli_mode` | a slot per target (statistics, last success, verdict), the result in hand, the OTLP circuit, the reference file | receive, export, record, Ctrl-C, drain, compare, exit code | `CliMode`, `CliSignals`, `Ping` |
| trap mode | `lib.rs` `run_trap_mode` | the captured results, the failure | receive, spring, Ctrl-C, drain, save | `TrapMode` |
| breach alerts | `watch.rs` | `BreachTracker` per target, POST tasks | evaluate, fire, post | `BreachAlerts` |
| terminal UI | `tui/mod.rs`, `tui/app.rs` | `App`: statistics, history, flags | drain, draw, keys, quit | `Tui` |
| exporter | `exporter.rs` | `ExporterState` behind a mutex, a semaphore of 64 permits, connections | record, accept, serve, time out, Ctrl-C | `Exporter` |
| blackbox endpoint | `exporter.rs`, `blackbox.rs` | connections, each with its probe | accept, read, probe, answer, cut off | `Blackbox` |
| one probe, keep-alive | `probe.rs` | the hops so far, a deadline, a kept connection | resolve, connect, handshake, request, redirect, reuse, judge | `Probe` |
| `--dns` resolution | `dns.rs` | queries under way, budgets, grace | ask, answer, fail over, time out | `Dns` |
| mock server | `serve.rs` | `seq`, a ring of requests, a semaphore of 256 permits | accept, read a body, number, store, answer, Ctrl-C | `Serve` |
| self-update | `update/*.rs` | files: target, `.bak`, `.new`, alias | resolve, download, verify, replace, link | `SelfUpdate` |
| statistics and verdict | `stats.rs`, `verdict.rs` | counters, Welford's figures, a ring of samples | record, percentile, assess | `Stats` |
| cert-check | `cert_check.rs` | a pool of tasks, the rows | expand, fetch, retry, collect, sort | `CertCheck` |
| certificates, chains, grade | `cert.rs`, `chain.rs`, `tls_grade.rs` | none | days, analysis, AIA, score | `Certificates` |
| fan-out, families | `fanout.rs` | the rows | resolve, probe in turn, flag, judge | `Fanout` |
| resolvers, diff, replay, trace | `dns.rs`, `diff.rs`, `record.rs`, `trace.rs` | none between calls | ask each, compare, show, map a route | `Investigate` |
| responses of DNS | `dns.rs` | none | skip names, read records, take addresses, TXT, PTR | `Responses` |
| entry | `lib.rs` `cli_main`, `run` | the exit code; files | start a command, end with its code | `Invocation`, `Commands` |
| arguments, types, hash, cache audit, baseline, output | the rest | none | parsing, formatting, hints | section 7 |

### How they interact

The probe loop is the heart. Its tasks produce results, each from one `probe` call; exactly
one consumer owns the `ProbeLoopHandle` and takes them: `run_cli_mode`, `run_trap_mode`,
the event loop of the UI or the update task of the exporter. The consumer steers the loop
through a token and a flag that the tasks look at when they come by. So the runner is
modelled with a consumer that may do anything the handle allows, and each front end is
composed with it: `CliMode`, `TrapMode` and `Tui` EXTEND `ProbeRunner`, and their steps are
conjunctions of its steps and their own; that they use the loop only as it allows is
proved (section 5). The exporter uses nothing but what the runner promises, so it is
composed with that promise, `ProbeStream`.

Inside a probe, `connect_hop` hands over to the resolver under its own deadline: `Probe`
EXTENDS `Dns`, with one clock. The blackbox endpoint calls a probe of its own for
each request. The one-shot commands share what `cli_main` gives them, an invocation that
ends with an exit code: `Invocation` keeps it, `Commands` composes them.

Ctrl-C reaches the process through `tokio::signal::ctrl_c()`: a future that is created
once in the exporter and in `serve`, and anew on every pass through the `select!` in the
two CLI modes. Alerts leave through tasks that nobody joins. `cli_main` drops the runtime,
with every task still on it, when the mode has returned. Between two invocations
only files remain: the installed binary and its neighbours, the reference of
`--since-good` and `--annotate-deploy`, sessions.

### What is hard, and what makes each part correct

* Tasks of several targets, a consumer and a user act on one bounded channel, one token
  and one relaxed flag, in any order: no result may be lost, repeated or overtaken, no task
  left behind, no burst follow a delay (`StreamSpec`, `TasksEnd`, `NoBurst`, `PauseSlip`).
* The exit code of a run is a claim on everything that was probed (`AllCounted`,
  `ExitAgrees`, `FinishedIsFinal`, `NoSilentDrift`, `CertExitTrue`, `ExitTellsTruth`).
* Alerts depend on long histories of results and on time (`AlertsEarned`,
  `CooldownKept`, `LongOutageAlerts`).
* Scrapes read state that is being updated, while the wall clock may be set back
  (`BodiesCoherent`, `ScrapesAdvance`).
* Time is divided: among redirects, phases, DNS servers that may not answer, families of
  addresses, connections and the probes inside them (`WithinTimeout`, `FairShare`,
  `SilentFamilyCostsGrace`, `AnsweredUnlessSlow`).
* A server may close a kept connection at any moment (`ReuseSound`).
* Numbers are taken and stored in two steps by concurrent handlers (`AnsweredIsKept`);
  permits come back on many ways (`PermitsAccounted`, `ConnectionsEnd`).
* The process can be killed between any two system calls, and run again
  (`TargetRunnable`, `NoSilentDrift`).
* Ctrl-C may come at any moment (`CtrlCEnds`, `CtrlCStops`, `TrapEnds`).

`PROJECT.json` lists these hazards one by one, at the line where each bites, with the
properties that watch it.

## 2. The modules

### Concurrent parts

**ProbeStream** is the abstract promise of `runner.rs`: per target the probes that have
finished and those delivered, one at a time and in the order of their numbers. As long as
the handle is kept, what has finished is delivered, also after a cancel; the end is seen
only when nothing is left to deliver, after a stop or the full count.

**ProbeRunner** is the loop itself. `pc[t]` says where task `t` is in `probe_loop`; each
action is the code between two points at which another thread can be seen (an await, a
load of `paused`, the end). The three `select!`s are unbiased: with the token set and a
timer expired, either arm may run. Loading `paused` (`ReadPaused`) and starting
the probe (`StartProbe`) are two steps, as in the code. Time is relative:
`wait[t]` is what remains of `sleep_until(next_start)`; `Tick` lets time pass for all
targets. `FinishProbe` takes any time and has any outcome. Ghosts count what was
received (`recvd`, one past the number of the latest result taken), the time since a start
(`since`), the starts during a pause (`slips`).

**CliMode** is `run_cli_mode`. `phase` is the position in the collecting loop; `current`
the result between `recv` and `consume`; `slots[i]` the set of results fed to the
statistics of slot `i`; `name` the sharing of URLs among the targets (the index maps a
repeated URL to its last slot). `StreamOtlp` is one export with the circuit breaker,
`Finish` everything after the loop: the exit code, or 1 when a file cannot be
written. **CliSignals** adds whether Ctrl-C was pressed at all.

**TrapMode** is `run_trap_mode`, with `captured`, `failing` and the session file.

**Tui** is `event_loop` with `App`. One round: empty the channel (`Update`, `SeeEmpty`,
`SeeFinished`), draw, then one key or none. `Fail` is an error of draw, poll or read.

**BreachAlerts** is `BreachTracker::evaluate`, the spawned POSTs, and time; `age` is the
time since `last_fire`, capped at the cooldown.

**Exporter** is `run_exporter`: `Probed` is a probe of the loop that ends; `RecvSome` and
`Record` are the update task before and under the lock (`Record` chooses any wall-clock time, also one before the last);
`Accept`, `AcceptError`, `BackoffOver`, `Shutdown` and `Exit` the accept loop; `ReadMetrics`,
`ReadOther`, `Return` and `Timeout` one connection. `conn[c] = "backlog"` is a connection
the kernel has queued.

**Dns** is `resolve_via_servers` with `query_server_family` under `phase_await`, on a
clock: `expiry` is the timeout of the queries to the current server, `grace` that of the
second family. `Tick` does not pass a timer that is due; a query may still end at
the very instant of its timer.

**Probe** is `probe` and `KeepAliveProber::probe` over `Dns`. `pc` names what is awaited;
every await of the code is a step that succeeds, fails (`Fail`, which drops the connection in
use) or times out (`TimedOut`, which is `phase_await`). `ReceiveBody` ends a hop and decides
between the result, the error of a redirect that cannot be followed, and the next hop on
the same clock. `kept` is `established`; the server may close it at any moment
(`ServerCloses`), which the connection's task sees some time later (`CloseSeen`): only then
does `is_closed` tell. `Report` evaluates the assertions. Connections are numbered, so that
a property can say whose certificate a hop reports.

**Serve** is `run` of `serve.rs` with one task per connection: `collect_body` frame by frame
up to `--max-body`, the number (`Number`), then the store under its lock (`Store`), then the
delay and the response. `Start` may end at once: with 0 for the help, 1 when the port cannot
be bound, 2 from the parser. Two streams of one HTTP/2 connection overlap as those of two
connections do.

**SelfUpdate** has one action per system call that changes a file, so that `Crash` can
come between any two; writes and copies are two steps, the first leaving a file that is
cut off. A file is (release, whole, executable). The network may answer with an older
release, a tag that is no version, or an archive that does not match the checksum.

### One-shot commands

**Invocation** holds what these have in common: the command, a queue of items, a pool of
tasks, rows, the exit code. **Commands** lets one user run them; only the ping mode leaves
a file to the next invocation.

**Ping** is what `run_cli_mode` makes of the results `CliMode` counts, with their content:
`Collect` feeds **Stats** (exact Welford figures times `Scale`, the ring, the counters) and
the verdict; the steps after the loop read, compare and overwrite the reference file, which a
kill may leave cut off. Services may become others between two invocations.

**CertCheck** expands the targets, fills the pool, refills it as tasks end, repeats an
expired handshake without verification, sorts and judges; `Inspect` is `--check-chain` with
`--tls-grade`. **Certificates** are the operators behind it: `DaysRemaining`, `Analyze`,
`CheckAia`, `Score`, `Letter`. **Fanout** is `--fanout` and `--all-families`: the probes in
turn, median, majority, outliers. **Investigate** is `--via`, `diff`, `replay` and `trace`.
**Responses** are the readers of `dns.rs`, byte by byte: `skip_name`, `parse_answers`,
`parse_txt`, `parse_ptr` with `parse_name`. What a resolver sends is encoded by operators
that are external to the code (`Encode`); `ReadResponse` hands such a message, whole or cut
off anywhere, to the reader of its question.
**Blackbox** is the `/probe` endpoint with its two time limits.

MC modules give the constants their values. The operators named `X_Something` beside an
action `X`, marked "Faulty", are what a plausible mistake would make of it; no
specification uses them. `PROJECT.json` pairs each property with one of them, which must
break the property.

## 3. What the runs check

| run | bounds | what it shows |
|---|---|---|
| `runner` | 2 targets, 2 probes each, channel of 1, interval 2, `MaxSeq` 3 | `StreamSpec`: refines `ProbeStream`: each result taken is the next of its target, every probe that has finished arrives while the handle is kept, also after a cancel, and the end comes with nothing left behind. `PauseSlip`: at most one probe per target overtakes a pause. `NoBurst`: starts at least an interval apart. `TasksEnd`: every task ends, when cancelled and at the full count |
| `cli` | 2 targets, same URL or not, endless up to `MaxSeq` 2, interval 0, three outcomes | `AllCounted`: what was sent is queued, in hand or in a slot of its URL; at the end in a slot. `ExitAgrees`: the exit code is true of everything sent. `OneStall`: one stall for a dead collector. `CtrlCEnds`: a Ctrl-C that was heard ends the run |
| `trap` | 2 endless targets, `MaxSeq` 2 | `SessionIsWhole`: the session is everything up to the failure, in order. `TrapEnds`: the process ends |
| `tui` | 2 targets, 2 probes, history of 2, all keys | `ViewsAgree`: statistics, history and pause flags agree. `FinishedIsFinal`: FINISHED means everything |
| `alerts` | 5 results, threshold 2, cooldown 2 | `AlertsEarned` (debounce, one recovery per outage), `CooldownKept`, `LongOutageAlerts`, `AlertsAccounted` |
| `exporter` | 2 targets, 2 scrapers, 1 permit, a clock of 2 values, 2 scrapes | `BodiesCoherent`, `ScrapesAdvance`, `ShutdownDrains` (no probe that has finished is lost by Ctrl-C, also one whose result is still under way), `ConnectionsEnd`, `CtrlCEnds` |
| `update` | 3 releases, 3 runs of the command | `TargetRunnable`: the command stays runnable and its backup is the previous one. `ExitTellsTruth`, `NoDowngrade` |
| `probe` | 3 servers, 2 families, deadline 7, cap 3, grace 1, 1 redirect, 3 calls, `--expect-total` 4 | `FairShare`, `SilentFamilyCostsGrace`, `WithinTimeout`, `ResultCoherent`, `ReuseSound`, `ProbeEnds` |
| `serve` | 3 clients, 2 permits, store of 1, bodies up to one byte over the limit of 1, 3 requests | `AnsweredIsKept`, `PermitsAccounted`, `CtrlCStops` |
| `commands` | 2 invocations, 2 hosts, 5 chains, pool of 2, 3 lookups, 2 resolvers, 2 targets with up to 3 results, ring of 2, 6 responses of a resolver, whole and cut off at every byte, 2 scrapers for 1 connection | `OneRowEach`, `CertExitTrue`, `OutliersAreFew`, `NoSilentDrift`, `StatsFaithful`, `ResponsesRead` (a whole response is read as what it says, a cut one never as something else), `AnsweredUnlessSlow` |
| `cli_signals` | 1 endless target | violated: `CtrlCHeard`, section 4 |
| `cert_expired` | as `commands` | violated: `ExpiredReported`, section 4 |

Why the bounds are enough. Two targets are needed, and suffice, for interleaving on the
channel and for shared URLs: no step of the loop involves three tasks. A channel of one
slot makes it full at once and so reaches backpressure in every way a longer one could;
two probes each make a full channel with a result behind it. An interval of 2 leaves a
moment at which one target is due and the other is not. Where pacing does not matter
(`cli`, `tui`, `trap`) the interval is 0, which only allows more interleavings. An endless
loop (`Count = 0`) stops at `MaxSeq`; at that bound a task sleeps and can be cancelled.
Five results hold an outage, a recovery and a second outage longer than the threshold. One
permit and two scrapers reach the refusal; a clock of two values lets it go back. Three
releases distinguish newer, equal and older; three runs let a crashed run be followed by one
that stumbles over its leftovers and by a third. Seven ticks over three servers divide
unevenly, and the cap of 3 bites once an earlier server has failed at once. One
redirect reaches a first, a followed and a refused hop; three calls of a prober reach
a new, a reused and a replaced connection. A store of one is passed by the second request.
The inputs of `commands` contain one case on each side of every comparison of the code;
three results pass a ring of two.  The proofs cover all other values for the safety
properties of every run but `ResponsesRead`.

Deadlock is checked in `runner`. The other runs turn it off since their systems do
stop: the process exits, or the results, calls or runs are used up.

### Fairness

* `TaskFairness`: the tokio runtime polls every task that can go on (weak fairness of a
  task's steps); the semaphore of its mpsc channel serves waiting senders in order, so
  a sender is not passed over for ever, and `select!` picks ready arms at random, so a
  raised cancellation is seen (strong fairness of `Send` and `Cancelled`).
* `Tick` is weakly fair: time passes.
* The consumer is weakly fair in receiving. In `runner` nothing makes it cancel, resume
  or drop. In `cli` and `trap` it is the collecting task; an export ends by the time
  limits in `otlp.rs` (15 s to connect, 30 s for the request).
* In `exporter` the update task, the timer of the backoff, the timeouts of connections and
  the end are weakly fair; the ctrl_c arm strongly, since the unbiased `select!` also has
  the accept arm. Scrapers are not fair: they may stall for ever. That the cancelled
  stream ends is what `CancelStops` shows of the runner.
* In `probe` time passes, and the runtime fires the timers (`TimedOut`, and `Fires` of the
  resolver); that a peer ever answers is not assumed.
* In `serve` only the main task is fair: it starts, the backoff ends, and `Stop` is strongly
  fair for the reason given for the exporter.
* `alerts`: a POST ends by its time limits (`Post` is weakly fair).
* Users, networks and collectors are never fair.

## 4. Where code and documentation disagree

Two runs show a disagreement:

* **A lost Ctrl-C** (`cli_signals`, `CtrlCHeard`): in ping mode the `ctrl_c()` future is
  recreated by each pass through the `select!` (`lib.rs:517`). A Ctrl-C pressed while a
  result is exported and recorded is seen by none, and the run goes on. `README.md:122` and
  `cli.rs:43` say "until Ctrl-C"; `exporter.rs:166` makes the future once for this reason.
* **An expired intermediate that is OK** (`cert_expired`, `ExpiredReported`): a verified
  handshake that fails for an expired certificate anywhere in the chain is repeated without
  verification, and then only the dates of the leaf are looked at
  (`cert_check.rs:222`). `cert_check.rs:211` says the retry is there to report EXPIRED.

Others were met while modelling, and the models follow the code:

* Alerts under way when the process exits are dropped (`watch.rs:91`): neither posted nor
  warned of, though `watch.rs` says a failure is a warning on stderr.
* The 150 ms grace starts with the first query to complete, also one without an address
  (`dns.rs:371`); `dns.rs:289` says once one family is in hand.
* A module of `--blackbox-config` may have a longer time limit than the command line's plus
  five seconds; such a probe is cut off without a response (`exporter.rs:393`).
* A negative duration in a module panics in `Duration::from_secs_f64`; the task of that
  connection ends, the exporter goes on (`blackbox.rs:155`).
* Of signals of equal severity the last is the headline (`max_by`), the comment at
  `verdict.rs:202` says the first.
* `--since-good` changes the exit code only together with `--on-change` (`README.md:319`).
  Several targets are all compared with the first one's fingerprint (`lib.rs:688`). The
  address connected to and headers such as cf-ray are part of what may differ, so a service
  with several addresses can be "changed" by itself.
* A trace shows a hop whose first answer is a star as one without an answer.
* `--resolve` for a host that is no target, and duplicate targets beside
  `--blackbox-config`, are accepted silently.
* Quitting the UI leaves results that are still in the channel out of the exit code; this is
  documented (`tui/mod.rs:70`).

## 5. What is proved

All for every value of the constants that satisfies the assumptions named in the modules:
`RunnerAssumption` (at least one target and one slot, the interval a natural number, `Count <=
MaxSeq`), `CliAssumption`, `TrapAssumption`, `AlertAssumption`, `ServeAssumption` (finitely
many clients), `UpdateAssumption`, `DnsAssumption` (at least one server and one family),
`ProbeAssumption`, `ExporterAssumption` (an endless stream, as `--listen` has it). For the
commands they say what their inputs are: `CertAssumption` (a pool of at least one task, hosts
that are hosts, chains that begin with a leaf), `AnswersAssumption`, `LinesAssumption` (the
targets of a command line are among the URLs), `TimingsAssumption` (a time is a natural
number), `BlackboxAssumption`, `ResponsesAssumption` (the limit of jumps is a
natural number), `StatsAssumption` (a ring of at least one sample). `ScaleAssumption` belongs to the
model alone: the figures are kept times `Scale`, a multiple of every number of samples.
The bounds (`MaxSeq`, `MaxResults`, `MaxRuns`, `MaxProbes`, `MaxRequests`, `MaxScrapes`) are
parameters too: what is proved does not depend on how large they are.

**ProbeRunnerProofs.** `Invariance` is `Spec => []IndInv`, where

    IndInv == TypeOK /\ ChannelInv /\ PaceInv /\ SlipInv /\ CountInv /\ ClosedInv

That the head of the channel is the next result is not inductive: it says nothing of what is
behind it. `ChannelInv` says what the channel is: per target every number from
`recvd` to `seq - 1`, once, in order. `PauseSlip` needs `SlipInv` (who has slipped in this
pause is no longer about to start), `NoBurst` needs `PaceInv` (time waited and time left
add up to the interval), and the end needs `CountInv` (why a task returned) and
`ClosedInv`. From it: `TypeCorrect`, `InOrder`, `PauseHolds`, `Paced` (the action property
`NoBurst`), and `Refinement`: `Spec => StreamSpec`, the loop implements `ProbeStream`. There
a probe is finished when its result is in the channel or its task is about to send it;
dropping the handle abandons those. That a step of `recv` delivers just the next one
(`ReceiveCounts`) is `ChannelInv` again.

**CliProofs.** `UsesRunner`: `CliSpec => RunnerSpec`; every step of the mode is one of the
runner or leaves it alone. So the runner's invariant holds in this mode and need not be
proved again. `CliInvariance` proves `CliIndInv`, which adds to the type, `AllCounted` and
`ExitAgrees` that the loop is left only at the end of the stream, and that the one stall
opened the circuit. The interesting step is the end: `ReceiveNone` with the runner's
invariant gives an empty channel, so what was sent has been recorded. The lemma `LastOf` (by
the well-foundedness of a finite order) shows that a URL has a last slot. Then
`ResultsCounted`, `ExitCodeTrue`, `CircuitHolds`.

The second half of the module is about `BreachAlerts`, the alerts of the same run. The type invariant ties `consecutive`, `breaching` and `age` to
the history: `consecutive` is the length of the row of breaches at its end. `AlertsAreEarned`
adds the debounce and the recoveries; `CooldownHolds` and `LongOutageHolds` are action
properties.

**TrapProofs.** `TrapUsesRunner` as above, then `TrapTypeCorrect` and `SessionWhole`. That
the session is in order and complete rests on `ChannelInv`: each result taken is the next of
its target, so the captured ones are, per target, the first so many.

**TuiProofs.** `TuiUsesRunner`, `TuiTypeCorrect`, `ViewsHold`, `FinishedHolds`. That a result
is counted once rests again on the channel: its head is none of those counted or cleared
before. The history is shown to be the newest results by relating it to the statistics, for
every length of the history.

**SubcommandProofs** holds the proofs about `Serve` and `SelfUpdate`, which share nothing.
The store is not in the order of the numbers. `ServeInv` says that it is the
end of the order of storing (`StoreInv`), that a number is stored once, before its
response (`PushInv`), and belongs to one request (`NumberInv`): `AnsweredKept`. For the permits
(`PermitsHold`) the free ones and the connections with a task add up to the limit; the lemmas
about cardinality come from the library.

For `SelfUpdate` the argument follows the program counter: `StagedInv` says what lies
beside the target is the verified release once it is written, `TargetInv` that the target is
the old binary until it is the new one, `WantedInv` that a run that downloads was asked to or
has found a newer release; whatever earlier runs left behind. Hence `StaysRunnable`,
`SuccessIsTrue` and `NothingDowngraded`.

**ProbeProofs.** The heart is arithmetic: whoever is asked is given an even share of the
time that is left, so what is left after it still has an even share of the *whole* for each
of those behind it (`ShareRemains`, `BudgetFair`). `DnsInv` keeps this along the
loop (`ShareInv`), with the timers (`ClockInv`) and the grace (`SilentInv`). `ProbeInv` adds
the call: the clock is the time since it began (`TimeInv`); the connection kept was alive when
it began and none that failed is held (`ReuseInv`); the request under way is what the last hop
asks for (`ResultInv`). From it `DeadServersDoNotStarve`, `SilenceIsBounded`,
`ProbeKeepsItsBudget`, `ResultIsCoherent` and `ReuseIsSound`, over any number of
servers, redirects and calls, any deadline, cap and grace.

**ExporterProofs.** `ExporterUsesStream`: a step of the exporter is one that `ProbeStream`
allows its consumer, or leaves the loop alone; with `Refinement` the exporter may run on the
real loop. `ExpInv` adds to the type what each slot is by itself (`SlotsCoherent`), that what
a scraper was shown is behind what the slots are now (`ScrapeBehind`, which makes
`ScrapesAdvance` inductive whatever the wall clock does), that what was delivered is in a slot
or in the hand of the update task (`NoneLost`), and how the end comes about (`Ending`: with
nothing in hand and nothing finished that was not delivered). From it `BodiesHold`, `ScrapesHold`, `DrainHolds`, and `PermitsBounded`. The sum over targets that
share a URL is a lemma on the cardinality of a set of pairs.

**CommandsProofs.** Each command has an invariant of its own; `Dispatch` shows that a step of
one cannot disturb that of another.

* `CertInv`: for each host, the targets still queued, those at work and the rows done add up
  to how often it was named (`Balance`), and a good row was earned by a handshake
  (`Earned`). Hence `RowsHold` and `ExitHolds`. Its lemmas count in lists: what
  appending, removing the head and sorting do to the number of places with a value.
* `PingInv`: a slot holds what its target answered last, and a change is not
  forgotten while the file is written. Hence `DriftNoticed`.
* `FanInv`: `OutliersHold`, where the median bounds how many can be far above it.
* `BlackboxInv`: `AnswersInTime`.
* `NamesEnd` and `ReadingStaysInside` are about `Responses`, for any bytes at all: a chain of
  compression pointers ends, with labels that lie in the message, and what the readers index
  unasked is inside of it, so that no length a resolver sends makes them panic. These are
  inductions over positions, over the jumps left and over the records. The induction theorems
  of the library cannot be instantiated by these provers, so it is done by hand: of the
  positions without an answer there would be a last one. The recursive functions are shown
  to satisfy their own equations first.
* `StatsHold`: `StatsInv` says that the figures of each slot are those of the rows of its
  target. The lemmas below it are those of the algorithms: `WelfordStep` (the recurrences for
  the mean and the sum of squares, in integers), `RingKept` (pushing into a full ring keeps
  the last samples), `SortingExists` (there is a sorted copy, by selection) and `MedianHalves`
  (the nearest rank has half of the samples on either side).

Each property of a listed theorem is also checked by a run, on a small instance.

## 6. What is only model-checked

* Liveness (`TasksEnd`, `CtrlCEnds` of both modes, `CtrlCStops`, `TrapEnds`, `ProbeEnds`,
  `AlertsAccounted`, `ConnectionsEnd`): the proof system has no ENABLED, hence no fairness.
* What the commands compute beyond the properties above (the grade of a TLS connection, the
  comparison of captures, the map of a route): the runs evaluate it, and no theorem is
  about it.
* `ResponsesRead`: that reading undoes the encoding is an induction over the message, which is
  data.
* The two runs of section 4, which show a violation.

## 7. What is not modelled, and why

* The content of results where nothing decides on it: headers, bodies, the
  numbers of a timing. X.509, OTLP spans and JSON are data: a message is a record of what is
  read from it. So are the queries of DNS with ECS, and DoH; responses are read byte by byte,
  but for CNAME and the rest of the types, which the code skips as well.
* Parsing of options (`cli.rs`), plain types, the hash, hints on cache headers
  (`cache_audit.rs`), formatting and drawing (`output/*`, `tui/ui.rs`): no state, and nothing
  else decides on them. The selected tab of the UI matters to the layout only.
* `output/baseline.rs` prints one run's figures beside another's; the only thing it decides
  is that a baseline that does not load ends the command at once.
* Of the OTLP client only the outcome of an export. Four of the six phases in `Stats`, which
  are recorded like the two that are modelled.
* In `CliMode` the files written at the end of a run are one step that may fail; `Ping`
  models the one that the next run reads again.
* `run_brew_upgrade` leaves the work to brew. Two updaters at once: the code has no lock.
* The order in which `run` looks at the options: each command is tried by itself.
* Rounding: Welford's figures are exact in the model.

## 8. Plan

Done: the probe loop with its promise and the modes that consume it, alerts, the exporter and
its blackbox endpoint, one probe over the resolver, the mock server, the self-update, the
one-shot commands; proofs of every safety property the passing runs check but `ResponsesRead`.

Left, the most important first:

1. `Probe` as the probe of `ProbeRunner`: an outcome together with its time, so that
   backpressure and deadlines meet in one model.
2. That the operators behind the verdict and the TLS grade are monotone: a worse input never
   gives a better grade.
3. A second updater in `SelfUpdate`, to say exactly what the code does not promise.
4. The order of the options in `run`, and the conflicts that `cli.rs` rules out.
