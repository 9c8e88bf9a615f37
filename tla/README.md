# A verification of price-diff-alerts

`usdewatcher` samples, once per interval, the official sUSDe/USDe rate from an
Ethereum node and the market rate from CoW Protocol, stores both with their
deviation in PostgreSQL, and sends a Telegram message when the deviation exceeds
a threshold twice in a row. Several instances may run against one database; an
advisory lock keeps them from running the same bucket together.

This directory holds TLA+ modules translated from the Go source, TLC
configurations that check them on small instances, and TLAPS proofs for all
instances. `PROJECT.json` maps each definition to the lines it models.

    tlc -workers 2 -config scheduler.cfg MCScheduler.tla     # one run
    tlapm SchedulerProofs.tla                                # one proof module

## Inventory of the system

| Part | Source | State | Operations | Interacts with |
|---|---|---|---|---|
| Scheduler | `internal/scheduler` | options, `next`, armed timer | `Run`, `nextTick`, `bucketStart` | calls the tick function; context |
| Service | `internal/service` | `consecutiveBreaches`, configuration | `ProcessBucket` (`acquireLock`, `executeBucket`) | called by scheduler, backfill, simulate; calls store, fetchers, notifier |
| Advisory lock | `internal/storage/repository.go` | a PostgreSQL session lock, one pooled connection | `TryAdvisoryLock`, its unlock | pool, server |
| Tables | `internal/storage`, `db/migrations` | `rate_samples`, `alerts` | upsert sample, insert alert, list | pool, server |
| Pool | `internal/storage/store.go` | connections | acquire, release, retire, close | lock and statements |
| Fetchers | `internal/fetcher` | a cached RPC client | `FetchOfficial`, `FetchMarket` | remote services |
| Notifier | `internal/alerting` | none | `Notify` | Telegram |
| Watch command | `internal/app/app.go` | the process, its signal context | `Run` | all of the above |
| Backfill command | `internal/app/backfill.go` | loop variable, counters | `Backfill` | service, lock, tables |
| Simulate command | `internal/app/simulate.go` | none | `SimulateAlert` | service without a store |
| Export command | `internal/app/export.go` | two files | `Export` | tables, disk |
| Configuration | `internal/config` | the loaded configuration | `Load`, `Validate`, `ResolveMaxPoints` | all |
| Command line | `internal/cli`, `internal/app` | flags, the open pool, the exit status | load, check flags, open, wire, run, close | all |
| Show command | `internal/app/show.go` | none | `Show` | tables, pool |
| Logging, sqlc | `internal/logging`, `internal/storage/sqlc` | none | | |

What is hard in it, and what makes each part correct:

* **Scheduler.** It relates two clocks, one of which can be set, and never
  compares a new instant with the last bucket. Right means: ticks in order, none
  replayed, none run long after its bucket, every wait ends, a signal stops it.
* **Lock.** It belongs to a server session that may end unnoticed, is reentrant,
  and its unlock may fail without anyone being told. Right means: exclusion,
  every acquisition given back unless a fault is to blame, never stuck for ever.
* **Service.** It reads rates, and much later writes them; five remote calls may
  each fail, and three of the failures are only logged. Right means: exclusive
  execution, no older sample over a newer one, the connection always returned,
  an alert exactly on the second breach in a row, told once, and notifications
  on record, with rows that still show a breach after rounding.
* **Fetchers.** The official rate is read at the latest block and the block's
  number asked for afterwards, from an endpoint with several nodes behind it.
  Right means: a sample names a block that is not older than its rate by more
  than the nodes' lag.
* **Backfill.** It shares lock and rows with a live watcher and counts a skipped
  bucket as processed. Right means: each bucket of the half-open period once, and
  a success that leaves no hole but those of skipped calls and logged failures.
* **Export.** Arithmetic on windows and indices at their limits, and a buffered
  file on a disk that may be full.
* **Configuration and command line.** Three sources of settings, optional parts
  wired as interfaces, a pool that is closed on every way out. Right means: what
  is wired meets the assumptions the other modules make, whatever was configured;
  dry runs stay away from the database; every command ends, but for a backfill
  with a pool too small for its calls.

The hazards, each at its line and with the properties aimed at it, are in
`PROJECT.json`.

## Modules

| Module | Models | Kind |
|---|---|---|
| `TickSource` | what the scheduler promises the tick function | abstract specification |
| `Scheduler` | `scheduler.Run` | component, implements `TickSource` |
| `AdvisoryLock` | `TryAdvisoryLock`, unlock, pool and server | component, and the protocol `Watcher` implements |
| `Storage` | the two tables and their statements | operators on `samples` and `alerts` |
| `Listing` | `ORDER BY bucket_ts` | operators without state |
| `Remotes` | replies of the three remote services | operators without state |
| `Service` | `ProcessBucket`, in any number of processes | composes `AdvisoryLock`, `Storage`, `Remotes` |
| `Watcher` | `usdewatcher run` on several hosts | composes `Service` with ticks, signals, crashes |
| `Backfill` | `usdewatcher backfill` beside watchers | composes `Watcher` with the loop |
| `Simulate` | `usdewatcher simulate-alert` | composes `Service` with one call |
| `Export` | `usdewatcher export` beside writers | component on `Storage` and `Listing` |
| `Configuration` | settings and what pool, clients, notifier and service make of them | operators without state |
| `Commands` | one invocation of the binary, `show` included | component on `Configuration` and `Listing` |
| `SchedulerProofs`, `AdvisoryLockProofs`, `CommandsProofs`, `ExportProofs` | | theorems about one component |
| `ListingProofs` | | what `Listing` returns; `CommandsProofs` and `ExportProofs` build on it |
| `WatcherProofs`, `AlertProofs` | | theorems about `Watcher`: lock and types; alerts and records |
| `BackfillProofs` | | theorems about `Backfill`, on top of those about `Watcher` |
| `MC*` | | constants for TLC |

Definitions introduced by a comment "A variant ..." are the code with a plausible
mistake in it. No specification uses them; each is substituted for the definition
after it to see that a property notices.

### State and code

* **Scheduler.** `pc` says where `Run` stands: before the startup timer, before
  the first `nextTick`, at the top of the loop, between the two readings of an
  overrun, between the new instant and its delay, in `select`, in the tick.
  `next` and `timer` are the local variables. `wall` is the UTC clock, `mono` the
  one timers count on. `time.Now().UTC()` has no monotonic reading, so `next` is
  a wall reading in either mode and `time.Until` compares wall readings. Both
  modes and all startup delays are behaviours of one specification (`opts`).
  `back`, `forth`, `lag` and `rewound` observe the environment.
* **AdvisoryLock.** A session is a process with one of its connections. `owner`
  and `depth` are the server's; `lockConn` and `held` are what the process knows.
  An unlock ends in one of four ways: done, timed out (pgx closes the connection
  and the lock is an orphan till the server notices), rejected with the session
  alive (the pooled session keeps the lock), or after the session was lost.
* **Service.** `pc[p]` is the remote call that process `p` has outstanding; an
  action is the arrival of its outcome, with all the code up to the next call.
  A call begun before a cancellation may still succeed, one begun after it fails
  (`ctx`: live, cancelled, done). A failed upsert or insert may have taken effect.
  `rateBlock`, `previous`, `clean` and `overtaken` are observers.
* **Storage.** Percentages are integers; `ColumnUnit` of them are one unit of a
  column's last place and `ColumnLimit` is what the column cannot hold. Rows hold
  rounded values, the comparison with the threshold uses unrounded ones, and a
  value out of range makes the statement fail.
* **Listing.** The rows of a statement are the sequence in which a row stands
  at the place its rank gives it, one more than the rows before it.
* **Remotes.** A reply names the step that failed or holds the answer. `head` is
  the chain's latest block; a node may answer as of any block up to `ReplicaLag`
  behind it, and another node may answer the next call.
* **Watcher.** `Tick` is the scheduler calling `ProcessBucket`: for later and
  later buckets and never for one the clock has not reached, which is what
  `TicksInOrder` and `TickOnTime` say of `Scheduler`. Each host has a clock,
  `behind` the foremost one by up to `HostSkew` buckets, which the environment may
  set (`StepHostClock`); a loop that reads it on both sides of a step back, in an
  overrun, goes back too (`rewound` in `Scheduler`). A new process knows nothing
  but that clock: its first tick is for the boundary after `HostBucket`. `setBack`
  observes. A crash lets the statement or message under way take effect or not,
  and frees or orphans the lock.
* **Configuration, Commands.** A setting is an integer or malformed, a text is
  empty (0) or not, and `Keys` are those that steer the program. `Settings` is
  viper's order: a variable of the environment (only of a key that the file or the
  defaults know), file, default, zero. `int32(max_open_conns)` wraps at `IntWidth`
  bits. A service is the record of what `service.New` is given; a `*Store` that is
  nil inside an interface is a value of its own ("empty"), which the code must
  avoid. `pc` is the step of the invocation, `borrowed` says that a query has a
  connection, and `Exit` waits for it as `pgxpool.Pool.Close` does.
  `WaitsForItself` are the states of a backfill whose calls take a lock from a
  pool of one connection, which is what 33 comes to in five bits.
* **Backfill.** Time is counted in units, so that periods may begin and end off
  the boundaries; `cursor` is the loop variable in buckets. `gaps` observes the
  buckets whose call was refused the lock or had a statement that failed.
* **Export.** A row is its bucket. `pending`, `buffer` and `csv` are the rows not
  written, in the writer's buffer, and on the disk. The default window is as long
  as the negated int64 product says, which fits where the product itself would
  not: 16 points of two units in six bits. Where the float64 product in
  `downsampleSamples` lies half-way between two rows the model takes either. With
  `--max-points 1` and more than one row the index is `int(NaN)`: out of range
  and a panic on amd64, row zero on arm64; the model has both.

## Runs

| Run | Checks | Instance |
|---|---|---|
| `scheduler` | `TypeOK` `TicksInOrder` `TickOnTime` `ResumesAtFirstBoundary` `WaitEnds` | interval 3, both modes, startup delay 0 and 1, two steps of the clock out of -4, -1, +2, lag 1, nine units |
| `advisory_lock` | `TypeOK` `MutualExclusion` `DepthAccounted` `LockEventuallyFree` | two processes, two connections, two faults, one lost session |
| `watch_safety` | `TypeOK` `ExecutionExclusive` `ConnReturned` `NotificationIsOnRecord` `NoStaleOverwrite` `LockProtocol` | two watchers on hosts whose clocks may differ by a bucket, two buckets, one signal or crash, one lost session |
| `watch_alerts` | `AlertRowsShowBreach` `SampleNamesItsBlock` `NotifiedOncePerHost` `AlertConfirmed` `TickCompletes` `SignalStops` | one watcher, three buckets, a clock up to one bucket behind, one signal, crash or step of that clock in either direction, three blocks and a lag of one, deviations 0 and on either side of the threshold (9, 10) and of the column (-20) |
| `backfill` | `BackfillTypeOK` `PeriodCovered` `SuccessIsStored` `NoStaleOverwrite` `BackfillTerminates` | one backfill, one watcher that does not alert, two buckets, two deviations, all periods on and off boundaries |
| `commands` | `TypeOK` `ServiceMeetsAssumptions` `AlertsHaveAddressee` `DryRunStoresNothing` `ShowsNewest` `CommandEnds` | six commands with good and bad flags, 21 files, ten environments, counts of five bits, all sets of three samples, limits of 0, 2 and too many |
| `export` | `TypeOK` `ExportSpansWindow` `ExportIsEven` `DefaultWindowIsWhole` `CSVIsPrefix` `OldFilesKept` | all sets of six buckets, seven point limits, durations of six bits, a buffer of two rows |
| `alert_not_emitted` | `RecordedAlertsEmitted` fails | a failed notification leaves its row |
| `pool_of_one` | `TickCompletes` fails | `max_open_conns: 1` |
| `simulate_silent` | `SimulationReachesNotifier` fails | one simulated breach |
| `export_flush_lost` | `SuccessIsWritten` fails | the disk is full at the last flush |
| `environment_ignored` | `EnvironmentIsHeard` fails | a variable names the database, the file has no such key |

The last five state what a comment or the help text says of the program and show
a behaviour of the code that differs; `PROJECT.json` quotes the lines under
"findings". One more needs no run: `alerting.cooldown` (30 minutes in
`config.example.yaml`) is loaded and never read, so that, as `AlertConfirmed`
says, every breach from the second in a row on raises an alert.

### Bounds, and why they are enough

* Interval 3 has a boundary, an instant just before and one just after it; a step
  of -4 goes back over a boundary and -1 need not. Two steps suffice to have one
  in the wait and one between the readings of an overrun. `Horizon` bounds when a
  wait may begin, not when it ends, so every wait can be seen to end.
* Two processes and two connections make every conflict over the lock; a leaked
  lock needs one fault and one further connection. Processes and connections are
  interchangeable where the run checks safety only, hence the symmetry.
* A second breach needs two buckets, and a calm sample between breaches three;
  `watch_alerts` has three, and one incident: a crash in any call with a restart, a
  signal, or a step of the clock with all that follows from it. Two incidents, such
  as a crash and a clock that is set before the restart, are beyond five minutes of
  TLC; `ToldOnce` and the other theorems cover any number. The threshold 9 and columns that count in eights up to 16 make a calm
  deviation of 9 and a breach of 10 both round to the threshold's 8, and -20 not
  fit. With three blocks and a lag of one the number asked for can be older than
  the rate's block, the same or newer, by more than the lag.
* A file with one unusual setting under an environment with another makes every
  pair of them, and every order of precedence.
* Six rows and limits of two to four exercise steps that are whole, half and
  neither; 20 and 36 points overflow six bits to a window of negative and of
  positive length, and 16 points just do not.
* Numbers called `Max...`, and `Horizon` and `LastBucket`, only bound the
  exploration: the code has no such limits. The proofs are for all values.

TLC is told not to look for deadlocks where the system may stop: a scheduler that
returned, time that ended, a command that is done.

### Fairness

* *Scheduler*: time advances, the goroutine gets the CPU, and the tick function
  returns, which `TickCompletes` shows. Cancellation needs no fairness here: that a
  signalled process stops is `SignalStops`, about `Watcher`.
* *AdvisoryLock*: the server answers and notices dead clients; the pool's health
  check sees idle connections only, so retiring one is strongly fair.
* *Watcher*: HTTP clients and the unlock have timeouts, statements end with their
  connection. A statement that waits for a pooled connection has no timeout and
  gets none: that is how `pool_of_one` shows up. `select` picks at random among
  ready cases, so a cancellation that stays ready is not passed over for ever:
  strong fairness for `Shutdown`. Nothing makes a signal, a crash, a restart, a
  step of the clock or a refusal happen.
* *Backfill*: the command's own steps.
* *Commands*: the steps of the invocation, save two waits. `run` waits for a
  signal, which no fairness makes arrive. `backfill` may wait for ever for the
  connection that its own lock holds (`WaitsForItself`): its context is never
  cancelled and a request for a connection has no deadline, so no fairness ends it
  and `CommandEnds` excepts it. Of the rest, HTTP clients have timeouts that are
  positive (`ServiceMeetsAssumptions`). Statements of `backfill`, `show` and
  `export` have none: that they end assumes a database which answers or whose
  connection breaks.

## Proofs

For all processes, connections, buckets, rates, intervals and bounds that meet
the named assumptions (the interval is positive, model values differ from what
they stand beside, locking processes have a store). Every safety property that a
passing run checks is also a theorem, and so is every one of `Watcher`'s for the
composition with a backfill.

* `SchedulerProofs`: `Typing`; `TicksAreInOrder`, that `Scheduler` implements
  `TickSource`; `ResumesAtFirst`. `TicksInOrder` is not inductive: nothing in a
  state with `pc = "waiting"` says that `next` is later than `bucket`. `IInv` adds
  it (`Order`), for every point of the loop, as `bucket + Interval <= next`; and
  `Passed`, that an overrun once seen stays true, since the code reads the clock
  again. The arithmetic rests on `TruncateBounds` and `NextTickBounds`.
  `TicksAreOnTime` needs `Timing`: since a wait began, the clocks have drifted
  apart by no more than the steps seen, and once the timer could fire only `lag`
  adds to that; and in aligned mode `next` is a boundary, so that the bucket is it.
* `AdvisoryLockProofs`: `Typing`, `Exclusion`, `Accounting`. Exclusion follows
  from `HoldersOwn`: who holds the lock with a live session is the server's
  owner, at depth one at least. `Accounting` needs it too, because an unlock must
  not lower a count that another session has raised.
* `WatcherProofs`: `FollowsLockProtocol`, that every step of `Watcher` is a step
  of `AdvisoryLock` or leaves the lock alone; hence the lock's theorems hold of
  the program. `ExclusiveExecution` and `ConnIsReturned` follow with `CallInv`,
  which relates where each call stands to what it has of the lock.
  `Typing`: `TypeOK` is not inductive, since a call that stores needs a bucket and
  a deviation to store, and which calls have them is in `TypeInv`, on top of
  `CallInv`.
* `AlertProofs`: `Confirmed` needs `CountInv`: the counter is at least one
  exactly if the deviation evaluated last is a breach. `ToldOnce` needs
  `OnceInv`: as long as a host's clock has not been set back, a bucket told of is
  not later than the host's last tick, that tick is not later than the clock, so
  that a new process begins after it, and a call that has not come to its
  notification has not told of its bucket. The premise is needed: a clock set back
  over a restart, or between the two readings of an overrun, makes the host live
  through boundaries again. `OnceInv` speaks of the processes that alert, and says
  that only they come to a notification: a backfill visits buckets in an order of
  its own.
  `BlockNamed` needs `BlockInv`, from the two calls' order. `RecordsShowBreach`
  rests on `UnitsMonotone`, that rounding is monotone, by `DivideMonotone` on
  integer division. `SamplesGetNewer` and `ToldIsOnRecord` are one argument. As
  long as no session is lost, no other process executes while one does, so nobody
  overtakes it between its rates and its sample (`RecordInv`), nor changes its
  rows before it tells of them. Both assume that every process which stores also
  locks (`Storing \subseteq Locking`, a lock key that is not zero everywhere): one
  instance configured with key 0 breaks both.
* `BackfillProofs`: `CoversPeriod` needs `LoopInv`, that the cursor is the first
  bucket plus what was counted and has not run past the period by more than one
  bucket; `BackfillTyping` follows from it too. `SuccessMeansStored` needs
  `StoredInv`, what each label of the backfill's call says of its row as long as
  that bucket is no gap, and that no step takes a row away (`RowsStay`). Then the composition: every step of it is
  one the watchers could take, or begins a call of the loop, or ends it
  (`StepCases`), and the last two leave alone what the invariants about alerts
  speak of (`LoopMoves`, `AlertsBackfill`). So every safety theorem about `Watcher`
  holds beside a backfill: `BesideTyping`, `BesideFollowsProtocol`,
  `BesideExclusive`, `BesideConnReturned`, `BesideToldOnce`, `BesideBlockNamed`,
  `BesideConfirmed`, `BesideShowsBreach`, and, again if all that store take the
  lock, `BackfillKeepsNewer` and `BackfillKeepsRecord`. The `backfill` run checks
  only the first of these two: its watcher does not alert, which keeps it small.
* `CommandsProofs`: from the invariant that after loading the settings are those of
  file, environment and defaults and are valid, and that a pool is open only for a
  command that opens one: `ServiceIsUsable`, `AddresseeKnown`, `DryRunIsDry`,
  for any files, environments and flags. `Outcome` adds that
  only a query under way has a connection, and that what `show` printed is what the
  statement lists for a limit the flags were checked for: `CommandTyping`;
  `NewestAreShown`, by `NewestListed` on the cut and reversed listing; and
  `ClosingNeverWaits`, that no way of returning meets a connection that is still
  out, which is why the deferred `Close` of the pool does not hang once a command's
  function returns; that it returns is for TLC to check.
* `ListingProofs`: `ListingIsSorted`. The ranks of a finite set's elements differ
  and lie below its size, so the map from elements to places is an injection between
  sets of one size and reaches every place. This takes the place of an induction
  over the set, which a recursive definition of sorting would need.
* `ExportProofs`: `ExportTyping`, `FileInOrder`, `EarlierFilesKept`,
  `WindowIsSpanned`, `RowsAreEven`, `DefaultIsWhole`. None is inductive: they relate
  the rows chosen to tables that writers change and to flags read long before. The
  invariant keeps what the locals still know: the window is the wrapped product long
  (`WindowInv`), what was read ascends within it (`ReadInv`), what was chosen is one
  of the results `downsampleSamples` may have (`RowsInv`), and file, buffer and rest
  add up to it (`FileInv`). Evenness: an index is within half a row of its exact
  place (`NearestIsClose`), so two gaps differ by two rows at most, and by two only
  if all exact places are rows, when all gaps are the same (`CloseToRow`,
  `EvenGaps`); rows that ascend are counted by their indices (`SkippedRows`). `FileInOrder` needs facts on
  concatenation only. `DefaultIsWhole` assumes that samples lie on multiples of the
  interval, which is what `bucketStart` and `alignForward` produce: `align_to_bucket`
  is set by default, and a host that clears it, or an interval that is changed,
  may leave more samples in a window than it has points. `PowerAssumption`, that a
  power of two is positive, is there because the provers have no rule for
  exponents; TLC evaluates it.

Only model-checked: the liveness properties `WaitEnds`, `LockEventuallyFree`,
`TickCompletes`, `SignalStops`, `BackfillTerminates` and `CommandEnds`, since the
provers have no rule here for fairness and ENABLED; and the five runs that expect a violation, which are counterexamples. No module declares a
RECURSIVE operator.

## Not modelled

Logging and build strings (no state that anything reads), the generated sqlc
package and the statements without a caller (`MarkSampleErrored`, `CountSamples`,
`ListRecentAlerts`, `DeleteAlertsBefore`): no behaviour of the program runs them,
so a model would have nothing to be faithful to. Left out of what is modelled:
the text of messages, the table of `show`, the CSV's columns and the chart's
looks, the parsing of rows (`scanRateSample`) beyond its failing, and requests'
contents. A failed statement takes effect with its failure at the latest: one that
the server executes later still, after its cancelled connection was closed and its
call freed the lock on another one, is left out, and `NoStaleOverwrite` and
`NotificationIsOnRecord` do not cover it. `max_idle_conns` and the connections' lifetime only tune the pool; that
connections retire is in `AdvisoryLock`. `--workers` is read and ignored. The
RPC client is dialled once and kept; over HTTP a dial sends nothing, and the
model's "dial" failure covers a URL that does not parse.

## Plan

Modelled first was what runs unattended: scheduler, lock, service, watcher; then
the commands that share its state; then the chain, the columns' scale, the
configuration and the invocation, with the proofs of types, alerts and records.
What is left, in this order:

1. Across the tables: every alert belongs to a sample, which the foreign key
   promises and `InsertAlert` relies on, for `Watcher` and `Backfill`.
2. That the ticks `Watcher` gives a process between two starts are those
   `TickSource` promises, as a theorem and not only by the words of both modules.
3. `Simulate`: that it stores nothing and takes no lock, from the invariants of
   `Watcher`.
