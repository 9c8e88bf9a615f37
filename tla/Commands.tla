------------------------------- MODULE Commands --------------------------------
(***************************************************************************)
(* One invocation of the usdewatcher binary: internal/cli reads the        *)
(* configuration and checks the flags, internal/app opens the database,    *)
(* wires a service and runs it or a query, and what was opened is closed.  *)
(* What a service does is in Watcher, Backfill and Simulate, and what an   *)
(* export does is in Export; here their outcome is left open.              *)
(*                                                                         *)
(* `run` has its signals delivered to a context from the moment App.Run is *)
(* called; any other command, and `run` before that, is killed by one.     *)
(***************************************************************************)
EXTENDS Configuration, Listing, SequencesExt

CONSTANTS
    NoFile, BadFile,   \* there is no configuration file; it does not parse
    Files,             \* contents of a configuration file
    Environments,      \* variables, as functions on the keys they are for
    Arguments,         \* flags: see Flags
    NotGiven,          \* a flag that was not given
    Samples,           \* bucket times
    MaxLimit           \* the most rows a slice can be made for

ASSUME SettingsAssumption ==
    /\ \A f \in Files \cup Environments :
         /\ DOMAIN f \subseteq Keys
         /\ \A k \in DOMAIN f : f[k] \in Int \cup {Malformed}
    /\ {NoFile, BadFile} \cap Files = {}
ASSUME SamplesAssumption == Samples \subseteq Nat /\ IsFiniteSet(Samples)
ASSUME LimitAssumption == NotGiven \notin Nat /\ MaxLimit \in Nat

\* from, to: timestamps; dryRun: backfill; outputs: export names a file; rates:
\* simulate-alert's are positive; limit: show.
Flags == [command : {"run", "backfill", "simulate-alert", "show", "export", "version"},
          from : Nat \cup {NotGiven, Malformed}, to : Nat \cup {NotGiven, Malformed},
          dryRun : BOOLEAN, outputs : BOOLEAN, rates : BOOLEAN, limit : Int]

ASSUME ArgumentsAssumption == Arguments \subseteq Flags

VARIABLES
    args,              \* the command and its flags
    file, named,       \* the configuration file; --config names it
    env,               \* the environment
    stored,            \* buckets that have a row in rate_samples
    pc,                \* the step that is next
    config,            \* appHandle.Config, once loaded
    pool,              \* "none", "open" or "closed"
    service,           \* the service, once wired
    borrowed,          \* a query has a connection of the pool
    shown,             \* buckets of the rows that show prints
    signalled,         \* a signal has arrived
    result             \* what the command returned, or how the process ended

inputs == <<args, file, named, env, stored>>
vars == <<inputs, pc, config, pool, service, borrowed, shown, signalled, result>>

Init ==
    /\ args \in Arguments
    /\ file \in Files \cup {NoFile, BadFile}
    /\ named \in BOOLEAN
    /\ env \in Environments
    /\ stored \in SUBSET Samples
    /\ pc = "load"
    /\ config = <<>>
    /\ pool = "none"
    /\ service = <<>>
    /\ borrowed = FALSE
    /\ shown = <<>>
    /\ signalled = FALSE
    /\ result = "none"

\* The command's function returns, and what it deferred is next.
Return(r) == pc' = "returning" /\ result' = r
Continue(label) == pc' = label /\ UNCHANGED result

-------------------------------------------------------------------------------
(* PersistentPreRunE: config.Load, for every command. *)

\* A file that is not there is an error only if --config names it.
Readable == IF file = NoFile THEN ~named ELSE file # BadFile

Contents == IF file = NoFile THEN <<>> ELSE file

Load ==
    /\ pc = "load"
    /\ LET c == Settings(Contents, env) IN
         IF Readable /\ Decodes(c) /\ Valid(c)
         THEN config' = c /\ Continue("flags")
         ELSE UNCHANGED config /\ Return("error")
    /\ UNCHANGED <<inputs, pool, service, borrowed, shown, signalled>>

-------------------------------------------------------------------------------
(* RunE: the checks of internal/cli and those with which the methods of App  *)
(* begin.                                                                    *)

IsTime(t) == t \notin {NotGiven, Malformed}

\* alignForward
AlignForward(t) ==
    IF t % config.interval = 0 THEN t
    ELSE t - (t % config.interval) + config.interval

\* backfill: a period that has a boundary in it.
AcceptsPeriod ==
    /\ IsTime(args.from) /\ IsTime(args.to) /\ args.from < args.to
    /\ AlignForward(args.from) < args.to

\* simulate-alert: rates, and somebody to alert.
AcceptsRates == args.rates /\ config.alerting # 0 /\ config.telegram # 0

\* export: a window, if any, and a file to write.
AcceptsOutputs == Malformed \notin {args.from, args.to} /\ args.outputs

\* show
AcceptsLimit == args.limit > 0

Accepted ==
    /\ args.command = "backfill" => AcceptsPeriod
    /\ args.command = "simulate-alert" => AcceptsRates
    /\ args.command = "export" => AcceptsOutputs
    /\ args.command = "show" => AcceptsLimit

\* A variant that opens the database for a dry run too.
OpensAlways == args.command # "simulate-alert"

\* Simulations and dry runs do without the database.
Opens == args.command # "simulate-alert" /\ ~(args.command = "backfill" /\ args.dryRun)

CheckFlags ==
    /\ pc = "flags"
    /\ IF ~Accepted THEN Return("error")
       ELSE IF args.command = "version" THEN Return("ok")
       ELSE Continue(IF Opens THEN "open" ELSE "wire")
    /\ UNCHANGED <<inputs, config, pool, service, borrowed, shown, signalled>>

-------------------------------------------------------------------------------
(* The methods of App. *)

\* openStore.  Without a DSN there is no store; only `run` goes on then.
OpenStore ==
    /\ pc = "open"
    /\ IF config.dsn = 0
       THEN /\ IF args.command = "run" THEN Continue("wire") ELSE Return("error")
            /\ UNCHANGED pool
       ELSE IF PoolOpens(config)
       THEN /\ pool' = "open"
            /\ Continue(IF args.command \in {"show", "export"} THEN "query" ELSE "wire")
       ELSE Return("error") /\ UNCHANGED pool
    /\ UNCHANGED <<inputs, config, service, borrowed, shown, signalled>>

\* A variant that assigns the nil *Store to the interface.
StoreUnguarded ==
    IF pool = "open" THEN "open" ELSE IF args.command = "run" THEN "empty" ELSE "absent"

\* The store handed to service.New; App.Run leaves the interface nil when
\* there is no store.
Store == IF pool = "open" THEN "open" ELSE "absent"

\* service.New, with what each command gives it.
Wire ==
    /\ pc = "wire"
    /\ \/ /\ args.command = "run"
          /\ service' = NewService(config, "aligned", Store, Store,
                                   Notifier(config), RemoteTimeouts(config))
       \/ /\ args.command = "backfill"
          /\ service' = NewService(config, "absent", Store, "absent", "absent",
                                   RemoteTimeouts([config EXCEPT !.telegram = 0]))
       \/ /\ args.command = "simulate-alert"
          /\ service' = NewService(config, "absent", "absent", "absent",
                                   Notifier(config), {Timeout(10)})
    /\ Continue("serve")
    /\ UNCHANGED <<inputs, config, pool, borrowed, shown, signalled>>

\* App.Run: the scheduler stops for a signal only.  It returns the context's
\* error, which App.Run does not pass on.
RunStops ==
    /\ pc = "serve" /\ args.command = "run"
    /\ signalled
    /\ Return("ok")
    /\ UNCHANGED <<inputs, config, pool, service, borrowed, shown, signalled>>

\* Backfill's loop is over, some buckets may have failed, or the simulated
\* call has returned: it cannot fail.
JobEnds ==
    /\ pc = "serve" /\ args.command # "run"
    /\ Return("ok") \/ (args.command = "backfill" /\ Return("error"))
    /\ UNCHANGED <<inputs, config, pool, service, borrowed, shown, signalled>>

\* A variant in the order of the index.
OldestSamples(limit) ==
    LET all == Ascending(stored)
    IN  SubSeq(all, 1, IF limit < Len(all) THEN limit ELSE Len(all))

\* listRecentSamplesSQL: ORDER BY bucket_ts DESC LIMIT $1
ListRecentSamples(limit) ==
    LET all == Reverse(Ascending(stored))
    IN  SubSeq(all, 1, IF limit < Len(all) THEN limit ELSE Len(all))

\* Show and Export begin their query, or the statement fails.
Query ==
    /\ pc = "query"
    /\ \/ Return("error") /\ UNCHANGED borrowed
       \/ Continue("reading") /\ borrowed' = TRUE
    /\ UNCHANGED <<inputs, config, pool, service, shown, signalled>>

\* A variant that leaves the rows to close themselves at their end.
CloseRowsAtEnd(r) == borrowed' = (r # "ok")

\* The deferred rows.Close, which also runs when the function panics.
CloseRows(r) == borrowed' = FALSE

\* A row does not decode; Show prints what it has read, into a slice that was
\* made for as many rows as --limit allows; Export ends in one way or another.
Read ==
    /\ pc = "reading"
    /\ \/ Return("error") /\ UNCHANGED shown
       \/ /\ args.command = "show"
          /\ IF args.limit <= MaxLimit
             THEN Return("ok") /\ shown' = ListRecentSamples(args.limit)
             ELSE Return("panic") /\ UNCHANGED shown
       \/ /\ args.command = "export"
          /\ Return("ok") \/ Return("panic")
          /\ UNCHANGED shown
    /\ CloseRows(result')
    /\ UNCHANGED <<inputs, config, pool, service, signalled>>

\* The deferred closeStore, which also runs when the command panics, waits
\* until the pool has all its connections back.  Then Execute ends the process,
\* with status 0 only for a result of "ok".
Exit ==
    /\ pc = "returning"
    /\ ~borrowed
    /\ pool' = IF pool = "open" THEN "closed" ELSE pool
    /\ pc' = "done"
    /\ UNCHANGED <<inputs, config, service, borrowed, shown, signalled, result>>

-------------------------------------------------------------------------------
\* SIGINT or SIGTERM: App.Run's context is cancelled, or the process dies.
Signal ==
    /\ pc # "done" /\ ~signalled
    /\ signalled' = TRUE
    /\ IF args.command = "run" /\ pc \notin {"load", "flags"}
       THEN UNCHANGED <<pc, pool, borrowed, result>>
       ELSE pc' = "done" /\ pool' = "none" /\ borrowed' = FALSE /\ result' = "killed"
    /\ UNCHANGED <<inputs, config, service, shown>>

Step ==
    \/ Load \/ CheckFlags \/ OpenStore \/ Wire
    \/ RunStops \/ JobEnds \/ Query \/ Read \/ Exit

Next == Step \/ Signal

Spec == Init /\ [][Next]_vars

\* The lock of a bucket has the only connection of the pool, which has no
\* deadline, and Backfill's context is never cancelled (pool_of_one).
WaitsForItself ==
    /\ pc = "serve" /\ args.command = "backfill"
    /\ Locks(service) /\ PoolSize(config) = 1

\* Every other step ends.  HTTP clients have timeouts; statements and requests
\* for a connection have none, so this is as good as the database: it answers,
\* or the connection breaks.  The loop of `run` waits for a signal, which also
\* ends a request for a connection.
FairSpec == Spec /\ WF_vars(Step /\ ~WaitsForItself)

-------------------------------------------------------------------------------
(* Properties. *)

Serving == pc = "serve"

\* Type invariant of an invocation.
TypeOK ==
    /\ pc \in {"load", "flags", "open", "wire", "serve", "query", "reading", "returning",
           "done"}
    /\ pc \in {"flags", "open", "wire", "serve", "query", "reading"} =>
         /\ config \in [Keys -> Int \cup {Malformed}]
         /\ config.interval \in Nat \ {0}
    /\ pool \in {"none", "open", "closed"}
    /\ borrowed \in BOOLEAN
    /\ signalled \in BOOLEAN
    /\ result \in {"none", "ok", "error", "panic", "killed"}

\* Whatever the file, the environment and the flags say, a service that runs
\* is one of those that Scheduler, Service, Backfill and Simulate assume: with
\* a positive interval if a scheduler drives it, with a pool behind a store
\* that is not nil, locking only with a store, recording alerts only where it
\* records samples, and with no remote call that could wait for ever.
ServiceMeetsAssumptions ==
    Serving =>
      /\ service.scheduler # "absent" <=> args.command = "run"
      /\ config.interval > 0
      /\ service.store # "absent" => pool = "open"
      /\ Locks(service) => service.store = "open"
      /\ service.alertStore # "absent" => service.store = "open"
      /\ Alerts(service) => service.threshold > 0
      /\ \A t \in service.timeouts : t > 0

\* A service that may alert has somebody to tell: the notifier it holds has a
\* token and a chat.
AlertsHaveAddressee ==
    Serving /\ Alerts(service) => config.bot_token # 0 /\ config.chat_id # 0

\* cli/backfill.go: "Run without writing to storage".  Neither a dry run nor a
\* simulation gets at the database.
DryRunStoresNothing ==
    \/ args.dryRun /\ args.command = "backfill"
    \/ args.command = "simulate-alert"
    => pool = "none" /\ (Serving => service.store = "absent")

\* When show succeeds, it has printed the newest samples, the newest first:
\* none that it left out is newer, and it leaves none out while there is room.
ShowsNewest ==
    result = "ok" /\ args.command = "show" =>
      LET Rows == {shown[i] : i \in 1 .. Len(shown)} IN
      /\ \A i, j \in 1 .. Len(shown) : i < j => shown[i] > shown[j]
      /\ \A s \in Rows, t \in stored \ Rows : s > t
      /\ Rows = stored \/ Len(shown) = args.limit

\* Every command ends, `run` once it is signalled, save a backfill that waits
\* for the connection of its own lock: closing the pool never waits for a
\* connection that nobody returns, however the query ended.
CommandEnds ==
    (args.command = "run" => signalled) ~> (pc = "done" \/ WaitsForItself)

-------------------------------------------------------------------------------
(* What the comments say of the configuration. *)

\* config.go: "Load builds configuration from file, environment, and defaults".
\* A variable that is not empty sets its key, as the one of
\* docker-compose.yaml is meant to name the database.
EnvironmentIsHeard ==
    pc = "flags" => \A k \in DOMAIN env : config[k] = env[k] \/ (k \in Texts /\ env[k] = 0)
===============================================================================
