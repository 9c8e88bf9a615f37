----------------------------- MODULE Configuration -----------------------------
(***************************************************************************)
(* Where the settings come from (internal/config/config.go) and what the   *)
(* program makes of them: the connection pool (internal/storage/store.go), *)
(* the remote clients, the notifier and the service (internal/app/app.go,  *)
(* internal/service/service.go).                                           *)
(*                                                                         *)
(* Settings are integers; of a text, zero is the empty one.                *)
(***************************************************************************)
EXTENDS Integers

CONSTANTS
    Malformed,         \* a value that its type, or a DSN's syntax, excludes
    IntWidth,          \* bits of pgxpool's connection counts (int32)
    DefaultConns       \* pgxpool's own choice of MaxConns

ASSUME MalformedAssumption == Malformed \notin Int
ASSUME PoolAssumption ==
    /\ IntWidth \in Nat \ {0}
    /\ DefaultConns \in 1 .. 2 ^ (IntWidth - 1) - 1

-------------------------------------------------------------------------------
(* Loading. *)

\* setDefaults: the keys that have a default, as far as they steer the program.
Default ==
    [max_open_conns |-> 10, interval |-> 5, advisory_lock_key |-> 7,
     ethereum_timeout |-> 10, cow_timeout |-> 10, notional_usde |-> 100,
     alerting |-> 0, threshold_pct |-> 4, telegram |-> 0, max_data_points |-> 100]

\* The keys that have none; all are texts.
Texts == {"dsn", "bot_token", "chat_id"}

Keys == DOMAIN Default \cup Texts

\* A variable is looked up only for a key that Unmarshal knows from the file
\* or the defaults, and one that is empty does not count.
Heard(k, file, env) ==
    /\ k \in DOMAIN env
    /\ k \in Texts => k \in DOMAIN file /\ env[k] # 0

\* Viper's order: environment, file, default, zero value.
Settings(file, env) ==
    [k \in Keys |-> IF Heard(k, file, env) THEN env[k]
                    ELSE IF k \in DOMAIN file THEN file[k]
                    ELSE IF k \in DOMAIN Default THEN Default[k]
                    ELSE 0]

\* Unmarshal: a text can be anything, the others have to be parsed.
Decodes(c) == \A k \in DOMAIN Default : c[k] # Malformed

\* A variant that looks at the bot token only.
ValidWithoutChat(c) ==
    /\ c.max_data_points > 0 /\ c.interval > 0 /\ c.notional_usde > 0
    /\ c.threshold_pct >= 0
    /\ c.telegram # 0 => c.bot_token # 0

\* A variant that accepts any interval.
ValidForAnyInterval(c) ==
    /\ c.max_data_points > 0 /\ c.notional_usde > 0 /\ c.threshold_pct >= 0
    /\ c.telegram # 0 => c.bot_token # 0 /\ c.chat_id # 0

\* Config.Validate
Valid(c) ==
    /\ c.max_data_points > 0
    /\ c.interval > 0
    /\ c.notional_usde > 0
    /\ c.threshold_pct >= 0
    /\ c.telegram # 0 => c.bot_token # 0 /\ c.chat_id # 0

-------------------------------------------------------------------------------
(* Building. *)

\* int32(n)
Int32(n) == LET half == 2 ^ (IntWidth - 1) IN ((n + half) % (2 * half)) - half

\* NewPool: MaxConns.
PoolSize(c) == IF c.max_open_conns > 0 THEN Int32(c.max_open_conns) ELSE DefaultConns

\* The DSN is parsed, and pgxpool refuses a pool without connections.  No
\* connection is made yet.
PoolOpens(c) == c.dsn # Malformed /\ PoolSize(c) >= 1

\* FetchOfficial, NewMarket and NewTelegramNotifier: a timeout that is not
\* positive is replaced by ten seconds.
Timeout(t) == IF t > 0 THEN t ELSE 10

\* newFetchers and newNotifier: how long each client's calls may take.
RemoteTimeouts(c) ==
    {Timeout(c.ethereum_timeout), Timeout(c.cow_timeout)}
      \cup (IF c.telegram # 0 THEN {Timeout(10)} ELSE {})

\* A *Store is wired as an interface value: "absent" is the nil interface,
\* "empty" an interface that holds a nil *Store, "open" one with a pool.
Stores == {"absent", "empty", "open"}

\* newNotifier; here the interface is nil or whole.
Notifier(c) == IF c.telegram # 0 THEN "telegram" ELSE "absent"

\* service.New
NewService(c, scheduler, store, alertStore, notifier, timeouts) ==
    [scheduler |-> scheduler,
     store |-> store,
     alertStore |-> alertStore,
     lockKey |-> c.advisory_lock_key,
     alertsOn |-> c.alerting,
     threshold |-> IF c.alerting # 0 /\ c.threshold_pct > 0 THEN c.threshold_pct ELSE 0,
     notifier |-> notifier,
     timeouts |-> timeouts]

\* acquireLock takes the lock: every store is an AdvisoryLocker too, the empty
\* one included.
Locks(s) == s.store # "absent" /\ s.lockKey # 0

\* executeBucket looks for breaches.
Alerts(s) == s.alertsOn # 0 /\ s.notifier # "absent" /\ s.threshold # 0
===============================================================================
