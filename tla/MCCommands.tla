------------------------------ MODULE MCCommands -------------------------------
(* Constants for checking Commands with TLC. *)
EXTENDS Commands

\* The example configuration, which sets what has no default.
Example == [dsn |-> 1, alerting |-> 1, telegram |-> 1, bot_token |-> 1, chat_id |-> 1]

\* A setting that is unusual: absent, malformed, zero, negative, or too large
\* for a pool's five-bit count.
Unusual ==
    {[dsn |-> 0], [dsn |-> Malformed], [alerting |-> 0], [telegram |-> 0],
     [bot_token |-> 0], [chat_id |-> 0], [interval |-> 0], [interval |-> -5],
     [interval |-> Malformed], [max_open_conns |-> 0], [max_open_conns |-> 31],
     [max_open_conns |-> 33], [advisory_lock_key |-> 0], [threshold_pct |-> 0],
     [threshold_pct |-> -1], [notional_usde |-> 0], [max_data_points |-> 0],
     [ethereum_timeout |-> 0], [cow_timeout |-> -1]}

\* The settings of f, and of g what f does not say.
Over(f, g) == [k \in DOMAIN f \cup DOMAIN g |-> IF k \in DOMAIN f THEN f[k] ELSE g[k]]

\* A file is empty, or the example with at most one unusual setting.
MCFiles == {<<>>, Example} \cup {Over(u, Example) : u \in Unusual}

\* The environment is empty, names the database, or has such a setting too.
MCEnvironments ==
    {<<>>, [dsn |-> 1], [dsn |-> 0], [bot_token |-> 1], [chat_id |-> 0],
     [telegram |-> 0], [interval |-> 0], [interval |-> Malformed],
     [max_open_conns |-> 33], [cow_timeout |-> -1]}

Plain(c) == [command |-> c, from |-> 3, to |-> 9, dryRun |-> FALSE, outputs |-> TRUE,
             rates |-> TRUE, limit |-> 2]

\* Every command as it should be called, and with one flag that is not.
MCArguments ==
    {Plain(c) : c \in {"run", "version", "backfill", "simulate-alert", "show", "export"}}
      \cup {[Plain("backfill") EXCEPT !.from = t] : t \in {NotGiven, Malformed, 9, 6}}
      \cup {[Plain("backfill") EXCEPT !.dryRun = TRUE],
            [Plain("simulate-alert") EXCEPT !.rates = FALSE],
            [Plain("show") EXCEPT !.limit = 0], [Plain("show") EXCEPT !.limit = 9],
            [Plain("export") EXCEPT !.to = Malformed],
            [Plain("export") EXCEPT !.outputs = FALSE]}
===============================================================================
