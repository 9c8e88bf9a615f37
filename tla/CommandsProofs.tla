---------------------------- MODULE CommandsProofs -----------------------------
(***************************************************************************)
(* Proofs about Commands, for any configuration files, environments, flags *)
(* and widths: what a wired service can rely on, who gets at the database, *)
(* what show prints, and that closing the pool does not wait.              *)
(***************************************************************************)
EXTENDS Commands, ListingProofs, SequenceTheorems

\* A setting is an integer or malformed, wherever it came from.
LEMMA SettingsType ==
    ASSUME NEW f \in Files \cup {<<>>}, NEW e \in Environments
    PROVE  Settings(f, e) \in [Keys -> Int \cup {Malformed}]
<1> DEFINE c == Settings(f, e)
<1>1. ASSUME NEW k \in Keys
      PROVE  c[k] \in Int \cup {Malformed}
  <2>1. \A j \in DOMAIN e : e[j] \in Int \cup {Malformed}
    BY SettingsAssumption DEF SettingsAssumption
  <2>2. CASE Heard(k, f, e)
    BY <2>1, <2>2 DEF Settings, Heard
  <2>3. CASE ~Heard(k, f, e) /\ k \in DOMAIN f
    <3>1. f \in Files \/ f = <<>>
      OBVIOUS
    <3>2. f \in Files
      BY <2>3, <3>1
    <3> QED
      BY <2>3, <3>2, SettingsAssumption DEF Settings, SettingsAssumption
  <2>4. CASE ~Heard(k, f, e) /\ k \notin DOMAIN f /\ k \in DOMAIN Default
    <3>1. Default[k] \in Int
      BY <2>4 DEF Default
    <3> QED
      BY <2>4, <3>1 DEF Settings
  <2>5. CASE ~Heard(k, f, e) /\ k \notin DOMAIN f /\ k \notin DOMAIN Default
    BY <2>5 DEF Settings
  <2> QED
    BY <2>2, <2>3, <2>4, <2>5
<1> QED
  BY <1>1 DEF Settings

\* What is accepted has numbers where the checks compare numbers.
LEMMA ValidSettings ==
    ASSUME NEW c \in [Keys -> Int \cup {Malformed}], Decodes(c), Valid(c)
    PROVE  /\ c.interval \in Nat \ {0}
           /\ c.threshold_pct \in Nat
           /\ c.ethereum_timeout \in Int /\ c.cow_timeout \in Int
           /\ c.telegram # 0 => c.bot_token # 0 /\ c.chat_id # 0
<1>1. \A k \in DOMAIN Default : c[k] \in Int
  BY DEF Decodes, Keys
<1>2. {"interval", "threshold_pct", "ethereum_timeout", "cow_timeout"} \subseteq DOMAIN Default
  BY DEF Default
<1>3. /\ c.interval \in Int /\ c.threshold_pct \in Int
      /\ c.ethereum_timeout \in Int /\ c.cow_timeout \in Int
  BY <1>1, <1>2
<1> QED
  BY <1>3 DEF Valid

\* Every client's timeout is positive.
LEMMA TimeoutsPositive ==
    ASSUME NEW c, c.ethereum_timeout \in Int, c.cow_timeout \in Int
    PROVE  \A t \in RemoteTimeouts(c) : t > 0
BY DEF RemoteTimeouts, Timeout

-------------------------------------------------------------------------------
(* The inductive invariant. *)

Loaded ==
    /\ config = Settings(Contents, env)
    /\ config \in [Keys -> Int \cup {Malformed}]
    /\ Decodes(config) /\ Valid(config)

AfterLoad == {"flags", "open", "wire", "serve", "query", "reading"}

Labels == AfterLoad \cup {"load", "returning", "done"}

\* What Wire hands out.
Wired ==
    /\ service.scheduler # "absent" <=> args.command = "run"
    /\ service.store = Store /\ service.alertStore \in {Store, "absent"}
    /\ service.threshold \in Nat
    /\ service.notifier # "absent" => config.telegram # 0
    /\ \A t \in service.timeouts : t > 0

Inv ==
    /\ args \in Flags
    /\ file \in Files \cup {NoFile, BadFile}
    /\ env \in Environments
    /\ pc \in Labels
    /\ pool \in {"none", "open", "closed"}
    /\ pc \in AfterLoad => Loaded
    /\ pc \in {"load", "flags", "open"} => pool = "none"
    /\ pc \in {"wire", "serve"} => pool \in {"none", "open"}
    /\ pc \in {"wire", "serve"} =>
         /\ args.command \in {"run", "backfill", "simulate-alert"}
         /\ args.command = "simulate-alert" => config.telegram # 0
    /\ pc = "open" => Opens /\ args.command # "version"
    /\ pool # "none" => Opens
    /\ pc = "serve" => Wired

Untouched == UNCHANGED <<inputs, config, pool, service>>

\* A step that only moves on keeps the invariant if the label does.
LEMMA MovesOn ==
    ASSUME Inv, Untouched,
           \/ pc' = "returning"
           \/ pc' = pc
           \/ pc = "query" /\ pc' = "reading"
    PROVE  Inv'
BY DEF Inv, Untouched, inputs, Loaded, Contents, Opens, Wired, Store, AfterLoad, Labels

\* Every step keeps the invariant.
LEMMA InvStep == Inv /\ [Next]_vars => Inv'
<1> SUFFICES ASSUME Inv, [Next]_vars PROVE Inv'
  OBVIOUS
<1> USE DEF Return, Continue
<1>1. CASE Load
  <2>1. CASE pc' = "returning"
    BY <1>1, <2>1, MovesOn DEF Load, Untouched
  <2>2. CASE pc' # "returning"
    <3>1. /\ pc = "load" /\ pc' = "flags"
          /\ config' = Settings(Contents, env)
          /\ Readable /\ Decodes(config') /\ Valid(config')
          /\ UNCHANGED <<inputs, pool, service>>
      BY <1>1, <2>2 DEF Load
    <3>2. Contents \in Files \cup {<<>>}
      BY <3>1 DEF Inv, Readable, Contents
    <3>3. config' \in [Keys -> Int \cup {Malformed}]
      BY <3>1, <3>2, SettingsType DEF Inv
    <3>4. Loaded'
      BY <3>1, <3>3 DEF Loaded, Contents, inputs
    <3> QED
      BY <3>1, <3>4 DEF Inv, inputs, Contents, Opens, AfterLoad, Labels
  <2> QED
    BY <2>1, <2>2
<1>2. CASE CheckFlags
  <2>1. CASE pc' = "returning"
    BY <1>2, <2>1, MovesOn DEF CheckFlags, Untouched
  <2>2. CASE pc' # "returning"
    <3>1. /\ pc = "flags" /\ pc' = (IF Opens THEN "open" ELSE "wire")
          /\ Accepted /\ args.command # "version"
          /\ UNCHANGED <<inputs, config, pool, service>>
      BY <1>2, <2>2 DEF CheckFlags
    <3>2. args.command = "simulate-alert" => config.telegram # 0
      BY <3>1 DEF Accepted, AcceptsRates
    <3>3. ~Opens => args.command \in {"backfill", "simulate-alert"}
      BY DEF Opens
    <3> QED
      BY <3>1, <3>2, <3>3 DEF Inv, Loaded, Contents, inputs, Opens, AfterLoad, Labels
  <2> QED
    BY <2>1, <2>2
<1>3. CASE OpenStore
  <2>1. CASE pc' = "returning"
    <3>1. Untouched
      BY <1>3, <2>1 DEF OpenStore, Untouched
    <3> QED
      BY <2>1, <3>1, MovesOn
  <2>2. CASE pc' = "wire" /\ pool' = pool
    BY <1>3, <2>2 DEF OpenStore, Inv, Loaded, Contents, inputs, Opens, AfterLoad,
                      Labels, Flags
  <2>3. CASE pc' # "returning" /\ pool' # pool
    <3>1. /\ pc = "open" /\ pool' = "open"
          /\ pc' = IF args.command \in {"show", "export"} THEN "query" ELSE "wire"
          /\ UNCHANGED <<inputs, config, service>>
      BY <1>3, <2>3 DEF OpenStore
    <3>2. Opens /\ Loaded
      BY <3>1 DEF Inv, AfterLoad
    <3> QED
      BY <3>1, <3>2 DEF Inv, Loaded, Contents, inputs, Opens, AfterLoad, Labels, Flags
  <2> QED
    BY <1>3, <2>1, <2>2, <2>3 DEF OpenStore, Inv
<1>4. CASE Wire
  <2>1. /\ pc = "wire" /\ pc' = "serve" /\ UNCHANGED <<inputs, config, pool>>
        /\ args.command \in {"run", "backfill", "simulate-alert"}
    BY <1>4 DEF Wire, Inv
  <2>2. Loaded /\ args \in Flags /\ args.command = "simulate-alert" => config.telegram # 0
    BY <2>1 DEF Inv, AfterLoad
  <2>3. /\ config.threshold_pct \in Nat
        /\ config.ethereum_timeout \in Int /\ config.cow_timeout \in Int
    BY <2>1, ValidSettings DEF Inv, AfterLoad, Loaded
  <2>4. Wired'
    <3>1. CASE args.command = "run"
      <4>1. service' = NewService(config, "aligned", Store, Store, Notifier(config),
                                  RemoteTimeouts(config))
        BY <1>4, <3>1 DEF Wire
      <4>2. \A t \in RemoteTimeouts(config) : t > 0
        BY <2>3, TimeoutsPositive
      <4> QED
        BY <2>1, <2>3, <3>1, <4>1, <4>2 DEF Wired, NewService, Notifier, Store, inputs
    <3>2. CASE args.command = "backfill"
      <4> DEFINE c == [config EXCEPT !.telegram = 0]
      <4>1. service' = NewService(config, "absent", Store, "absent", "absent",
                                  RemoteTimeouts(c))
        BY <1>4, <3>2 DEF Wire
      <4>2. c.ethereum_timeout \in Int /\ c.cow_timeout \in Int
        BY <2>1, <2>3 DEF Inv, AfterLoad, Loaded
      <4>3. \A t \in RemoteTimeouts(c) : t > 0
        BY <4>2, TimeoutsPositive
      <4> QED
        BY <2>1, <2>3, <3>2, <4>1, <4>3 DEF Wired, NewService, Notifier, Store, inputs
    <3>3. CASE args.command = "simulate-alert"
      <4>1. service' = NewService(config, "absent", "absent", "absent", Notifier(config),
                                  {Timeout(10)})
        BY <1>4, <3>3 DEF Wire
      <4>2. Store = "absent"
        BY <2>1, <3>3 DEF Store, Inv, Opens
      <4> QED
        BY <2>1, <2>2, <2>3, <3>3, <4>1, <4>2 DEF Wired, NewService, Notifier, Store, inputs, Timeout
    <3> QED
      BY <2>1, <3>1, <3>2, <3>3
  <2> QED
    BY <2>1, <2>2, <2>4 DEF Inv, Loaded, Contents, inputs, Opens, AfterLoad, Labels
<1>5. CASE RunStops \/ JobEnds \/ Query \/ Read
  BY <1>5, MovesOn DEF RunStops, JobEnds, Query, Read, Untouched
<1>6. CASE Exit
  BY <1>6 DEF Exit, Inv, Loaded, Contents, inputs, Opens, AfterLoad, Labels
<1>7. CASE Signal
  BY <1>7, MovesOn DEF Signal, Inv, Untouched, Loaded, Contents, inputs, Opens, Wired,
                       Store, AfterLoad, Labels
<1>8. CASE UNCHANGED vars
  BY <1>8, MovesOn DEF vars, Untouched
<1> QED
  BY <1>1, <1>2, <1>3, <1>4, <1>5, <1>6, <1>7, <1>8 DEF Next, Step

LEMMA Invariance == Spec => []Inv
<1>1. Init => Inv
  BY ArgumentsAssumption DEF Init, Inv, ArgumentsAssumption, AfterLoad, Labels
<1> QED
  BY <1>1, InvStep, PTL DEF Spec

-------------------------------------------------------------------------------
(* What a command returns, and show's rows. *)

\* The rows that show prints are those the statement lists, for a limit that
\* the flags were checked for; and only a query holds a connection.
Outcome ==
    /\ stored \in SUBSET Samples
    /\ signalled \in BOOLEAN
    /\ result \in {"none", "ok", "error", "panic", "killed"}
    /\ borrowed \in BOOLEAN
    /\ borrowed => pc = "reading"
    /\ pc \in {"open", "query", "reading"} /\ args.command = "show" => args.limit > 0
    /\ pc \notin {"returning", "done"} => result = "none"
    /\ result = "ok" /\ args.command = "show" =>
         args.limit > 0 /\ shown = ListRecentSamples(args.limit)

\* Every step keeps it: closing the rows and checking the limit come first.
LEMMA OutcomeStep == Inv /\ Outcome /\ [Next]_vars => Outcome'
<1> SUFFICES ASSUME Inv, Outcome, [Next]_vars PROVE Outcome'
  OBVIOUS
<1> USE DEF Return, Continue, inputs
<1>1. CASE Load
  BY <1>1 DEF Load, Outcome
<1>2. CASE CheckFlags
  <2>1. /\ pc = "flags" /\ UNCHANGED <<args, stored, borrowed, shown, signalled>>
        /\ pc' \in {"open", "wire"} => Accepted /\ UNCHANGED result
    BY <1>2 DEF CheckFlags
  <2>2. \/ pc' \in {"open", "wire"}
        \/ pc' = "returning" /\ result' \in {"error", "ok"}
           /\ (result' = "ok" => args.command = "version")
    BY <1>2 DEF CheckFlags
  <2> QED
    BY <2>1, <2>2 DEF Outcome, Accepted, AcceptsLimit
<1>3. CASE OpenStore
  BY <1>3 DEF OpenStore, Outcome
<1>4. CASE Wire
  BY <1>4 DEF Wire, Outcome
<1>5. CASE RunStops \/ JobEnds
  BY <1>5 DEF RunStops, JobEnds, Outcome, Inv
<1>6. CASE Query
  <2>1. /\ pc = "query" /\ UNCHANGED <<args, stored, shown, signalled>>
        /\ \/ pc' = "returning" /\ result' = "error" /\ UNCHANGED borrowed
           \/ pc' = "reading" /\ UNCHANGED result /\ borrowed' = TRUE
    BY <1>6 DEF Query
  <2>2. result = "none" /\ borrowed = FALSE
    BY <2>1 DEF Outcome
  <2> QED
    BY <2>1, <2>2 DEF Outcome
<1>7. CASE Read
  <2>1. /\ pc = "reading" /\ pc' = "returning" /\ borrowed' = FALSE
        /\ UNCHANGED <<args, stored, signalled>> /\ result' \in {"ok", "error", "panic"}
        /\ result' = "ok" /\ args.command = "show" => shown' = ListRecentSamples(args.limit)
    BY <1>7 DEF Read, CloseRows
  <2>2. args.command = "show" => args.limit > 0
    BY <2>1 DEF Outcome
  <2> QED
    BY <2>1, <2>2 DEF Outcome, ListRecentSamples
<1>8. CASE Exit
  BY <1>8 DEF Exit, Outcome, ListRecentSamples
<1>9. CASE Signal
  BY <1>9 DEF Signal, Outcome
<1>10. CASE UNCHANGED vars
  BY <1>10 DEF vars, Outcome, ListRecentSamples
<1> QED
  BY <1>1, <1>2, <1>3, <1>4, <1>5, <1>6, <1>7, <1>8, <1>9, <1>10 DEF Next, Step

LEMMA OutcomeInvariance == Spec => [](Inv /\ Outcome)
<1>1. Init => Outcome
  BY DEF Init, Outcome
<1> QED
  BY <1>1, OutcomeStep, Invariance, PTL DEF Spec

\* The statement's rows: the newest ones, the newest first.
LEMMA NewestListed ==
    ASSUME stored \in SUBSET Samples, NEW limit \in Nat \ {0}
    PROVE  LET r == ListRecentSamples(limit)
               Rows == {r[i] : i \in 1 .. Len(r)}
           IN  /\ \A i, j \in 1 .. Len(r) : i < j => r[i] > r[j]
               /\ \A s \in Rows, t \in stored \ Rows : s > t
               /\ Rows = stored \/ Len(r) = limit
<1> DEFINE asc == Ascending(stored)
           all == Reverse(asc)
           n == Cardinality(stored)
           k == IF limit < n THEN limit ELSE n
           r == ListRecentSamples(limit)
           Rows == {r[i] : i \in 1 .. Len(r)}
<1>1. stored \in SUBSET Int /\ IsFiniteSet(stored) /\ \A t \in stored : t \in Int
  <2>1. Samples \in SUBSET Nat /\ IsFiniteSet(Samples)
    BY SamplesAssumption DEF SamplesAssumption
  <2>2. IsFiniteSet(stored)
    BY <2>1, FS_Subset
  <2>3. \A t \in stored : t \in Int
    BY <2>1
  <2> QED
    BY <2>2, <2>3
<1>2. /\ n \in Nat /\ Len(asc) = n /\ \A i \in 1 .. n : asc[i] \in stored
      /\ \A i, j \in 1 .. n : i < j => asc[i] < asc[j]
      /\ \A t \in stored : \E i \in 1 .. n : asc[i] = t
  BY <1>1, ListingIsSorted, FS_CardinalityType
<1>3. all = [i \in 1 .. n |-> asc[(n - i) + 1]] /\ Len(all) = n
  BY <1>2 DEF Reverse
<1> HIDE DEF asc, all, n
<1>4. /\ \A i \in 1 .. n : all[i] \in stored
      /\ \A i, j \in 1 .. n : i < j => all[i] > all[j]
      /\ \A t \in stored : \E i \in 1 .. n : all[i] = t
  <2>1. \A i \in 1 .. n : all[i] = asc[(n - i) + 1] /\ (n - i) + 1 \in 1 .. n
    BY <1>2, <1>3
  <2>2. ASSUME NEW i \in 1 .. n, NEW j \in 1 .. n, i < j
        PROVE  all[i] > all[j]
    <3>1. (n - j) + 1 < (n - i) + 1
      BY <1>2, <2>2
    <3>2. asc[(n - j) + 1] < asc[(n - i) + 1]
      BY <1>2, <2>1, <3>1
    <3> QED
      BY <2>1, <3>2
  <2>3. ASSUME NEW t \in stored
        PROVE  \E i \in 1 .. n : all[i] = t
    <3>1. PICK j \in 1 .. n : asc[j] = t
      BY <1>2
    <3>2. (n - j) + 1 \in 1 .. n /\ (n - ((n - j) + 1)) + 1 = j
      BY <1>2
    <3>3. all[(n - j) + 1] = t
      BY <1>3, <3>1, <3>2
    <3> QED
      BY <3>2, <3>3
  <2> QED
    BY <1>2, <2>1, <2>2, <2>3
<1>5. k \in Nat /\ k <= n /\ (k = n \/ k = limit)
  BY <1>2
<1> HIDE DEF k
<1>6. Len(r) = k /\ \A i \in 1 .. k : r[i] = all[i]
  <2>1. r = SubSeq(all, 1, k)
    BY <1>3 DEF ListRecentSamples, all, asc, k
  <2>2. 1 \in Int /\ k \in Int /\ \A i \in 1 .. k : all[i] \in stored
    BY <1>2, <1>4, <1>5
  <2>3. /\ Len(r) = IF 1 <= k THEN k - 1 + 1 ELSE 0
        /\ \A i \in 1 .. k - 1 + 1 : r[i] = all[1 + i - 1]
    BY <2>1, <2>2, SubSeqProperties
  <2> HIDE DEF r
  <2> QED
    BY <1>5, <2>3
<1> HIDE DEF r
<1>7. \A i, j \in 1 .. Len(r) : i < j => r[i] > r[j]
  <2> SUFFICES ASSUME NEW i \in 1 .. k, NEW j \in 1 .. k, i < j
               PROVE  r[i] > r[j]
    BY <1>6
  <2>1. i \in 1 .. n /\ j \in 1 .. n
    BY <1>2, <1>5
  <2>2. all[i] > all[j]
    BY <1>4, <2>1
  <2> QED
    BY <1>6, <2>2
<1>8. ASSUME NEW s \in Rows, NEW t \in stored \ Rows
      PROVE  s > t
  <2>1. PICK i \in 1 .. k : s = all[i]
    BY <1>6
  <2>2. PICK j \in 1 .. n : t = all[j]
    BY <1>4
  <2>3. j \notin 1 .. k
    BY <1>6, <1>8, <2>2
  <2>4. i < j /\ i \in 1 .. n
    BY <1>2, <1>5, <2>3
  <2> QED
    BY <1>4, <2>1, <2>2, <2>4
<1>9. Rows = stored \/ Len(r) = limit
  <2>1. CASE k = n
    BY <1>4, <1>6, <2>1
  <2> QED
    BY <1>5, <1>6, <2>1
<1> QED
  BY <1>7, <1>8, <1>9 DEF r

-------------------------------------------------------------------------------
(* Theorems. *)

\* A service that runs is one of those that the other modules assume; that its
\* remote calls end is what the fairness of Watcher and Backfill rests on.
THEOREM ServiceIsUsable == Spec => []ServiceMeetsAssumptions
<1>1. Inv => ServiceMeetsAssumptions
  <2> SUFFICES ASSUME Inv, Serving PROVE ServiceMeetsAssumptions
    BY DEF ServiceMeetsAssumptions
  <2>1. Loaded /\ Wired /\ pool \in {"none", "open"}
    BY DEF Inv, Serving, AfterLoad
  <2>2. config.interval > 0
    BY <2>1, ValidSettings DEF Loaded
  <2> QED
    BY <2>1, <2>2 DEF ServiceMeetsAssumptions, Wired, Store, Locks, Alerts
<1> QED
  BY <1>1, Invariance, PTL

\* Whoever may alert has a token and a chat.
THEOREM AddresseeKnown == Spec => []AlertsHaveAddressee
<1>1. Inv => AlertsHaveAddressee
  BY ValidSettings DEF Inv, AlertsHaveAddressee, Alerts, Serving, AfterLoad, Wired, Loaded
<1> QED
  BY <1>1, Invariance, PTL

\* Dry runs and simulations never get at the database.
THEOREM DryRunIsDry == Spec => []DryRunStoresNothing
<1>1. Inv => DryRunStoresNothing
  BY DEF Inv, DryRunStoresNothing, Serving, Wired, Store, Opens
<1> QED
  BY <1>1, Invariance, PTL

\* Type correctness.
THEOREM CommandTyping == Spec => []TypeOK
<1>1. Inv /\ Outcome => TypeOK
  <2> SUFFICES ASSUME Inv, Outcome PROVE TypeOK
    OBVIOUS
  <2>1. pc \in AfterLoad => /\ config \in [Keys -> Int \cup {Malformed}]
                           /\ config.interval \in Nat \ {0}
    BY ValidSettings DEF Inv, Loaded
  <2> QED
    BY <2>1 DEF Inv, Outcome, TypeOK, AfterLoad, Labels
<1> QED
  BY <1>1, OutcomeInvariance, PTL

\* When show succeeds, it has printed the newest samples, the newest first.
THEOREM NewestAreShown == Spec => []ShowsNewest
<1>1. Inv /\ Outcome => ShowsNewest
  <2> SUFFICES ASSUME Inv, Outcome, result = "ok", args.command = "show"
               PROVE  ShowsNewest
    BY DEF ShowsNewest
  <2>1. /\ stored \in SUBSET Samples /\ args.limit \in Nat \ {0}
        /\ shown = ListRecentSamples(args.limit)
    BY DEF Inv, Outcome, Flags
  <2> QED
    BY <2>1, NewestListed DEF ShowsNewest
<1> QED
  BY <1>1, OutcomeInvariance, PTL

\* The deferred closing of the pool never waits: whichever way a command
\* returns, no query has a connection any more.  CommandEnds rests on it.
THEOREM ClosingNeverWaits == Spec => [](pc = "returning" => ~borrowed)
<1>1. Outcome => (pc = "returning" => ~borrowed)
  BY DEF Outcome
<1> QED
  BY <1>1, OutcomeInvariance, PTL
===============================================================================
