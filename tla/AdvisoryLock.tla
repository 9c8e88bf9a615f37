------------------------------ MODULE AdvisoryLock ------------------------------
(***************************************************************************)
(* Store.TryAdvisoryLock and the unlock function it returns                *)
(* (internal/storage/repository.go), with the PostgreSQL server they talk  *)
(* to.  A session-level advisory lock belongs to a server session, that is *)
(* to one connection of one process's pool.  It can be taken again by the  *)
(* session that owns it, is freed by as many unlocks, and is freed when    *)
(* the session ends.  The server notices the end of a session at once or,  *)
(* when the network swallowed it, only later: the lock is an orphan until  *)
(* then.                                                                   *)
(*                                                                         *)
(* An unlock whose statement fails is ignored by the code and the          *)
(* connection goes back to the pool.  If the connection is still alive the *)
(* pooled session keeps the lock: it is leaked until the pool retires the  *)
(* connection.                                                             *)
(***************************************************************************)
EXTENDS Integers

CONSTANTS
    Procs,             \* processes that share the database and the lock key
    Conns,             \* connections in each process's pool (MaxConns)
    NoConn,            \* the process has no connection for the lock
    Free,              \* no session owns the lock
    Orphan,            \* a session owns it whose client is gone
    MaxLockFaults,     \* bound: failed lock and unlock statements
    MaxSessionLosses   \* bound: sessions that end under their holder

ASSUME ConnsAssumption == NoConn \notin Conns
ASSUME OwnersAssumption ==
    /\ Free # Orphan
    /\ {Free, Orphan} \cap (Procs \X Conns) = {}
ASSUME LockBoundsAssumption ==
    /\ MaxLockFaults \in Nat
    /\ MaxSessionLosses \in Nat

VARIABLES
    owner,             \* the session that owns the lock, Free or Orphan
    depth,             \* how often the owning session has taken it
    lockConn,          \* per process: the connection TryAdvisoryLock acquired
    held,              \* per process: TryAdvisoryLock returned an unlock func
    lost,              \* per process: its session ended while it held
    lockFaults,        \* failed statements so far
    sessionLosses      \* lost sessions so far

vars == <<owner, depth, lockConn, held, lost, lockFaults, sessionLosses>>

Session(p) == <<p, lockConn[p]>>

\* The process may rely on the lock.
Holding(p) == held[p] /\ ~lost[p]

Init ==
    /\ owner = Free
    /\ depth = 0
    /\ lockConn = [p \in Procs |-> NoConn]
    /\ held = [p \in Procs |-> FALSE]
    /\ lost = [p \in Procs |-> FALSE]
    /\ lockFaults = 0
    /\ sessionLosses = 0

-------------------------------------------------------------------------------
(* TryAdvisoryLock. *)

\* pool.Acquire(ctx)
AcquireConn(p) ==
    /\ lockConn[p] = NoConn
    /\ \E c \in Conns : lockConn' = [lockConn EXCEPT ![p] = c]
    /\ UNCHANGED <<owner, depth, held, lost, lockFaults, sessionLosses>>

\* The statement is outstanding.
Trying(p) == lockConn[p] # NoConn /\ ~held[p]

\* A variant of a lock that every session has for itself.
GrantAlways(p) ==
    /\ Trying(p)
    /\ owner' = Session(p)
    /\ depth' = IF owner = Session(p) THEN depth + 1 ELSE 1
    /\ held' = [held EXCEPT ![p] = TRUE]
    /\ UNCHANGED <<lockConn, lost, lockFaults, sessionLosses>>

\* pg_try_advisory_lock answers true.
Grant(p) ==
    /\ Trying(p)
    /\ owner \in {Free, Session(p)}
    /\ owner' = Session(p)
    /\ depth' = depth + 1
    /\ held' = [held EXCEPT ![p] = TRUE]
    /\ UNCHANGED <<lockConn, lost, lockFaults, sessionLosses>>

\* pg_try_advisory_lock answers false: conn.Release().
Refuse(p) ==
    /\ Trying(p)
    /\ owner \notin {Free, Session(p)}
    /\ lockConn' = [lockConn EXCEPT ![p] = NoConn]
    /\ UNCHANGED <<owner, depth, held, lost, lockFaults, sessionLosses>>

\* The statement fails: conn.Release().  Either it had no effect, or the
\* connection broke and with it the client's end of the session, which may
\* by then own the lock.
TryFails(p) ==
    /\ Trying(p)
    /\ lockConn' = [lockConn EXCEPT ![p] = NoConn]
    /\ \/ UNCHANGED <<owner, depth, lockFaults>>
       \/ /\ owner \in {Free, Session(p)}
          /\ lockFaults < MaxLockFaults
          /\ owner' = Orphan
          /\ depth' = 0
          /\ lockFaults' = lockFaults + 1
    /\ UNCHANGED <<held, lost, sessionLosses>>

Answer(p) == Grant(p) \/ Refuse(p) \/ TryFails(p)

-------------------------------------------------------------------------------
(* The unlock function. *)

\* A variant that never runs conn.Release().
KeepConn(p) ==
    /\ held' = [held EXCEPT ![p] = FALSE]
    /\ lost' = [lost EXCEPT ![p] = FALSE]
    /\ UNCHANGED <<lockConn, sessionLosses>>

\* conn.Release() and the end of the unlock function.
ReleaseConn(p) ==
    /\ lockConn' = [lockConn EXCEPT ![p] = NoConn]
    /\ held' = [held EXCEPT ![p] = FALSE]
    /\ lost' = [lost EXCEPT ![p] = FALSE]
    /\ UNCHANGED sessionLosses

\* A variant that returns the connection and never runs pg_advisory_unlock.
UnlockByReleaseOnly(p) ==
    /\ Holding(p)
    /\ ReleaseConn(p)
    /\ UNCHANGED <<owner, depth, lockFaults>>

\* A variant that counts on the lock of a session that has ended.
UnlockUnchecked(p) ==
    /\ held[p]
    /\ depth' = depth - 1
    /\ owner' = IF depth = 1 THEN Free ELSE owner
    /\ ReleaseConn(p)
    /\ UNCHANGED lockFaults

\* pg_advisory_unlock succeeds: one of the owner's locks is returned.
Unlock(p) ==
    /\ Holding(p)
    /\ depth' = depth - 1
    /\ owner' = IF depth = 1 THEN Free ELSE owner
    /\ ReleaseConn(p)
    /\ UNCHANGED lockFaults

\* The two seconds pass or the connection breaks: pgx closes it.
UnlockTimesOut(p) ==
    /\ Holding(p)
    /\ lockFaults < MaxLockFaults
    /\ lockFaults' = lockFaults + 1
    /\ owner' = Orphan
    /\ depth' = 0
    /\ ReleaseConn(p)

\* The server answers with an error and the session lives on.
UnlockRejected(p) ==
    /\ Holding(p)
    /\ lockFaults < MaxLockFaults
    /\ lockFaults' = lockFaults + 1
    /\ ReleaseConn(p)
    /\ UNCHANGED <<owner, depth>>

\* The session is gone already: the statement fails.
UnlockAfterLoss(p) ==
    /\ held[p] /\ lost[p]
    /\ ReleaseConn(p)
    /\ UNCHANGED <<owner, depth, lockFaults>>

UnlockReturns(p) ==
    Unlock(p) \/ UnlockTimesOut(p) \/ UnlockRejected(p) \/ UnlockAfterLoss(p)

-------------------------------------------------------------------------------
(* The server, the pool and the process. *)

\* A fail-over, an administrator or a broken link ends a holder's session on
\* the server; the process does not notice.
LoseSession(p) ==
    /\ Holding(p)
    /\ sessionLosses < MaxSessionLosses
    /\ sessionLosses' = sessionLosses + 1
    /\ lost' = [lost EXCEPT ![p] = TRUE]
    /\ owner' = Free
    /\ depth' = 0
    /\ UNCHANGED <<lockConn, held, lockFaults>>

\* The pool retires an idle connection that has reached MaxConnLifetime or
\* its idle time: the session ends.
RetireConn(p, c) ==
    /\ c # lockConn[p]
    /\ owner = <<p, c>>
    /\ owner' = Free
    /\ depth' = 0
    /\ UNCHANGED <<lockConn, held, lost, lockFaults, sessionLosses>>

\* Store.Close, when no call is under way: all sessions end.
ClosePool(p) ==
    /\ lockConn[p] = NoConn
    /\ IF \E c \in Conns : owner = <<p, c>>
       THEN owner' = Free /\ depth' = 0
       ELSE UNCHANGED <<owner, depth>>
    /\ UNCHANGED <<lockConn, held, lost, lockFaults, sessionLosses>>

\* The process or its host dies.
Die(p) ==
    /\ lockConn' = [lockConn EXCEPT ![p] = NoConn]
    /\ held' = [held EXCEPT ![p] = FALSE]
    /\ lost' = [lost EXCEPT ![p] = FALSE]
    /\ IF \E c \in Conns : owner = <<p, c>>
       THEN owner' \in {Free, Orphan} /\ depth' = 0
       ELSE UNCHANGED <<owner, depth>>
    /\ UNCHANGED <<lockFaults, sessionLosses>>

\* The server notices that an orphaned session's client is gone.
ReapOrphan ==
    /\ owner = Orphan
    /\ owner' = Free
    /\ UNCHANGED <<depth, lockConn, held, lost, lockFaults, sessionLosses>>

Step(p) ==
    \/ AcquireConn(p) \/ Answer(p) \/ UnlockReturns(p)
    \/ LoseSession(p) \/ ClosePool(p) \/ Die(p)
    \/ \E c \in Conns : RetireConn(p, c)

Next == ReapOrphan \/ \E p \in Procs : Step(p)

Spec == Init /\ [][Next]_vars

\* The server answers and reaps orphans, a call that was granted the lock
\* ends, and the pool's health check, which only sees idle connections,
\* retires each one some time.
LockFairness ==
    /\ WF_vars(ReapOrphan)
    /\ \A p \in Procs :
         /\ WF_vars(Answer(p))
         /\ WF_vars(UnlockReturns(p))
         /\ \A c \in Conns : SF_vars(RetireConn(p, c))

FairSpec == Spec /\ LockFairness

-------------------------------------------------------------------------------
(* Properties. *)

\* Type invariant of the lock's variables.
TypeOK ==
    /\ owner \in {Free, Orphan} \cup (Procs \X Conns)
    /\ depth \in Nat
    /\ lockConn \in [Procs -> Conns \cup {NoConn}]
    /\ held \in [Procs -> BOOLEAN]
    /\ lost \in [Procs -> BOOLEAN]
    /\ lockFaults \in 0 .. MaxLockFaults
    /\ sessionLosses \in 0 .. MaxSessionLosses

\* A process that was told `acquired` and whose session is alive is the only
\* one, whatever was leaked, orphaned, retired or lost before.
MutualExclusion ==
    \A p, q \in Procs : Holding(p) /\ Holding(q) => p = q

\* The server's count is what the clients can account for: one for the
\* process that holds the lock and one for every unlock that went wrong.
\* Without such a fault no session keeps the lock after its holder is done.
DepthAccounted ==
    depth <= lockFaults + (IF \E p \in Procs : Holding(p) THEN 1 ELSE 0)

\* The lock is never stuck: leaked, orphaned or held, it becomes free again.
LockEventuallyFree == owner # Free ~> owner = Free
===============================================================================
