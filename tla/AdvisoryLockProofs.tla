-------------------------- MODULE AdvisoryLockProofs --------------------------
(***************************************************************************)
(* Proofs about AdvisoryLock, for any processes, any pools and any number  *)
(* of faults and lost sessions.                                            *)
(***************************************************************************)
EXTENDS AdvisoryLock, TLAPS

\* A session is neither Free nor Orphan, and tells its process and connection.
LEMMA Sessions ==
    ASSUME NEW p \in Procs, NEW c \in Conns
    PROVE  <<p, c>> # Free /\ <<p, c>> # Orphan
BY OwnersAssumption DEF OwnersAssumption

-------------------------------------------------------------------------------
(* Types.  That depth stays a natural number needs to know that a holder's   *)
(* session has taken the lock at least once.                                 *)

\* What a process believes of the lock is what the server has on its books:
\* the session of a holder is alive, owns the lock and has been counted.
HoldersOwn ==
    \A p \in Procs :
       /\ held[p] => lockConn[p] # NoConn
       /\ lost[p] => held[p]
       /\ Holding(p) => owner = Session(p) /\ depth >= 1

IInv == TypeOK /\ HoldersOwn /\ DepthAccounted

\* The initial state satisfies the inductive invariant.
LEMMA InitIInv == Init => IInv
BY ConnsAssumption, OwnersAssumption, LockBoundsAssumption
DEF Init, IInv, TypeOK, HoldersOwn, DepthAccounted, Holding, Session,
    ConnsAssumption, OwnersAssumption, LockBoundsAssumption

\* No step of a process, the pool or the server breaks a type.
LEMMA TypeStep ==
    ASSUME TypeOK, HoldersOwn, [Next]_vars
    PROVE  TypeOK'
<1> USE LockBoundsAssumption, ConnsAssumption
    DEF LockBoundsAssumption, ConnsAssumption, TypeOK
<1>1. ASSUME NEW p \in Procs, Step(p) PROVE TypeOK'
  <2>1. CASE AcquireConn(p)
    BY <2>1 DEF AcquireConn
  <2>2. CASE Grant(p)
    BY <2>2 DEF Grant, Trying, Session
  <2>3. CASE Refuse(p)
    BY <2>3 DEF Refuse
  <2>4. CASE TryFails(p)
    <3>1. CASE UNCHANGED <<owner, depth, lockFaults>>
      BY <2>4, <3>1 DEF TryFails
    <3>2. CASE owner' = Orphan /\ depth' = 0 /\ lockFaults < MaxLockFaults
               /\ lockFaults' = lockFaults + 1
      BY <2>4, <3>2 DEF TryFails
    <3> QED
      BY <2>4, <3>1, <3>2 DEF TryFails
  <2>5. CASE Unlock(p)
    BY <2>5 DEF Unlock, ReleaseConn, HoldersOwn
  <2>6. CASE UnlockTimesOut(p) \/ UnlockRejected(p) \/ UnlockAfterLoss(p)
    <3>1. CASE UnlockTimesOut(p)
      BY <3>1 DEF UnlockTimesOut, ReleaseConn
    <3>2. CASE UnlockRejected(p)
      BY <3>2 DEF UnlockRejected, ReleaseConn
    <3>3. CASE UnlockAfterLoss(p)
      BY <3>3 DEF UnlockAfterLoss, ReleaseConn
    <3> QED
      BY <2>6, <3>1, <3>2, <3>3
  <2>7. CASE LoseSession(p)
    BY <2>7 DEF LoseSession
  <2>8. CASE ClosePool(p)
    BY <2>8 DEF ClosePool
  <2>9. CASE Die(p)
    BY <2>9 DEF Die
  <2>10. CASE \E c \in Conns : RetireConn(p, c)
    BY <2>10 DEF RetireConn
  <2> QED
    BY <1>1, <2>1, <2>2, <2>3, <2>4, <2>5, <2>6, <2>7, <2>8, <2>9, <2>10
    DEF Step, Answer, UnlockReturns
<1>2. CASE ReapOrphan
  BY <1>2 DEF ReapOrphan
<1>3. CASE UNCHANGED vars
  BY <1>3 DEF vars
<1> QED
  BY <1>1, <1>2, <1>3 DEF Next

-------------------------------------------------------------------------------
(* Mutual exclusion. *)

\* Two holders would own the lock with one session, so they are the same.
LEMMA HoldersAreOne == TypeOK /\ HoldersOwn => MutualExclusion
<1> SUFFICES ASSUME TypeOK, HoldersOwn,
                    NEW p \in Procs, NEW q \in Procs, Holding(p), Holding(q)
             PROVE  p = q
  BY DEF MutualExclusion
<1>1. Session(p) = Session(q)
  BY DEF HoldersOwn
<1> QED
  BY <1>1 DEF Session

\* The books stay right under every step.
LEMMA HoldersStep ==
    ASSUME TypeOK, HoldersOwn, [Next]_vars
    PROVE  HoldersOwn'
<1> USE ConnsAssumption DEF ConnsAssumption
<1>1. ASSUME NEW p \in Procs, Step(p) PROVE HoldersOwn'
  <2> SUFFICES ASSUME NEW q \in Procs
               PROVE  /\ held'[q] => lockConn'[q] # NoConn
                      /\ lost'[q] => held'[q]
                      /\ held'[q] /\ ~lost'[q]
                         => owner' = <<q, lockConn'[q]>> /\ depth' >= 1
    BY DEF HoldersOwn, Holding, Session
  <2> USE DEF TypeOK, HoldersOwn, Holding, Session
  <2>1. CASE AcquireConn(p)
    BY <2>1 DEF AcquireConn
  <2>2. CASE Grant(p)
    BY <2>2, Sessions DEF Grant, Trying
  <2>3. CASE Refuse(p)
    BY <2>3 DEF Refuse, Trying
  <2>4. CASE TryFails(p)
    BY <2>4, Sessions DEF TryFails, Trying
  <2>5. CASE Unlock(p)
    BY <2>5 DEF Unlock, ReleaseConn
  <2>6. CASE UnlockTimesOut(p)
    BY <2>6 DEF UnlockTimesOut, ReleaseConn
  <2>7. CASE UnlockRejected(p) \/ UnlockAfterLoss(p)
    BY <2>7 DEF UnlockRejected, UnlockAfterLoss, ReleaseConn
  <2>8. CASE LoseSession(p)
    BY <2>8 DEF LoseSession
  <2>9. CASE ClosePool(p)
    BY <2>9 DEF ClosePool
  <2>10. CASE Die(p)
    BY <2>10 DEF Die
  <2>11. CASE \E c \in Conns : RetireConn(p, c)
    BY <2>11 DEF RetireConn
  <2> QED
    BY <1>1, <2>1, <2>2, <2>3, <2>4, <2>5, <2>6, <2>7, <2>8, <2>9, <2>10, <2>11
    DEF Step, Answer, UnlockReturns
<1>2. CASE ReapOrphan
  BY <1>2, Sessions DEF ReapOrphan, TypeOK, HoldersOwn, Holding, Session
<1>3. CASE UNCHANGED vars
  BY <1>3 DEF vars, HoldersOwn, Holding, Session
<1> QED
  BY <1>1, <1>2, <1>3 DEF Next

-------------------------------------------------------------------------------
(* The count. *)

\* There is a holder; MutualExclusion makes it the only one.
SomeHolder == \E p \in Procs : Holding(p)

\* The server's count stays within what the clients can account for.
LEMMA DepthStep ==
    ASSUME TypeOK, HoldersOwn, DepthAccounted, [Next]_vars
    PROVE  DepthAccounted'
<1> USE LockBoundsAssumption, ConnsAssumption DEF LockBoundsAssumption, ConnsAssumption
<1> SUFFICES ASSUME TypeOK, HoldersOwn, [Next]_vars,
                    SomeHolder => depth <= lockFaults + 1,
                    ~SomeHolder => depth <= lockFaults
             PROVE  /\ SomeHolder' => depth' <= lockFaults' + 1
                    /\ ~SomeHolder' => depth' <= lockFaults'
  BY TypeStep DEF DepthAccounted, SomeHolder, TypeOK
<1>0. depth \in Nat /\ lockFaults \in Nat
  BY DEF TypeOK
<1>1. ASSUME NEW p \in Procs, Step(p)
      PROVE  /\ SomeHolder' => depth' <= lockFaults' + 1
             /\ ~SomeHolder' => depth' <= lockFaults'
  <2> USE <1>0
  <2>1. CASE AcquireConn(p)
    BY <2>1 DEF AcquireConn, SomeHolder, Holding
  <2>2. CASE Grant(p)
    <3>1. ~SomeHolder
      BY <2>2, Sessions DEF Grant, Trying, SomeHolder, HoldersOwn, Holding,
                            Session, TypeOK
    <3>2. SomeHolder'
      BY <2>2 DEF Grant, Trying, SomeHolder, HoldersOwn, Holding, TypeOK
    <3> QED
      BY <2>2, <3>1, <3>2 DEF Grant
  <2>3. CASE Refuse(p)
    BY <2>3 DEF Refuse, SomeHolder, Holding
  <2>4. CASE TryFails(p)
    <3>1. CASE UNCHANGED <<owner, depth, lockFaults>>
      BY <2>4, <3>1 DEF TryFails, SomeHolder, Holding
    <3>2. CASE depth' = 0 /\ lockFaults' = lockFaults + 1
      BY <3>2
    <3> QED
      BY <2>4, <3>1, <3>2 DEF TryFails
  <2>5. CASE Unlock(p)
    <3>1. SomeHolder
      BY <2>5 DEF Unlock, SomeHolder
    <3>2. depth' <= lockFaults /\ lockFaults' = lockFaults
      BY <2>5, <3>1 DEF Unlock
    <3> QED
      BY <3>2, TypeStep DEF TypeOK
  <2>6. CASE UnlockTimesOut(p)
    BY <2>6 DEF UnlockTimesOut
  <2>7. CASE UnlockRejected(p)
    BY <2>7 DEF UnlockRejected
  <2>8. CASE UnlockAfterLoss(p)
    <3>1. SomeHolder' <=> SomeHolder
      BY <2>8 DEF UnlockAfterLoss, ReleaseConn, SomeHolder, Holding, TypeOK
    <3> QED
      BY <2>8, <3>1 DEF UnlockAfterLoss
  <2>9. CASE LoseSession(p)
    BY <2>9 DEF LoseSession
  <2>10. CASE ClosePool(p)
    BY <2>10 DEF ClosePool, SomeHolder, Holding
  <2>11. CASE Die(p)
    <3>1. CASE \E c \in Conns : owner = <<p, c>>
      BY <2>11, <3>1 DEF Die
    <3>2. CASE ~\E c \in Conns : owner = <<p, c>>
      <4>1. ~Holding(p)
        BY <3>2 DEF HoldersOwn, Session, TypeOK, Holding
      <4>2. SomeHolder' <=> SomeHolder
        BY <2>11, <4>1 DEF Die, SomeHolder, Holding, TypeOK
      <4> QED
        BY <2>11, <3>2, <4>2 DEF Die
    <3> QED
      BY <3>1, <3>2
  <2>12. CASE \E c \in Conns : RetireConn(p, c)
    BY <2>12 DEF RetireConn
  <2> QED
    BY <1>1, <2>1, <2>2, <2>3, <2>4, <2>5, <2>6, <2>7, <2>8, <2>9, <2>10,
       <2>11, <2>12
    DEF Step, Answer, UnlockReturns
<1>2. CASE ReapOrphan
  BY <1>2 DEF ReapOrphan, SomeHolder, Holding
<1>3. CASE UNCHANGED vars
  BY <1>3 DEF vars, SomeHolder, Holding
<1> QED
  BY <1>1, <1>2, <1>3 DEF Next

-------------------------------------------------------------------------------
(* Theorems. *)

\* The inductive invariant holds throughout.
LEMMA Invariance == Spec => []IInv
<1>1. IInv /\ [Next]_vars => IInv'
  BY TypeStep, HoldersStep, DepthStep DEF IInv
<1> QED
  BY InitIInv, <1>1, PTL DEF Spec

\* The variables keep their types; the server's count never goes below zero,
\* although the code unlocks without asking whether it still has the lock.
THEOREM Typing == Spec => []TypeOK
<1>1. IInv => TypeOK
  BY DEF IInv
<1> QED
  BY <1>1, Invariance, PTL

\* At most one process may rely on the lock, for any pools and faults.
THEOREM Exclusion == Spec => []MutualExclusion
<1>1. IInv => MutualExclusion
  BY HoldersAreOne DEF IInv
<1> QED
  BY <1>1, Invariance, PTL

\* The lock is left behind only by an unlock that failed.
THEOREM Accounting == Spec => []DepthAccounted
<1>1. IInv => DepthAccounted
  BY DEF IInv
<1> QED
  BY <1>1, Invariance, PTL
===============================================================================
