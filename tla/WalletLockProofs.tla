-------------------------- MODULE WalletLockProofs ---------------------------
(* Theorems of WalletLock, for every set of requests and every bound. *)
EXTENDS WalletLock, TLAPS

\* What the handlers write has the shape of a lock and of requests.
THEOREM LockTypeCorrect == LockSpec => []LockTypeOK
<1>1. LockInit => LockTypeOK
  BY LockAssumption DEF LockInit, LockTypeOK
<1>2. LockTypeOK /\ [LockNext]_lockVars => LockTypeOK'
  <2> SUFFICES ASSUME LockTypeOK, [LockNext]_lockVars PROVE LockTypeOK'
    OBVIOUS
  <2>1. CASE UNCHANGED lockVars
    BY <2>1 DEF LockTypeOK, lockVars
  <2>2. ASSUME NEW r \in Req, Ask(r) \/ Acquire(r) \/ SeeExpired(r) \/ ClearExpired(r)
                              \/ Release(r) \/ Die(r) \/ GiveUp(r)
        PROVE  LockTypeOK'
    BY <2>2 DEF LockTypeOK, Ask, Acquire, SeeExpired, ClearExpired, Release, Die, GiveUp
  <2>3. CASE Expire
    BY <2>3 DEF LockTypeOK, Expire
  <2>4. QED
    BY <2>1, <2>2, <2>3, LockAssumption DEF LockNext
<1>3. QED
  BY <1>1, <1>2, PTL DEF LockSpec

\* The step of mutual exclusion, for the theorems below.
LEMMA ExclusiveStep ==
    LockTypeOK /\ Exclusive /\ [LockNext]_lockVars => Exclusive'
<1> SUFFICES ASSUME LockTypeOK, Exclusive, [LockNext]_lockVars,
                    overruns' = 0, lateClears' = 0
             PROVE  AtMostOne' /\ (Holders' # {} => lock' = "live")
  BY DEF Exclusive
<1> USE DEF LockTypeOK, Exclusive, AtMostOne, Holders
<1>1. CASE UNCHANGED lockVars
  BY <1>1 DEF lockVars
<1>2. ASSUME NEW r \in Req, Ask(r) \/ SeeExpired(r) \/ GiveUp(r)
      PROVE  AtMostOne' /\ (Holders' # {} => lock' = "live")
  BY <1>2 DEF Ask, SeeExpired, GiveUp
\* Acquire is possible on a free lock only, and then there is no holder.
<1>3. ASSUME NEW r \in Req, Acquire(r)
      PROVE  AtMostOne' /\ (Holders' # {} => lock' = "live")
  BY <1>3 DEF Acquire
\* A clear that is not late finds no live lock, so it has no holder.
<1>4. ASSUME NEW r \in Req, ClearExpired(r)
      PROVE  AtMostOne' /\ (Holders' # {} => lock' = "live")
  <2>1. lock # "live" /\ overruns = 0 /\ lateClears = 0
    BY <1>4 DEF ClearExpired
  <2>2. QED
    BY <1>4, <2>1 DEF ClearExpired
\* Whoever releases or dies was the only holder.
<1>5. ASSUME NEW r \in Req, Release(r) \/ Die(r)
      PROVE  AtMostOne' /\ (Holders' # {} => lock' = "live")
  BY <1>5 DEF Release, Die
<1>6. CASE Expire
  <2>1. Holders = {} /\ overruns = 0 /\ lateClears = 0
    BY <1>6 DEF Expire
  <2>2. QED
    BY <1>6, <2>1 DEF Expire
<1>7. QED
  BY <1>1, <1>2, <1>3, <1>4, <1>5, <1>6, LockAssumption DEF LockNext

\* Mutual exclusion, until a request overruns lockTime or a live lock is
\* cleared in place of an expired one.
THEOREM ExclusiveHolds == LockSpec => []Exclusive
<1>1. LockInit => Exclusive
  BY DEF LockInit, Exclusive, AtMostOne, Holders
<1>2. QED
  BY <1>1, ExclusiveStep, LockTypeCorrect, PTL DEF LockSpec

\* A step before any race is a step of the mutex.
LEMMA MutexStep ==
    LockTypeOK /\ Exclusive /\ [LockNext]_lockVars => [MutexUntilRace]_Holders
<1> SUFFICES ASSUME LockTypeOK, Exclusive, [LockNext]_lockVars,
                    Holders' # Holders, overruns = 0, lateClears = 0
             PROVE  M!MutexNext
  BY DEF MutexUntilRace
<1> USE DEF LockTypeOK, Exclusive, AtMostOne, Holders
<1>1. ~UNCHANGED lockVars
  BY DEF lockVars
<1>2. ASSUME NEW r \in Req, Ask(r) \/ SeeExpired(r) \/ GiveUp(r) \/ ClearExpired(r)
      PROVE  M!MutexNext
  BY <1>2 DEF Ask, SeeExpired, GiveUp, ClearExpired
<1>3. ASSUME NEW r \in Req, Acquire(r)
      PROVE  M!MutexNext
  <2>1. Holders = {} /\ Holders' = {r}
    BY <1>3 DEF Acquire
  <2>2. QED
    BY <2>1 DEF M!MutexNext, M!Take
<1>4. ASSUME NEW r \in Req, Release(r) \/ Die(r)
      PROVE  M!MutexNext
  <2>1. r \in Holders /\ Holders' = Holders \ {r}
    BY <1>4 DEF Release, Die
  <2>2. QED
    BY <2>1 DEF M!MutexNext, M!Free
<1>5. CASE Expire
  BY <1>5 DEF Expire
<1>6. QED
  BY <1>1, <1>2, <1>3, <1>4, <1>5, LockAssumption DEF LockNext

\* The lock implements the mutex that the handlers of TxProposals count on.
THEOREM MutexImplemented == LockSpec => ImplementsMutex
<1>1. LockInit => M!MutexInit
  BY DEF LockInit, M!MutexInit, Holders
<1>2. QED
  BY <1>1, MutexStep, ExclusiveHolds, LockTypeCorrect, PTL DEF LockSpec, ImplementsMutex
=============================================================================
