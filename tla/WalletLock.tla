----------------------------- MODULE WalletLock ------------------------------
(***************************************************************************)
(* The wallet lock of bitcore-wallet-service: lib/lock.ts over the locks   *)
(* collection (lib/storage.ts).  A lock is a document, whose key is the    *)
(* wallet's id, with the time it expires at; inserting it takes the lock,  *)
(* deleting it frees it, and neither names the request that holds it.      *)
(*                                                                         *)
(* One action is one database command.  Time is abstracted: a document is  *)
(* "live" until lockTime has passed and "expired" from then on.            *)
(***************************************************************************)
EXTENDS Integers, FiniteSets

CONSTANTS
    Req,            \* the requests running at one time, in every process
    Impatient,      \* those that give up after a waitTime
    MaxOverruns,    \* bound: locks that expire under a request still running
    MaxLateClears,  \* bound: live locks deleted in place of an expired one
    MaxDeaths       \* bound: requests whose process dies

ASSUME LockAssumption ==
    /\ Impatient \subseteq Req
    /\ MaxOverruns \in Nat
    /\ MaxLateClears \in Nat
    /\ MaxDeaths \in Nat

VARIABLES
    lock,       \* the document: "free" when there is none
    turn,       \* where each request is with the lock
    clears,     \* requests that read an expired lock and will delete it
    overruns,   \* how many locks expired under a running request
    lateClears, \* how many live locks a request deleted for an expired one
    deaths      \* how many requests died

lockVars == <<lock, turn, clears, overruns, lateClears, deaths>>

LockInit ==
    /\ lock = "free"
    /\ turn = [r \in Req |-> "out"]
    /\ clears = {}
    /\ overruns = 0
    /\ lateClears = 0
    /\ deaths = 0

Holders == {r \in Req : turn[r] = "holding"}
Waiters == {r \in Req : turn[r] = "waiting"}

-----------------------------------------------------------------------------
\* acquire() is called.
Ask(r) ==
    /\ turn[r] = "out"
    /\ turn' = [turn EXCEPT ![r] = "waiting"]
    /\ UNCHANGED <<lock, clears, overruns, lateClears, deaths>>

\* Mutant: the document is upserted, and never a duplicate.
Acquire_Upsert(r) ==
    /\ turn[r] = "waiting"
    /\ lock' = "live"
    /\ turn' = [turn EXCEPT ![r] = "holding"]
    /\ UNCHANGED <<clears, overruns, lateClears, deaths>>

\* acquireLock: the insert succeeds when there is no document.
Acquire(r) ==
    /\ turn[r] = "waiting"
    /\ lock = "free"
    /\ lock' = "live"
    /\ turn' = [turn EXCEPT ![r] = "holding"]
    /\ UNCHANGED <<clears, overruns, lateClears, deaths>>

\* Mutant: only a request that gives up clears the lock.
SeeExpired_Impatient(r) ==
    /\ turn[r] = "waiting"
    /\ r \in Impatient
    /\ lock = "expired"
    /\ clears' = clears \cup {r}
    /\ UNCHANGED <<lock, turn, overruns, lateClears, deaths>>

\* A failed insert makes clearExpiredLock read the document; the request does
\* not wait for the outcome, it tries again 50 ms later.
SeeExpired(r) ==
    /\ turn[r] = "waiting"
    /\ lock = "expired"
    /\ clears' = clears \cup {r}
    /\ UNCHANGED <<lock, turn, overruns, lateClears, deaths>>

\* The deleteMany of clearExpiredLock, by key: it deletes whatever lock there
\* is by now.
ClearExpired(r) ==
    /\ r \in clears
    /\ lock = "live" => lateClears < MaxLateClears
    /\ lateClears' = IF lock = "live" THEN lateClears + 1 ELSE lateClears
    /\ lock' = "free"
    /\ clears' = clears \ {r}
    /\ UNCHANGED <<turn, overruns, deaths>>

\* A request with a waitTime finds the lock taken once too often: WALLET_BUSY.
GiveUp(r) ==
    /\ turn[r] = "waiting"
    /\ lock # "free"
    /\ turn' = [turn EXCEPT ![r] = "out"]
    /\ UNCHANGED <<lock, clears, overruns, lateClears, deaths>>

\* runLocked releases after the task's callback: a deleteMany, by key too.
Release(r) ==
    /\ turn[r] = "holding"
    /\ lock' = "free"
    /\ turn' = [turn EXCEPT ![r] = "out"]
    /\ UNCHANGED <<clears, overruns, lateClears, deaths>>

\* The process that runs the request dies: the document stays.
Die(r) ==
    /\ deaths < MaxDeaths
    /\ deaths' = deaths + 1
    /\ turn' = [turn EXCEPT ![r] = "out"]
    /\ clears' = clears \ {r}
    /\ UNCHANGED <<lock, overruns, lateClears>>

\* lockTime passes.  When a request still runs under the lock it overruns.
Expire ==
    /\ lock = "live"
    /\ Holders # {} => overruns < MaxOverruns
    /\ overruns' = IF Holders # {} THEN overruns + 1 ELSE overruns
    /\ lock' = "expired"
    /\ UNCHANGED <<turn, clears, lateClears, deaths>>

LockNext ==
    \/ \E r \in Req : Ask(r) \/ Acquire(r) \/ SeeExpired(r) \/ ClearExpired(r)
                      \/ Release(r) \/ Die(r)
    \/ \E r \in Impatient : GiveUp(r)
    \/ Expire

LockSpec == LockInit /\ [][LockNext]_lockVars

\* Time passes, a task calls back, and the commands of a waiting request are
\* executed.  Which of the requests that retry finds the lock free is up to
\* chance: no request is sure of its turn.
LockFairness ==
    /\ WF_lockVars(Expire)
    /\ WF_lockVars(\E r \in Req : SeeExpired(r))
    /\ \A r \in Req : WF_lockVars(ClearExpired(r)) /\ WF_lockVars(Release(r))

LockFairSpec == LockSpec /\ LockFairness

-----------------------------------------------------------------------------
(* Properties. *)

\* Type invariant: what the document and the requests can be.
LockTypeOK ==
    /\ lock \in {"free", "live", "expired"}
    /\ turn \in [Req -> {"out", "waiting", "holding"}]
    /\ clears \in SUBSET Req
    /\ overruns \in Nat
    /\ lateClears \in Nat
    /\ deaths \in Nat

AtMostOne == \A r, s \in Holders : r = s

\* Mutual exclusion, as long as no request runs on after lockTime and no
\* clearExpiredLock deletes a lock that it did not find expired; and while a
\* request holds the lock its document is there and has not expired.
Exclusive ==
    overruns = 0 /\ lateClears = 0 => AtMostOne /\ (Holders # {} => lock = "live")

\* Until then it is the mutex of WalletMutex: a request comes to run under the
\* lock only when no other does, and leaves by itself.
M == INSTANCE WalletMutex WITH holders <- Holders

MutexUntilRace == overruns = 0 /\ lateClears = 0 => M!MutexNext

ImplementsMutex == M!MutexInit /\ [][MutexUntilRace]_Holders

\* Whoever holds or abandoned the lock, a waiting request finds it free again
\* or is gone: a dead holder never blocks the wallet.
NeverStuck == (lock # "free" /\ Waiters # {}) ~> (lock = "free" \/ Waiters = {})
=============================================================================
