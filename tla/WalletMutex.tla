---------------------------- MODULE WalletMutex ------------------------------
(***************************************************************************)
(* What the wallet lock promises the handlers that run under it: one of    *)
(* them at a time.  WalletLock implements it until a request overruns its  *)
(* lockTime, and TxProposals is built on it.  A request that dies gives    *)
(* the lock up, here at once and there when it expires.                    *)
(***************************************************************************)
CONSTANT Req     \* the requests running at one time, in every process

VARIABLE holders \* those that run under the lock

MutexInit == holders = {}

Take(r) == holders = {} /\ holders' = {r}

Free(r) == r \in holders /\ holders' = holders \ {r}

MutexNext == \E r \in Req : Take(r) \/ Free(r)

Mutex == MutexInit /\ [][MutexNext]_holders
=============================================================================
