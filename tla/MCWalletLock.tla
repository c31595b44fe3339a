---------------------------- MODULE MCWalletLock -----------------------------
(* Instances of WalletLock for TLC. *)
EXTENDS WalletLock

CONSTANTS r1, r2, r3
=============================================================================
