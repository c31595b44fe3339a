----------------------------- MODULE TssLockstep -----------------------------
(***************************************************************************)
(* What a threshold-signature session promises the parties that meet in it *)
(* over the server: Size of them take part, each sends one message a       *)
(* round, and nobody sends the message of a round before everybody that    *)
(* takes part has sent that of the round before.  Nothing that happens to  *)
(* requests and replies makes a party send twice or get ahead.             *)
(***************************************************************************)
EXTENDS Integers, FiniteSets

CONSTANTS
    Party,      \* the parties that may take part
    LastRound,  \* the last round whose messages go through the server
    Size        \* how many take part

Round == 0 .. LastRound

VARIABLE sent   \* the rounds whose message each party has sent

Senders(r) == {p \in Party : r \in sent[p]}

Complete(r) == Cardinality(Senders(r)) = Size

LockstepInit == sent = [p \in Party |-> {}]

Send(p, r) ==
    /\ r \notin sent[p]
    /\ ~Complete(r)
    /\ \A s \in 0 .. r - 1 : Complete(s) /\ s \in sent[p]
    /\ sent' = [sent EXCEPT ![p] = @ \cup {r}]

LockstepNext == \E p \in Party, r \in Round : Send(p, r)

Lockstep == LockstepInit /\ [][LockstepNext]_sent
==============================================================================
