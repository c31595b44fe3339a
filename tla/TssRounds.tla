------------------------------ MODULE TssRounds -------------------------------
(***************************************************************************)
(* The rounds of a session document, as the two models of                  *)
(* bitcore-wallet-service keep them (lib/model/tsskeygen.ts, tsssign.ts)   *)
(* and the two _pushMessage of lib/tss.ts judge them.  A message is its    *)
(* sender, the attempt that computed it (the parties draw fresh nonces, so *)
(* computing a round again gives another message) and its place in the     *)
(* array of the round.                                                     *)
(***************************************************************************)
EXTENDS Integers, FiniteSets

CONSTANTS
    Party,      \* party ids, counted from 0
    LastRound,  \* the last round whose messages go through the server
    Attempt     \* how often a party may compute one round

Round == 0 .. LastRound

ASSUME RoundsAssumption ==
    /\ IsFiniteSet(Party) /\ Party \subseteq Nat /\ 0 \in Party
    /\ LastRound \in Nat
    /\ Attempt \subseteq Nat \ {0}

Message == [from : Party, att : Attempt, at : Nat]

NoRounds == [r \in Round |-> {}]

\* A document is stored exactly when its first round has a message.
Stored(rounds) == rounds[0] # {}

MostRecent(rounds, r) ==
    r \in Round /\ rounds[r] # {} /\ \A s \in Round : s > r => rounds[s] = {}

\* Mutant: the most recent round is never done.
CurrentRound_Last(rounds, size, r) == MostRecent(rounds, r)

\* r is getCurrentRound: the most recent round, or the next one when that is
\* done.
CurrentRound(rounds, size, r) ==
    \/ MostRecent(rounds, r) /\ Cardinality(rounds[r]) # size
    \/ MostRecent(rounds, r - 1) /\ Cardinality(rounds[r - 1]) = size

\* Mutant: a message that is there already is sent again.
Pushable_Again(rounds, size, p, r) == CurrentRound(rounds, size, r)

\* Mutant: a message of a round that is done is taken.
Pushable_Late(rounds, size, p, r) ==
    /\ \E s \in r .. LastRound + 1 : CurrentRound(rounds, size, s)
    /\ \A m \in rounds[r] : m.from # p

\* _pushMessage, up to its update: otherwise it throws TSS_ROUND_ALREADY_DONE,
\* TSS_ROUND_TOO_EARLY or TSS_ROUND_MESSAGE_EXISTS.
Pushable(rounds, size, p, r) ==
    /\ CurrentRound(rounds, size, r)
    /\ \A m \in rounds[r] : m.from # p

\* $push of the message at the end of its round
Pushed(rounds, p, a, r) ==
    [rounds EXCEPT ![r] = @ \cup {[from |-> p, att |-> a, at |-> Cardinality(@)]}]

OthersOf(rounds, p, r) == {m \in rounds[r] : m.from # p}

\* Mutant: what a message says depends on where it is stored.
Contents_Placed(messages) == messages

\* What a message says, wherever it is stored.
Contents(messages) == {[from |-> m.from, att |-> m.att] : m \in messages}

\* Mutant: some of the other parties are enough.
MessagesFor_Some(rounds, size, p, r) == OthersOf(rounds, p, r) # {}

\* getMessagesForParty hands out a round when all other parties' messages are
\* there, which both clients check again.
MessagesFor(rounds, size, p, r) == Cardinality(OthersOf(rounds, p, r)) = size - 1

\* The rounds each party has a message in.
SentBy(rounds, p) == {r \in Round : \E m \in rounds[r] : m.from = p}
==============================================================================
