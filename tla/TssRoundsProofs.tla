--------------------------- MODULE TssRoundsProofs ----------------------------
(***************************************************************************)
(* Facts about the rounds of a session document that both ceremonies need: *)
(* what a push that _pushMessage allows keeps, and what it is in lockstep. *)
(***************************************************************************)
EXTENDS TssRounds, FiniteSetTheorems, FunctionTheorems, TLAPS

\* One message a sender, and a round has messages only when those before it
\* are complete.
RoundsOK(rounds, size) ==
    /\ rounds \in [Round -> SUBSET Message]
    /\ \A r \in Round : IsFiniteSet(rounds[r])
    /\ \A r \in Round : \A m, n \in rounds[r] : m.from = n.from => m = n
    /\ \A r, s \in Round : s < r /\ rounds[r] # {} => Cardinality(rounds[s]) = size

Froms(S) == {m.from : m \in S}

\* A round without messages and any first message satisfy it.
LEMMA NoRoundsOK == \A size : RoundsOK(NoRounds, size)
  BY FS_EmptySet DEF RoundsOK, NoRounds

LEMMA FirstRoundOK ==
    ASSUME NEW p \in Party, NEW a \in Attempt, NEW size
    PROVE  RoundsOK(Pushed(NoRounds, p, a, 0), size)
<1> DEFINE R == Pushed(NoRounds, p, a, 0)
           x == [from |-> p, att |-> a, at |-> 0]
<1>1. 0 \in Round /\ \A r \in Round : r \in Nat
  BY RoundsAssumption DEF Round
<1>2. NoRounds[0] = {} /\ Cardinality(NoRounds[0]) = 0
  BY <1>1, FS_EmptySet DEF NoRounds
<1>3. R = [NoRounds EXCEPT ![0] = {x}]
  BY <1>2 DEF Pushed
<1>4. x \in Message
  BY DEF Message
<1>5. \A r \in Round : R[r] = IF r = 0 THEN {x} ELSE {}
  BY <1>1, <1>3 DEF NoRounds
<1>6. R \in [Round -> SUBSET Message]
  BY <1>3, <1>4 DEF NoRounds
<1>7. \A r \in Round : IsFiniteSet(R[r])
  <2>1. IsFiniteSet({x}) /\ IsFiniteSet({})
    BY FS_EmptySet, FS_Singleton
  <2>2. \A r \in Round : R[r] = {x} \/ R[r] = {}
    BY <1>5
  <2>3. QED
    BY <2>1, <2>2
<1>8. \A r, s \in Round : s < r /\ R[r] # {} => Cardinality(R[s]) = size
  BY <1>1, <1>5
<1>9. QED
  BY <1>5, <1>6, <1>7, <1>8 DEF RoundsOK

\* The senders of messages that are one a sender are as many as the messages.
LEMMA SendersCount ==
    ASSUME NEW S, IsFiniteSet(S), \A m, n \in S : m.from = n.from => m = n
    PROVE  /\ IsFiniteSet({m.from : m \in S})
           /\ Cardinality({m.from : m \in S}) = Cardinality(S)
<1> DEFINE T == {m.from : m \in S}
           f == [m \in S |-> m.from]
<1>1. f \in Bijection(S, T)
  BY DEF Bijection, Injection, Surjection, IsInjective
<1>2. ExistsBijection(S, T)
  BY <1>1 DEF ExistsBijection
<1>3. QED
  BY <1>2, FS_Bijection

\* As the parties count them.
LEMMA SentCount ==
    ASSUME NEW rounds, NEW size, RoundsOK(rounds, size), NEW r \in Round
    PROVE  /\ IsFiniteSet({p \in Party : r \in SentBy(rounds, p)})
           /\ Cardinality({p \in Party : r \in SentBy(rounds, p)}) = Cardinality(rounds[r])
<1>1. \A m \in rounds[r] : m.from \in Party
  BY DEF RoundsOK, Message
<1>2. {p \in Party : r \in SentBy(rounds, p)} = {m.from : m \in rounds[r]}
  BY <1>1 DEF SentBy
<1>3. QED
  BY <1>2, SendersCount DEF RoundsOK

\* A round that is complete for all parties has a message of each.
LEMMA Everybody ==
    ASSUME NEW rounds, NEW size, RoundsOK(rounds, size), NEW r \in Round,
           Cardinality(rounds[r]) = Cardinality(Party)
    PROVE  \A p \in Party : r \in SentBy(rounds, p)
<1> DEFINE S == {p \in Party : r \in SentBy(rounds, p)}
<1>1. Cardinality(S) = Cardinality(Party)
  BY SentCount
<1>2. S = Party
  BY <1>1, FS_Subset, RoundsAssumption
<1>3. QED
  BY <1>2

\* What is handed to a party when all others' messages are there is one
\* message of each.
LEMMA AllOthers ==
    ASSUME NEW rounds, NEW size, RoundsOK(rounds, size), NEW r \in Round, NEW p \in Party,
           MessagesFor(rounds, Cardinality(Party), p, r)
    PROVE  {m.from : m \in OthersOf(rounds, p, r)} = Party \ {p}
<1> DEFINE S == OthersOf(rounds, p, r)
           T == {m.from : m \in S}
<1>1. IsFiniteSet(S)
  BY FS_Subset DEF OthersOf, RoundsOK
<1>2. \A m, n \in S : m.from = n.from => m = n
  BY DEF OthersOf, RoundsOK
<1>3. Cardinality(T) = Cardinality(Party) - 1
  BY <1>1, <1>2, SendersCount DEF MessagesFor
<1>4. T \subseteq Party \ {p}
  BY DEF OthersOf, RoundsOK, Message
<1>5. IsFiniteSet(Party \ {p}) /\ Cardinality(Party \ {p}) = Cardinality(Party) - 1
  BY FS_RemoveElement, RoundsAssumption
<1>6. QED
  BY <1>3, <1>4, <1>5, FS_Subset

\* With a party's own message it is the whole round, which is complete.
LEMMA WholeRound ==
    ASSUME NEW rounds, NEW size \in Nat \ {0}, RoundsOK(rounds, size), NEW r \in Round,
           NEW p \in Party, MessagesFor(rounds, size, p, r),
           NEW own, own \subseteq Contents(rounds[r]), p \in Froms(own)
    PROVE  /\ own \cup Contents(OthersOf(rounds, p, r)) = Contents(rounds[r])
           /\ Cardinality(rounds[r]) = size
<1> DEFINE S == OthersOf(rounds, p, r)
<1>1. PICK x \in rounds[r] : [from |-> x.from, att |-> x.att] \in own /\ x.from = p
  BY DEF Froms, Contents
<1>2. rounds[r] = S \cup {x} /\ x \notin S
  BY <1>1 DEF OthersOf, RoundsOK
<1>3. IsFiniteSet(S)
  BY FS_Subset DEF OthersOf, RoundsOK
<1>4. Cardinality(rounds[r]) = size
  <2>1. Cardinality(S) = size - 1
    BY DEF MessagesFor
  <2> HIDE DEF S
  <2>2. Cardinality(S \cup {x}) = Cardinality(S) + 1
    BY <1>2, <1>3, FS_AddElement
  <2>3. QED
    BY <1>2, <2>1, <2>2
<1>5. Contents(rounds[r]) = Contents(S) \cup {[from |-> x.from, att |-> x.att]}
  BY <1>2 DEF Contents
<1>6. QED
  BY <1>1, <1>4, <1>5

-----------------------------------------------------------------------------
(* A push that _pushMessage allows. *)

\* The rounds before are complete and this one is not.
LEMMA PushableRound ==
    ASSUME NEW rounds, NEW size \in Nat \ {0}, RoundsOK(rounds, size),
           NEW p, NEW r \in Round, Pushable(rounds, size, p, r)
    PROVE  /\ \A s \in 0 .. r - 1 : s \in Round /\ Cardinality(rounds[s]) = size
           /\ Cardinality(rounds[r]) # size
           /\ \A s \in Round : s > r => rounds[s] = {}
<1>1. Round \subseteq Int /\ \A s \in 0 .. r - 1 : s \in Round /\ s < r
  BY RoundsAssumption DEF Round
<1>2. CASE MostRecent(rounds, r) /\ Cardinality(rounds[r]) # size
  BY <1>1, <1>2 DEF MostRecent, RoundsOK
<1>3. CASE MostRecent(rounds, r - 1) /\ Cardinality(rounds[r - 1]) = size
  <2>1. rounds[r] = {} /\ \A s \in Round : s > r => rounds[s] = {}
    BY <1>1, <1>3 DEF MostRecent
  <2>2. Cardinality(rounds[r]) # size
    BY <2>1, FS_EmptySet
  <2>3. \A s \in 0 .. r - 1 : Cardinality(rounds[s]) = size
    <3>1. TAKE s \in 0 .. r - 1
    <3>2. CASE s = r - 1
      BY <3>2, <1>3
    <3>3. CASE s # r - 1
      <4>1. s < r - 1 /\ s \in Round /\ r - 1 \in Round /\ rounds[r - 1] # {}
        BY <1>1, <1>3, <3>3 DEF MostRecent
      <4>2. QED
        BY <4>1 DEF RoundsOK
    <3>4. QED
      BY <3>2, <3>3
  <2>4. QED
    BY <1>1, <2>1, <2>2, <2>3
<1>4. QED
  BY <1>2, <1>3 DEF Pushable, CurrentRound

LEMMA PushedRounds ==
    ASSUME NEW rounds \in [Round -> SUBSET Message], NEW r \in Round, IsFiniteSet(rounds[r]),
           NEW p \in Party, NEW a \in Attempt
    PROVE  /\ Pushed(rounds, p, a, r) \in [Round -> SUBSET Message]
           /\ \A s \in Round : s # r => Pushed(rounds, p, a, r)[s] = rounds[s]
           /\ Pushed(rounds, p, a, r)[r]
                = rounds[r] \cup {[from |-> p, att |-> a, at |-> Cardinality(rounds[r])]}
           /\ IsFiniteSet(Pushed(rounds, p, a, r)[r])
<1> DEFINE x == [from |-> p, att |-> a, at |-> Cardinality(rounds[r])]
           R == Pushed(rounds, p, a, r)
<1>1. x \in Message
  BY FS_CardinalityType DEF Message
<1>2. R = [rounds EXCEPT ![r] = rounds[r] \cup {x}]
  BY DEF Pushed
<1> HIDE DEF x, R
<1>3. rounds[r] \cup {x} \in SUBSET Message
  BY <1>1
<1>4. R \in [Round -> SUBSET Message] /\ \A s \in Round : s # r => R[s] = rounds[s]
  BY <1>2, <1>3
<1>5. R[r] = rounds[r] \cup {x}
  BY <1>2
<1>6. IsFiniteSet(R[r])
  BY <1>5, FS_AddElement
<1>7. QED
  BY <1>4, <1>5, <1>6 DEF x, R

LEMMA PushKeeps ==
    ASSUME NEW rounds, NEW size \in Nat \ {0}, RoundsOK(rounds, size),
           NEW p \in Party, NEW a \in Attempt, NEW r \in Round, Pushable(rounds, size, p, r)
    PROVE  RoundsOK(Pushed(rounds, p, a, r), size)
<1> DEFINE R == Pushed(rounds, p, a, r)
           x == [from |-> p, att |-> a, at |-> Cardinality(rounds[r])]
<1>1. /\ R \in [Round -> SUBSET Message]
      /\ \A s \in Round : s # r => R[s] = rounds[s]
      /\ R[r] = rounds[r] \cup {x}
      /\ IsFiniteSet(R[r])
  BY PushedRounds DEF RoundsOK
<1>2. \A s \in Round : IsFiniteSet(R[s])
  BY <1>1 DEF RoundsOK
<1>3. \A s \in Round : \A m, n \in R[s] : m.from = n.from => m = n
  <2>1. \A m \in rounds[r] : m.from # p
    BY DEF Pushable
  <2>2. x.from = p
    OBVIOUS
  <2>3. QED
    BY <1>1, <2>1, <2>2 DEF RoundsOK
<1>4. \A t, s \in Round : s < t /\ R[t] # {} => Cardinality(R[s]) = size
  <2>1. SUFFICES ASSUME NEW t \in Round, NEW s \in Round, s < t, R[t] # {}
                 PROVE  Cardinality(R[s]) = size
    OBVIOUS
  <2>2. s \in Int /\ t \in Int /\ r \in Int /\ 0 <= s
    BY RoundsAssumption DEF Round
  <2>3. s # r
    BY <1>1, <2>1, <2>2, PushableRound
  <2>4. CASE t = r
    BY <1>1, <2>1, <2>2, <2>3, <2>4, PushableRound
  <2>5. CASE t # r
    BY <1>1, <2>1, <2>3, <2>5 DEF RoundsOK
  <2>6. QED
    BY <2>4, <2>5
<1>5. QED
  BY <1>1, <1>2, <1>3, <1>4 DEF RoundsOK

\* To the parties it is one more round sent.
LEMMA PushSends ==
    ASSUME NEW rounds, NEW size, RoundsOK(rounds, size),
           NEW p \in Party, NEW a \in Attempt, NEW r \in Round
    PROVE  /\ SentBy(Pushed(rounds, p, a, r), p) = SentBy(rounds, p) \cup {r}
           /\ \A q \in Party \ {p} : SentBy(Pushed(rounds, p, a, r), q) = SentBy(rounds, q)
<1> DEFINE R == Pushed(rounds, p, a, r)
           x == [from |-> p, att |-> a, at |-> Cardinality(rounds[r])]
<1>1. /\ \A s \in Round : s # r => R[s] = rounds[s]
      /\ R[r] = rounds[r] \cup {x}
  BY PushedRounds DEF RoundsOK
<1>2. SentBy(R, p) = SentBy(rounds, p) \cup {r}
  <2>1. x.from = p
    OBVIOUS
  <2>2. \A s \in Round : (\E m \in R[s] : m.from = p) <=> (\E m \in rounds[s] : m.from = p) \/ s = r
    BY <1>1, <2>1
  <2>3. QED
    BY <2>2 DEF SentBy
<1>3. \A q \in Party \ {p} : SentBy(R, q) = SentBy(rounds, q)
  BY <1>1 DEF SentBy
<1>4. QED
  BY <1>2, <1>3
==============================================================================
