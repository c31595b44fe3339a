---------------------------- MODULE TssSignProofs -----------------------------
(***************************************************************************)
(* Proofs about TssSign: types, agreement of what is signed, one signature *)
(* of M parties, and lockstep, for any number of parties, signers, rounds, *)
(* attempts and faults.                                                    *)
(*                                                                         *)
(* The argument is that of TssKeyGenProofs up to the clients.  There a     *)
(* complete round has every party's message; here it has those of M, which *)
(* the first round decides: who sends later sent in it (Nested), so that a *)
(* round with the messages of M has one of each of them.  A client whose   *)
(* session could not be restored may have gone on from a message that is   *)
(* not stored; the only one that can still be is the one it has (Pending). *)
(* What a client has taken in is all the others' messages of the round     *)
(* (Whole), which no longer change.                                        *)
(***************************************************************************)
EXTENDS TssSign, TssRoundsProofs

\* Who sends a message has sent one in the first round.
Nested(rounds) == \A r \in Round : Froms(rounds[r]) \subseteq Froms(rounds[0])

DocInv ==
    /\ RoundsOK(session.rounds, M)
    /\ Nested(session.rounds)
    /\ \A r \in Round : Cardinality(session.rounds[r]) <= M

SnapOK(h) ==
    /\ h.at \in {"join", "push", "refetch"} =>
          /\ Stored(session.rounds)
          /\ h.seen.version <= session.version
          /\ h.seen.version = session.version => h.seen.rounds = session.rounds
    /\ h.at = "insert" => h.round = 0

SnapInv == \A h \in posts : SnapOK(h)

\* A request for a later round is of a party that is in the first one.
PriorOK(h) == h.round > 0 => h.from \in Froms(session.rounds[0])

PriorInv == \A h \in posts : PriorOK(h)

\* p, which was not restored, has sent a in round r, and it is not stored.
Pending(p, r, a) ==
    /\ p \in Encrypted /\ r > 0
    /\ p \notin Froms(session.rounds[r])
    /\ \A h \in posts : h.from = p /\ h.round = r => h.att = a

ViewOK(p, r) ==
    /\ \A m \in view[p][r] :
          m \in Contents(session.rounds[r]) \/ (m.from = p /\ Pending(p, r, m.att))
    /\ \A m, n \in view[p][r] : m.from = p /\ n.from = p => m = n
    /\ r >= round[p] => view[p][r] = {}

ViewInv == \A p \in Party : \A r \in Round : ViewOK(p, r)

\* Who is not restored sends a round once.
OnceOK(p) ==
    /\ \A r \in Round : r > 0 /\ r >= round[p] => p \notin Froms(session.rounds[r])
    /\ \A h \in posts : h.from = p /\ h.round > 0 => h.live \/ h.round < round[p]

OnceInv == \A p \in Encrypted : OnceOK(p)

\* p computed from all the others' messages of the round, and its own.
Whole(p, r) ==
    /\ p \in Froms(session.rounds[0])
    /\ p \in Froms(view[p][r])
    /\ {m \in view[p][r] : m.from # p} = Contents(OthersOf(session.rounds, p, r))
    /\ Cardinality(OthersOf(session.rounds, p, r)) = M - 1

ClientOK(p) ==
    /\ pc[p] # "done" =>
          /\ \A r \in Round : r < round[p] => p \in Froms(view[p][r])
          /\ \A r \in Round : r < round[p] - 1 => Whole(p, r)
    /\ pc[p] = "storing" => round[p] = LastRound + 2
    /\ pc[p] \in {"out", "posting", "polling"} => round[p] <= LastRound + 1
    /\ pc[p] = "out" => round[p] = 0
    /\ pc[p] = "polling" => round[p] > 0

ClientInv == \A p \in Party : ClientOK(p)

LiveOK(h) ==
    h.live =>
        /\ pc[h.from] = "posting"
        /\ round[h.from] = h.round
        /\ h.round > 0 => Whole(h.from, h.round - 1)

LiveInv ==
    /\ \A h \in posts : LiveOK(h)
    /\ \A g, h \in posts : g.live /\ h.live /\ g.from = h.from => g = h

\* The signature is what some party computed that is done.
SigInv ==
    signature # NoSignature =>
        \E p \in Party : /\ pc[p] = "done" /\ signature = view[p]
                         /\ \A r \in Round : Whole(p, r)

IInv ==
    /\ TypeOK /\ DocInv /\ SnapInv /\ PriorInv
    /\ ViewInv /\ OnceInv /\ ClientInv /\ LiveInv /\ SigInv

-----------------------------------------------------------------------------
(* Types. *)

LEMMA Sizes ==
    /\ M \in Nat \ {0}
    /\ 0 \in Round /\ LastRound \in Round /\ LastRound \in Nat
    /\ \A r : r \in Round <=> r \in Nat /\ r <= LastRound
<1>1. Cardinality(Party) \in Nat
  BY RoundsAssumption, FS_CardinalityType
<1>2. QED
  BY <1>1, RoundsAssumption, SignAssumption DEF Round

LEMMA NoSessionDoc == NoSession \in Doc
  BY DEF NoSession, NoRounds, Doc

LEMMA InitOK == Init => IInv
<1> SUFFICES ASSUME Init PROVE IInv
  OBVIOUS
<1>1. TypeOK
  <2>1. session \in Doc
    BY NoSessionDoc DEF Init
  <2>2. round \in [Party -> 0 .. LastRound + 2] /\ faults \in Nat
    BY Sizes DEF Init
  <2>3. view \in [Party -> [Round -> SUBSET Sent]]
    BY DEF Init, NoRounds
  <2>4. QED
    BY <2>1, <2>2, <2>3 DEF Init, TypeOK
<1>2. DocInv
  <2>1. \A r \in Round : Cardinality(NoRounds[r]) <= M
    BY FS_EmptySet, Sizes DEF NoRounds
  <2>2. QED
    BY <2>1, NoRoundsOK DEF Init, NoSession, DocInv, Nested, NoRounds, Froms
<1>3. ViewInv
  BY DEF Init, ViewInv, ViewOK, NoRounds
<1>o. OnceInv
  BY DEF Init, OnceInv, OnceOK, NoSession, NoRounds, Froms
<1>4. ClientInv
  BY Sizes DEF Init, ClientInv, ClientOK
<1>5. SnapInv /\ PriorInv /\ LiveInv /\ SigInv
  BY DEF Init, SnapInv, PriorInv, LiveInv, SigInv
<1>6. QED
  BY <1>1, <1>2, <1>3, <1>o, <1>4, <1>5 DEF IInv

ClientTypes ==
    /\ pc \in [Party -> {"out", "posting", "polling", "storing", "done"}]
    /\ round \in [Party -> 0 .. LastRound + 2]
    /\ view \in [Party -> [Round -> SUBSET Sent]]

\* The kinds of step a request takes, for the client it belongs to.
LEMMA SucceedType ==
    ASSUME TypeOK, NEW h \in posts, Succeed(h)
    PROVE  ClientTypes'
<1>1. h.from \in Party /\ h.round \in Round /\ h.att \in Attempt
  BY DEF TypeOK, PostRequest
<1>2. CASE h.live
  <2>1. h.round + 1 \in 0 .. LastRound + 2
    BY <1>1, Sizes
  <2>2. {[from |-> h.from, att |-> h.att]} \in SUBSET Sent
    BY <1>1 DEF Sent
  <2>3. view' \in [Party -> [Round -> SUBSET Sent]]
    <3> DEFINE own == {[from |-> h.from, att |-> h.att]}
    <3>1. view' = [view EXCEPT ![h.from][h.round] = own] /\ own \in SUBSET Sent
      BY <1>2, <2>2 DEF Succeed
    <3> HIDE DEF own
    <3>2. view \in [Party -> [Round -> SUBSET Sent]]
      BY DEF TypeOK
    <3>3. QED
      BY <1>1, <3>1, <3>2
  <2>4. round' \in [Party -> 0 .. LastRound + 2]
    <3> DEFINE rounds == 0 .. LastRound + 2
    <3>1. round \in [Party -> rounds] /\ round' = [round EXCEPT ![h.from] = h.round + 1]
      BY <1>2 DEF Succeed, TypeOK
    <3>2. h.round + 1 \in rounds
      BY <2>1
    <3> HIDE DEF rounds
    <3>3. round' \in [Party -> rounds]
      BY <1>1, <3>1, <3>2
    <3>4. QED
      BY <3>3 DEF rounds
  <2>5. pc' \in [Party -> {"out", "posting", "polling", "storing", "done"}]
    BY <1>1, <1>2 DEF Succeed, TypeOK
  <2>6. QED
    BY <2>3, <2>4, <2>5 DEF ClientTypes
<1>3. CASE ~h.live
  BY <1>3 DEF Succeed, TypeOK, clients, ClientTypes
<1>4. QED
  BY <1>2, <1>3

LEMMA FailType ==
    ASSUME TypeOK, NEW h \in posts, Fail(h)
    PROVE  ClientTypes'
<1>1. h.from \in Party /\ view \in [Party -> [Round -> SUBSET Sent]]
  BY DEF TypeOK, PostRequest
<1>2. CASE Restored(h.from)
  <2> DEFINE b == round[h.from] - 1
             own == {m \in view[h.from][b] : m.from = h.from}
             f == [view[h.from] EXCEPT ![b] = own]
  <2>1. view' = [view EXCEPT ![h.from][b] = own]
    BY <1>2 DEF Restored
  <2>2. b \in Round => own \in SUBSET Sent
    BY <1>1
  <2> HIDE DEF b, own
  <2>3. f \in [Round -> SUBSET Sent] /\ view' = [view EXCEPT ![h.from] = f]
    BY <1>1, <2>1, <2>2
  <2> HIDE DEF f
  <2>4. view' \in [Party -> [Round -> SUBSET Sent]]
    BY <1>1, <2>3
  <2>5. QED
    BY <1>1, <1>2, <2>4 DEF Restored, TypeOK, ClientTypes
<1>3. CASE NotStarted(h.from) \/ UNCHANGED clients
  BY <1>1, <1>3 DEF NotStarted, clients, TypeOK, ClientTypes
<1>4. QED
  BY <1>2, <1>3, SucceedType DEF Fail

LEMMA PostType ==
    ASSUME TypeOK, NEW p \in Party, NEW r \in Round, Post(p, r)
    PROVE  /\ posts' \in SUBSET PostRequest
           /\ pc' \in [Party -> {"out", "posting", "polling", "storing", "done"}]
<1>1. ASSUME NEW a \in Attempt
      PROVE  [from |-> p, round |-> r, att |-> a, at |-> "fetch", live |-> TRUE,
              seen |-> NoSession] \in PostRequest
  BY NoSessionDoc DEF PostRequest
<1>2. posts' \in SUBSET PostRequest
  BY <1>1 DEF Post, TypeOK
<1>3. QED
  BY <1>2 DEF Post, TypeOK

LEMMA TypeNext == ASSUME TypeOK, DocInv, SnapInv, ClientInv, Next PROVE TypeOK'
<1>1. ASSUME NEW p \in Party, Start(p) PROVE TypeOK'
  BY <1>1, PostType, Sizes DEF Start, server, TypeOK
<1>2. ASSUME NEW p \in Party, NextRound(p) \/ FinishSignature(p) \/ TakeSignature(p) PROVE TypeOK'
  <2>1. pc[p] = "polling" /\ view' = TakenIn(p) /\ UNCHANGED server
    BY <1>2 DEF NextRound, FinishSignature, TakeSignature, Ready, server
  <2>2. round[p] > 0 /\ round[p] <= LastRound + 1 /\ round[p] \in 0 .. LastRound + 2
    BY <2>1 DEF ClientInv, ClientOK, TypeOK
  <2>3. round[p] - 1 \in Round
    BY <2>2, Sizes
  <2>4. view' \in [Party -> [Round -> SUBSET Sent]]
    BY <2>1, <2>3 DEF TakenIn, TypeOK, Contents, OthersOf, Doc, Message, Sent
  <2>5. CASE NextRound(p)
    <3>1. round[p] \in Round
      BY <2>2, <2>5, Sizes DEF NextRound
    <3>2. QED
      BY <2>1, <2>4, <2>5, <3>1, PostType DEF NextRound, server, TypeOK
  <2>6. CASE FinishSignature(p) \/ TakeSignature(p)
    <3>1. round[p] + 1 \in 0 .. LastRound + 2
      BY <2>2, Sizes
    <3>2. round' = [round EXCEPT ![p] = round[p] + 1]
      BY <2>6 DEF FinishSignature, TakeSignature, TypeOK
    <3>3. round' \in [Party -> 0 .. LastRound + 2]
      <4> DEFINE S == 0 .. LastRound + 2
      <4>1. round \in [Party -> S] /\ round[p] + 1 \in S
        BY <3>1 DEF TypeOK
      <4> HIDE DEF S
      <4>2. round' \in [Party -> S]
        BY <3>2, <4>1
      <4>3. QED
        BY <4>2 DEF S
    <3>4. QED
      BY <2>1, <2>4, <2>6, <3>3 DEF FinishSignature, TakeSignature, server, TypeOK
  <2>7. QED
    BY <1>2, <2>5, <2>6
<1>4. ASSUME NEW p \in Party, StoreSignature(p) PROVE TypeOK'
  BY <1>4 DEF StoreSignature, SignatureOf, TypeOK
<1>5. ASSUME NEW h \in posts, Handle(h) \/ LoseReply(h) \/ LoseRequest(h) PROVE TypeOK'
  <2>h. h \in PostRequest
    BY DEF TypeOK
  <2>1. ASSUME NEW at \in {"fetch", "insert", "join", "push", "refetch"}, NEW seen \in Doc
        PROVE  [h EXCEPT !.at = at, !.seen = seen] \in PostRequest
    BY <2>h DEF PostRequest
  <2>2. CASE Fetch(h)
    <3>1. CASE Refuse(h)
      BY <2>2, <3>1, FailType DEF Fetch, Refuse, server, ClientTypes, TypeOK
    <3>2. CASE \E at \in {"push", "join", "insert"} : Proceed(h, at, session)
      <4>1. PICK at \in {"push", "join", "insert"} : Proceed(h, at, session)
        BY <3>2
      <4>2. [h EXCEPT !.at = at, !.seen = session] \in PostRequest
        BY <2>1 DEF TypeOK
      <4>3. UNCHANGED faults
        BY <2>2 DEF Fetch
      <4>4. QED
        BY <4>1, <4>2, <4>3 DEF Proceed, server, clients, TypeOK
    <3>3. QED
      BY <2>2, <3>1, <3>2 DEF Fetch
  <2>3. CASE InitSession(h)
    <3>1. CASE SessionIdTaken
      BY <2>3, <3>1, FailType DEF InitSession, ClientTypes, TypeOK
    <3>2. CASE ~SessionIdTaken
      <4>1. h.from \in Party /\ <<h.from>> \in Seq(Party)
        BY <2>h DEF PostRequest
      <4>2. Pushed(NoRounds, h.from, h.att, 0) \in [Round -> SUBSET Message]
        BY <2>h, <4>1, FirstRoundOK DEF RoundsOK, PostRequest
      <4>3. session' \in Doc
        <5>1. [rounds |-> Pushed(NoRounds, h.from, h.att, 0), participants |-> <<h.from>>,
               version |-> 0] \in Doc
          BY <4>1, <4>2 DEF Doc
        <5>2. QED
          BY <2>3, <3>2, <5>1 DEF InitSession
      <4>4. QED
        BY <2>3, <3>2, <4>3, SucceedType DEF InitSession, ClientTypes, TypeOK
    <3>3. QED
      BY <3>1, <3>2
  <2>4. CASE StoreParticipant(h)
    <3>1. CASE UpToDate(h)
      <4>1. h.from \in Party /\ Append(session.participants, h.from) \in Seq(Party)
        BY <2>h DEF TypeOK, PostRequest, Doc
      <4>2. session' \in Doc
        BY <2>4, <3>1, <4>1 DEF StoreParticipant, TypeOK, Doc
      <4>3. [h EXCEPT !.at = "push"] \in PostRequest
        BY <2>h DEF PostRequest
      <4>4. QED
        BY <2>4, <3>1, <4>2, <4>3 DEF StoreParticipant, clients, TypeOK
    <3>2. CASE ~UpToDate(h)
      BY <2>1, <2>4, <3>2, NoSessionDoc DEF StoreParticipant, Proceed, server, clients, TypeOK
    <3>3. QED
      BY <3>1, <3>2
  <2>5. CASE PushMessage(h)
    <3>1. CASE Refuse(h)
      BY <2>5, <3>1, FailType DEF PushMessage, Refuse, server, ClientTypes, TypeOK
    <3>2. CASE Proceed(h, "refetch", h.seen)
      <4>1. h.seen \in Doc
        BY <2>h DEF PostRequest
      <4>2. [h EXCEPT !.at = "refetch", !.seen = h.seen] \in PostRequest
        BY <2>1, <4>1
      <4>3. QED
        BY <2>5, <3>2, <4>2 DEF PushMessage, Proceed, server, clients, TypeOK
    <3>3. CASE /\ session' = [session EXCEPT !.rounds = Pushed(@, h.from, h.att, h.round),
                                             !.version = @ + 1]
               /\ posts' = posts \ {h}
               /\ Succeed(h)
               /\ UNCHANGED signature
      <4>1. Pushed(session.rounds, h.from, h.att, h.round) \in [Round -> SUBSET Message]
        BY <2>h, PushedRounds DEF DocInv, RoundsOK, PostRequest
      <4>2. session' \in Doc
        <5>1. session.version + 1 \in Nat
          BY DEF TypeOK, Doc
        <5>2. QED
          BY <3>3, <4>1, <5>1 DEF TypeOK, Doc
      <4>3. QED
        BY <2>5, <3>3, <4>2, SucceedType DEF PushMessage, ClientTypes, TypeOK
    <3>4. QED
      BY <2>5, <3>1, <3>2, <3>3 DEF PushMessage
  <2>6. CASE FetchAgain(h)
    BY <2>1, <2>6 DEF FetchAgain, Proceed, server, clients, TypeOK
  <2>7. CASE LoseReply(h)
    <3>1. [h EXCEPT !.live = FALSE] \in PostRequest
      BY <2>h DEF PostRequest
    <3>2. faults' \in Nat
      BY <2>7 DEF LoseReply, TypeOK
    <3>3. QED
      BY <2>7, <3>1, <3>2, FailType DEF LoseReply, server, ClientTypes, TypeOK
  <2>8. CASE LoseRequest(h)
    BY <2>8, FailType DEF LoseRequest, Refuse, server, ClientTypes, TypeOK
  <2>9. QED
    BY <1>5, <2>2, <2>3, <2>4, <2>5, <2>6, <2>7, <2>8 DEF Handle
<1>6. QED
  BY <1>1, <1>2, <1>4, <1>5 DEF Next, Client

-----------------------------------------------------------------------------
(* The steps, as the invariants tell them apart. *)

PushStep(h) ==
    /\ h.at = "push"
    /\ Pushable(session.rounds, M, h.from, h.round)
    /\ session' = [session EXCEPT !.rounds = Pushed(@, h.from, h.att, h.round),
                                  !.version = @ + 1]
    /\ posts' = posts \ {h} /\ Succeed(h) /\ UNCHANGED signature

InitStep(h) ==
    /\ h.round = 0 /\ ~Stored(session.rounds)
    /\ session' = [rounds |-> Pushed(NoRounds, h.from, h.att, 0), participants |-> <<h.from>>,
                   version |-> 0]
    /\ posts' = posts \ {h} /\ Succeed(h) /\ UNCHANGED signature

JoinStep(h) ==
    /\ h.at = "join"
    /\ session' = [session EXCEPT !.participants = Append(@, h.from)]
    /\ posts' = (posts \ {h}) \cup {[h EXCEPT !.at = "push"]}
    /\ UNCHANGED <<signature, clients>>

Stages == {"fetch", "push", "join", "insert", "refetch"}

ProceedStep(h, at, seen) ==
    /\ Proceed(h, at, seen)
    /\ \/ at = "refetch" /\ h.at = "push" /\ seen = h.seen
       \/ at = "fetch"
       \/ at \in {"push", "join"} /\ seen = session /\ Stored(session.rounds)
       \/ at = "insert" /\ seen = session /\ h.round = 0

RequestStep(h) ==
    \/ PushStep(h) \/ InitStep(h) \/ Refuse(h) \/ JoinStep(h) \/ LoseReply(h)
    \/ \E at \in Stages : \E seen \in Doc : ProceedStep(h, at, seen)

LEMMA Steps ==
    ASSUME TypeOK, SnapInv, NEW h \in posts, Handle(h) \/ LoseReply(h) \/ LoseRequest(h)
    PROVE  RequestStep(h)
<1>h. h \in PostRequest /\ h.seen \in Doc /\ session \in Doc
  BY DEF TypeOK, PostRequest
<1>1. CASE Fetch(h)
  <2>1. CASE Refuse(h)
    BY <2>1 DEF RequestStep
  <2>2. CASE Stored(session.rounds) /\ \E at \in {"push", "join"} : Proceed(h, at, session)
    BY <1>h, <2>2 DEF RequestStep, ProceedStep, Stages
  <2>3. CASE h.round = 0 /\ Proceed(h, "insert", session)
    BY <1>h, <2>3 DEF RequestStep, ProceedStep, Stages
  <2>4. QED
    BY <1>1, <2>1, <2>2, <2>3 DEF Fetch
<1>2. CASE InitSession(h)
  <2>1. CASE SessionIdTaken
    BY <1>2, <2>1 DEF InitSession, RequestStep, Refuse, server
  <2>2. CASE ~SessionIdTaken
    <3>1. h.round = 0
      BY <1>2 DEF InitSession, SnapInv, SnapOK
    <3>2. QED
      BY <1>2, <2>2, <3>1 DEF InitSession, SessionIdTaken, RequestStep, InitStep
  <2>3. QED
    BY <2>1, <2>2
<1>3. CASE StoreParticipant(h)
  <2>1. CASE UpToDate(h)
    BY <1>3, <2>1 DEF StoreParticipant, RequestStep, JoinStep
  <2>2. CASE ~UpToDate(h)
    BY <1>3, <2>2, NoSessionDoc DEF StoreParticipant, RequestStep, ProceedStep, Stages
  <2>3. QED
    BY <2>1, <2>2
<1>4. CASE PushMessage(h)
  <2>1. h.at = "push"
    BY <1>4 DEF PushMessage
  <2>2. CASE ~Pushable(h.seen.rounds, M, h.from, h.round)
    BY <1>4, <2>2 DEF PushMessage, RequestStep
  <2>3. CASE Pushable(h.seen.rounds, M, h.from, h.round) /\ UpToDate(h)
    <3>1. h.seen.rounds = session.rounds
      BY <2>1, <2>3 DEF UpToDate, SnapInv, SnapOK
    <3>2. PushStep(h)
      BY <1>4, <2>1, <2>3, <3>1 DEF PushMessage, PushStep
    <3>3. QED
      BY <3>2 DEF RequestStep
  <2>4. CASE Pushable(h.seen.rounds, M, h.from, h.round) /\ ~UpToDate(h)
    BY <1>h, <1>4, <2>1, <2>4 DEF PushMessage, RequestStep, ProceedStep, Stages
  <2>5. QED
    BY <2>2, <2>3, <2>4
<1>5. CASE FetchAgain(h)
  <2>1. Stored(session.rounds)
    BY <1>5 DEF FetchAgain, SnapInv, SnapOK
  <2>2. QED
    BY <1>h, <1>5, <2>1 DEF FetchAgain, RequestStep, ProceedStep, Stages
<1>6. CASE LoseReply(h) \/ LoseRequest(h)
  BY <1>6 DEF LoseRequest, RequestStep
<1>7. QED
  BY <1>1, <1>2, <1>3, <1>4, <1>5, <1>6 DEF Handle

\* Client steps leave the document alone and post from where the client is.
LEMMA ClientStep ==
    ASSUME NEW p \in Party, Client(p)
    PROVE  /\ session' = session
           /\ \A g \in posts' : g \in posts \/ (g.at = "fetch" /\ g.from = p)
  BY DEF Client, Start, NextRound, FinishSignature, TakeSignature, StoreSignature, server, Post

\* Only two steps change the rounds, and only by one message.
LEMMA RoundsStep ==
    ASSUME TypeOK, DocInv, SnapInv, Next
    PROVE  \/ session'.rounds = session.rounds /\ session'.version = session.version
           \/ \E h \in posts : PushStep(h) \/ InitStep(h)
<1>1. ASSUME NEW h \in posts, Handle(h) \/ LoseReply(h) \/ LoseRequest(h)
      PROVE  \/ session'.rounds = session.rounds /\ session'.version = session.version
             \/ PushStep(h) \/ InitStep(h)
  <2>1. RequestStep(h)
    BY <1>1, Steps
  <2>2. CASE JoinStep(h)
    BY <2>2 DEF JoinStep, TypeOK, Doc
  <2>3. CASE Refuse(h) \/ LoseReply(h)
             \/ \E at \in Stages : \E seen \in Doc : ProceedStep(h, at, seen)
    BY <2>3 DEF Refuse, LoseReply, ProceedStep, Proceed, server
  <2>4. QED
    BY <2>1, <2>2, <2>3 DEF RequestStep
<1>2. QED
  BY <1>1, ClientStep DEF Next

\* A document that is not stored has no message in any round.
LEMMA Unstored ==
    ASSUME TypeOK, DocInv, ~Stored(session.rounds)
    PROVE  session.rounds = NoRounds
<1>1. ASSUME NEW r \in Round, session.rounds[r] # {} PROVE FALSE
  <2>1. r # 0 /\ 0 \in Round /\ 0 < r
    BY <1>1, Sizes DEF Stored
  <2>2. Cardinality(session.rounds[0]) = M
    BY <1>1, <2>1 DEF DocInv, RoundsOK
  <2>3. QED
    BY <2>2, FS_EmptySet, Sizes DEF Stored
<1>2. session.rounds \in [Round -> SUBSET Message]
  BY DEF TypeOK, Doc
<1>3. QED
  BY <1>1, <1>2 DEF NoRounds

-----------------------------------------------------------------------------
(* Who sends in a round.                                                    *)

LEMMA FromsCount ==
    ASSUME NEW rounds, RoundsOK(rounds, M), NEW r \in Round, NEW S \in SUBSET rounds[r]
    PROVE  /\ IsFiniteSet(S) /\ IsFiniteSet(Froms(S))
           /\ Cardinality(Froms(S)) = Cardinality(S) /\ Cardinality(S) \in Nat
<1>1. IsFiniteSet(S) /\ \A m, n \in S : m.from = n.from => m = n
  BY FS_Subset DEF RoundsOK
<1>2. QED
  BY <1>1, SendersCount, FS_CardinalityType DEF Froms

\* The messages of M are one of each party of the first round.
LEMMA SameSigners ==
    ASSUME NEW rounds, RoundsOK(rounds, M), Nested(rounds),
           \A s \in Round : Cardinality(rounds[s]) <= M,
           NEW r \in Round, Cardinality(rounds[r]) = M
    PROVE  Froms(rounds[r]) = Froms(rounds[0])
<1>1. Froms(rounds[r]) \subseteq Froms(rounds[0]) /\ Cardinality(Froms(rounds[r])) = M
  BY FromsCount DEF Nested
<1>2. IsFiniteSet(Froms(rounds[0])) /\ Cardinality(Froms(rounds[0])) <= M
      /\ Cardinality(Froms(rounds[0])) \in Nat
  BY FromsCount, Sizes
<1>3. Cardinality(Froms(rounds[r])) <= Cardinality(Froms(rounds[0]))
  BY <1>1, <1>2, FS_Subset
<1>4. Cardinality(Froms(rounds[r])) = Cardinality(Froms(rounds[0]))
  BY <1>1, <1>2, <1>3, Sizes
<1>5. QED
  BY <1>1, <1>2, <1>4, FS_Subset

\* All the others' messages of a round are one of each other of the first.
LEMMA OtherSigners ==
    ASSUME NEW rounds, RoundsOK(rounds, M), Nested(rounds),
           \A s \in Round : Cardinality(rounds[s]) <= M,
           NEW r \in Round, NEW p \in Froms(rounds[0]),
           Cardinality(OthersOf(rounds, p, r)) = M - 1
    PROVE  /\ Froms(OthersOf(rounds, p, r)) = Froms(rounds[0]) \ {p}
           /\ Cardinality(rounds[0]) = M
<1> DEFINE T == Froms(OthersOf(rounds, p, r))
           S == Froms(rounds[0])
<1>1. OthersOf(rounds, p, r) \subseteq rounds[r]
  BY DEF OthersOf
<1>2. IsFiniteSet(T) /\ Cardinality(T) = M - 1
  BY <1>1, FromsCount
<1>3. IsFiniteSet(S) /\ Cardinality(S) = Cardinality(rounds[0]) /\ Cardinality(S) <= M
      /\ Cardinality(S) \in Nat
  BY FromsCount, Sizes
<1>4. T \subseteq S \ {p}
  BY DEF OthersOf, Nested, Froms
<1> HIDE DEF T, S
<1>5. IsFiniteSet(S \ {p}) /\ Cardinality(S \ {p}) = Cardinality(S) - 1
  BY <1>3, FS_RemoveElement DEF S
<1>6. Cardinality(T) <= Cardinality(S \ {p})
  BY <1>4, <1>5, FS_Subset
<1>7. Cardinality(S) = M /\ Cardinality(T) = Cardinality(S \ {p})
  BY <1>2, <1>3, <1>5, <1>6, Sizes
<1>8. T = S \ {p}
  BY <1>4, <1>5, <1>7, FS_Subset
<1>9. QED
  BY <1>3, <1>7, <1>8 DEF T, S

\* A message is added by somebody of the first round; rounds that are
\* complete, or that lack only p's message, do not change but for that one.
DocStep ==
    /\ DocInv'
    /\ \A r \in Round :
          /\ session.rounds[r] \subseteq session'.rounds[r]
          /\ \A p \in Froms(session.rounds[0]) :
                Cardinality(OthersOf(session.rounds, p, r)) = M - 1 =>
                    OthersOf(session'.rounds, p, r) = OthersOf(session.rounds, p, r)

LEMMA DocNext ==
    ASSUME TypeOK, DocInv, SnapInv, PriorInv, Next
    PROVE  DocStep
<1>d. /\ RoundsOK(session.rounds, M) /\ Nested(session.rounds)
      /\ \A r \in Round : Cardinality(session.rounds[r]) <= M
  BY DEF DocInv
<1>1. CASE session'.rounds = session.rounds
  BY <1>1 DEF DocStep, DocInv
<1>2. ASSUME NEW h \in posts, PushStep(h) PROVE DocStep
  <2>1. h.from \in Party /\ h.round \in Round /\ h.att \in Attempt
    BY DEF TypeOK, PostRequest
  <2>2. session'.rounds = Pushed(session.rounds, h.from, h.att, h.round)
    BY <1>2 DEF PushStep, TypeOK, Doc
  <2>3. RoundsOK(session'.rounds, M)
    BY <1>2, <2>1, <2>2, PushKeeps, Sizes DEF PushStep, DocInv
  <2> DEFINE x == [from |-> h.from, att |-> h.att, at |-> Cardinality(session.rounds[h.round])]
  <2>4. /\ \A s \in Round : s # h.round => session'.rounds[s] = session.rounds[s]
        /\ session'.rounds[h.round] = session.rounds[h.round] \cup {x}
        /\ x.from = h.from
    BY <2>1, <2>2, PushedRounds DEF DocInv, RoundsOK
  <2> HIDE DEF x
  <2>5. /\ Cardinality(session.rounds[h.round]) # M
        /\ \A m \in session.rounds[h.round] : m.from # h.from
    <3>1. Pushable(session.rounds, M, h.from, h.round)
      BY <1>2 DEF PushStep
    <3>2. Cardinality(session.rounds[h.round]) # M
      BY <1>d, <2>1, <3>1, PushableRound, Sizes
    <3>3. QED
      BY <3>1, <3>2 DEF Pushable
  <2>6. \A r \in Round : Cardinality(session'.rounds[r]) <= M
    <3>1. /\ IsFiniteSet(session.rounds[h.round]) /\ x \notin session.rounds[h.round]
          /\ Cardinality(session.rounds[h.round]) \in Nat
      BY <1>d, <2>1, <2>4, <2>5, FS_CardinalityType DEF RoundsOK
    <3>2. Cardinality(session'.rounds[h.round]) = Cardinality(session.rounds[h.round]) + 1
      BY <2>4, <3>1, FS_AddElement
    <3>3. Cardinality(session'.rounds[h.round]) <= M
      BY <1>d, <2>1, <2>5, <3>1, <3>2, Sizes
    <3>4. QED
      BY <1>d, <2>4, <3>3
  <2>7. \A r \in Round : session.rounds[r] \subseteq session'.rounds[r]
    BY <2>4
  <2>8. Froms(session.rounds[0]) \subseteq Froms(session'.rounds[0])
    BY <2>7, Sizes DEF Froms
  <2>9. Nested(session'.rounds)
    <3>1. ASSUME NEW r \in Round, NEW m \in session'.rounds[r]
          PROVE  m.from \in Froms(session'.rounds[0])
      <4>1. CASE r = 0
        BY <3>1, <4>1 DEF Froms
      <4>2. CASE m \in session.rounds[r]
        BY <1>d, <2>8, <4>2 DEF Nested, Froms
      <4>3. CASE r # 0 /\ m \notin session.rounds[r]
        <5>1. m = x /\ h.round > 0
          BY <2>1, <2>4, <3>1, <4>3, Sizes
        <5>2. QED
          BY <2>4, <2>8, <5>1 DEF PriorInv, PriorOK
      <4>4. QED
        BY <4>1, <4>2, <4>3
    <3>2. QED
      BY <3>1 DEF Nested, Froms
  <2>10. ASSUME NEW r \in Round, NEW p \in Froms(session.rounds[0]),
                Cardinality(OthersOf(session.rounds, p, r)) = M - 1
         PROVE  OthersOf(session'.rounds, p, r) = OthersOf(session.rounds, p, r)
    <3>1. CASE r # h.round
      BY <2>4, <3>1 DEF OthersOf
    <3>2. CASE r = h.round /\ h.from = p
      BY <2>4, <3>2 DEF OthersOf
    <3>3. CASE r = h.round /\ h.from # p
      <4>1. /\ Froms(OthersOf(session.rounds, p, r)) = Froms(session.rounds[0]) \ {p}
            /\ Cardinality(session.rounds[0]) = M
        BY <1>d, <2>10, OtherSigners
      <4>2. h.round > 0
        BY <2>1, <2>5, <4>1, Sizes
      <4>3. h.from \in Froms(OthersOf(session.rounds, p, r))
        BY <3>3, <4>1, <4>2 DEF PriorInv, PriorOK
      <4>4. QED
        BY <2>5, <3>3, <4>3 DEF Froms, OthersOf
    <3>4. QED
      BY <3>1, <3>2, <3>3
  <2>11. QED
    BY <2>3, <2>6, <2>7, <2>9, <2>10 DEF DocStep, DocInv
<1>3. ASSUME NEW h \in posts, InitStep(h) PROVE DocStep
  <2>1. /\ h.from \in Party /\ h.att \in Attempt
        /\ session'.rounds = Pushed(NoRounds, h.from, h.att, 0)
    BY <1>3 DEF TypeOK, PostRequest, InitStep
  <2>2. RoundsOK(session'.rounds, M)
    BY <2>1, FirstRoundOK
  <2>3. session.rounds = NoRounds
    BY <1>3, Unstored DEF InitStep
  <2>4. \A r \in Round : session.rounds[r] = {}
    BY <2>3 DEF NoRounds
  <2>5. \A r \in Round : r # 0 => session'.rounds[r] = {}
    BY <2>1 DEF Pushed, NoRounds
  <2>6. Nested(session'.rounds)
    BY <2>5 DEF Nested, Froms
  <2>7. \A r \in Round : Cardinality(session'.rounds[r]) <= M
    <3>1. \E x : session'.rounds[0] = {x}
      BY <2>1, Sizes DEF Pushed, NoRounds
    <3>2. Cardinality(session'.rounds[0]) = 1
      BY <3>1, FS_Singleton
    <3>3. QED
      BY <2>5, <3>2, FS_EmptySet, Sizes
  <2>8. Froms(session.rounds[0]) = {}
    BY <2>4, Sizes DEF Froms
  <2>9. QED
    BY <2>2, <2>4, <2>6, <2>7, <2>8 DEF DocStep, DocInv
<1>4. QED
  BY <1>1, <1>2, <1>3, RoundsStep

-----------------------------------------------------------------------------
(* Snapshots. *)

LEMMA SnapNext == ASSUME TypeOK, DocInv, SnapInv, PriorInv, Next PROVE SnapInv'
<1>1. ASSUME NEW p \in Party, Client(p) PROVE SnapInv'
  BY <1>1, ClientStep DEF SnapInv, SnapOK
<1>2. ASSUME NEW h \in posts, RequestStep(h) PROVE SnapInv'
  <2>h. h \in PostRequest /\ session \in Doc /\ \A g \in posts : SnapOK(g)
    BY DEF TypeOK, SnapInv
  <2>1. CASE PushStep(h)
    <3>1. session'.version = session.version + 1 /\ session.version \in Nat
      BY <2>h, <2>1 DEF PushStep, Doc
    <3>2. Stored(session.rounds) /\ posts' = posts \ {h}
      BY <2>h, <2>1 DEF PushStep, SnapOK
    <3>3. Stored(session'.rounds)
      BY <3>2, DocNext, Sizes DEF Stored, DocStep
    <3>4. ASSUME NEW g \in posts PROVE SnapOK(g)'
      <4>1. SnapOK(g) /\ g.seen.version \in Nat
        BY <2>h DEF TypeOK, PostRequest, Doc
      <4>2. QED
        BY <3>1, <3>3, <4>1 DEF SnapOK
    <3>5. QED
      BY <3>2, <3>4 DEF SnapInv
  <2>2. CASE InitStep(h)
    <3>1. \A g \in posts : g.at \notin {"join", "push", "refetch"}
      BY <2>h, <2>2 DEF InitStep, SnapOK
    <3>2. QED
      BY <2>h, <2>2, <3>1 DEF InitStep, SnapInv, SnapOK
  <2>3. CASE Refuse(h)
    BY <2>h, <2>3 DEF Refuse, server, SnapInv, SnapOK
  <2>4. CASE JoinStep(h)
    <3>1. session'.rounds = session.rounds /\ session'.version = session.version
      BY <2>h, <2>4 DEF JoinStep, Doc
    <3>2. SnapOK([h EXCEPT !.at = "push"])'
      <4>1. SnapOK(h) /\ h.at = "join"
        BY <2>h, <2>4 DEF JoinStep
      <4>2. [h EXCEPT !.at = "push"].seen = h.seen /\ [h EXCEPT !.at = "push"].at = "push"
        BY <2>h DEF PostRequest
      <4>3. QED
        BY <3>1, <4>1, <4>2 DEF SnapOK
    <3>3. \A g \in posts : SnapOK(g)'
      BY <2>h, <3>1 DEF SnapOK
    <3>4. QED
      BY <2>4, <3>2, <3>3 DEF JoinStep, SnapInv
  <2>5. CASE LoseReply(h)
    <3>1. UNCHANGED session /\ posts' = (posts \ {h}) \cup {[h EXCEPT !.live = FALSE]}
      BY <2>5 DEF LoseReply, server
    <3>2. SnapOK([h EXCEPT !.live = FALSE])
      <4>1. /\ [h EXCEPT !.live = FALSE].seen = h.seen /\ [h EXCEPT !.live = FALSE].at = h.at
            /\ [h EXCEPT !.live = FALSE].round = h.round
        BY <2>h DEF PostRequest
      <4>2. QED
        BY <2>h, <4>1 DEF SnapOK
    <3>3. QED
      BY <2>h, <3>1, <3>2 DEF SnapInv, SnapOK
  <2>6. ASSUME NEW at \in Stages, NEW seen \in Doc, ProceedStep(h, at, seen)
        PROVE  SnapInv'
    <3> DEFINE g == [h EXCEPT !.at = at, !.seen = seen]
    <3>1. UNCHANGED session /\ posts' = (posts \ {h}) \cup {g}
      BY <2>6 DEF ProceedStep, Proceed, server
    <3>2. g.at = at /\ g.seen = seen /\ g.round = h.round
      BY <2>h DEF PostRequest
    <3>3. SnapOK(g)
      <4>1. CASE at = "refetch" /\ h.at = "push" /\ seen = h.seen
        BY <2>h, <3>2, <4>1 DEF SnapOK
      <4>2. CASE at \in {"push", "join"} /\ seen = session /\ Stored(session.rounds)
        <5>1. session.version <= session.version
          BY <2>h DEF Doc
        <5>2. QED
          BY <3>2, <4>2, <5>1 DEF SnapOK
      <4>3. CASE at = "insert" /\ seen = session /\ h.round = 0
        BY <3>2, <4>3 DEF SnapOK
      <4>4. CASE at = "fetch"
        BY <3>2, <4>4 DEF SnapOK
      <4>5. QED
        BY <2>6, <4>1, <4>2, <4>3, <4>4 DEF ProceedStep
    <3> HIDE DEF g
    <3>4. QED
      BY <2>h, <3>1, <3>3 DEF SnapInv, SnapOK
  <2>7. QED
    BY <1>2, <2>1, <2>2, <2>3, <2>4, <2>5, <2>6 DEF RequestStep
<1>3. QED
  BY <1>1, <1>2, Steps DEF Next

\* A client that has sent its first message is in the first round.
LEMMA InFirst ==
    ASSUME ViewInv, ClientInv, NEW p \in Party, pc[p] # "done", round[p] > 0
    PROVE  p \in Froms(session.rounds[0])
<1>1. 0 \in Round
  BY Sizes
<1>2. PICK m \in view[p][0] : m.from = p
  BY <1>1 DEF ClientInv, ClientOK, Froms
<1>3. m \in Contents(session.rounds[0])
  BY <1>1, <1>2 DEF ViewInv, ViewOK, Pending
<1>4. QED
  BY <1>2, <1>3 DEF Contents, Froms

\* A step of a request leaves at most that request in its place.
LEMMA RequestPosts ==
    ASSUME TypeOK, NEW h \in posts, RequestStep(h)
    PROVE  \A g \in posts' :
              g \in posts \/ (g.from = h.from /\ g.round = h.round /\ g.att = h.att)
<1>h. h \in PostRequest
  BY DEF TypeOK
<1>1. CASE PushStep(h) \/ InitStep(h) \/ Refuse(h)
  BY <1>1 DEF PushStep, InitStep, Refuse
<1>2. CASE JoinStep(h)
  BY <1>h, <1>2 DEF JoinStep, PostRequest
<1>3. CASE LoseReply(h)
  BY <1>h, <1>3 DEF LoseReply, PostRequest
<1>4. ASSUME NEW at \in Stages, NEW seen \in Doc, ProceedStep(h, at, seen)
      PROVE  \A g \in posts' :
                g \in posts \/ (g.from = h.from /\ g.round = h.round /\ g.att = h.att)
  BY <1>h, <1>4 DEF ProceedStep, Proceed, PostRequest
<1>5. QED
  BY <1>1, <1>2, <1>3, <1>4 DEF RequestStep

LEMMA PriorNext == ASSUME IInv, Next PROVE PriorInv'
<1>i. TypeOK /\ DocInv /\ SnapInv /\ PriorInv /\ ViewInv /\ ClientInv
  BY DEF IInv
<1>g. Froms(session.rounds[0]) \subseteq Froms(session'.rounds[0])
  BY <1>i, DocNext, Sizes DEF DocStep, Froms
<1>o. ASSUME NEW g, PriorOK(g) PROVE PriorOK(g)'
  BY <1>g, <1>o DEF PriorOK
<1>1. ASSUME NEW p \in Party, Client(p) PROVE PriorInv'
  <2>1. CASE Start(p)
    <3>1. \A g \in posts' : g \in posts \/ g.round = 0
      BY <2>1 DEF Start, Post
    <3>2. QED
      BY <1>i, <1>o, <3>1 DEF PriorInv, PriorOK
  <2>2. CASE NextRound(p)
    <3>1. pc[p] = "polling"
      BY <2>2 DEF NextRound, Ready
    <3>2. p \in Froms(session.rounds[0])
      BY <1>i, <3>1, InFirst DEF ClientInv, ClientOK
    <3>3. \A g \in posts' : g \in posts \/ g.from = p
      BY <2>2 DEF NextRound, Post
    <3>4. QED
      BY <1>i, <1>g, <1>o, <3>2, <3>3 DEF PriorInv, PriorOK
  <2>3. CASE FinishSignature(p) \/ TakeSignature(p) \/ StoreSignature(p)
    BY <1>i, <1>o, <2>3 DEF FinishSignature, TakeSignature, StoreSignature, PriorInv
  <2>4. QED
    BY <1>1, <2>1, <2>2, <2>3 DEF Client
<1>2. ASSUME NEW h \in posts, RequestStep(h) PROVE PriorInv'
  <2>1. PriorOK(h) /\ \A g \in posts' : g \in posts \/ (g.from = h.from /\ g.round = h.round)
    BY <1>i, <1>2, RequestPosts DEF PriorInv
  <2>2. \A g : g.from = h.from /\ g.round = h.round => PriorOK(g)
    BY <2>1 DEF PriorOK
  <2>3. QED
    BY <1>i, <1>o, <2>1, <2>2 DEF PriorInv
<1>3. QED
  BY <1>i, <1>1, <1>2, Steps DEF Next

-----------------------------------------------------------------------------
(* What a client computes from. *)

\* A client that sees an error goes on as if it had succeeded, or goes back.
Undone(h) ==
    \/ h.round = 0 /\ NotStarted(h.from)
    \/ h.round > 0 /\ Restored(h.from)

LEMMA FailSplit ==
    ASSUME TypeOK, NEW h \in posts, h.live, Fail(h)
    PROVE  Undone(h) \/ (Succeed(h) /\ h.from \in Encrypted /\ h.round > 0)
<1>1. h.round \in Nat
  BY Sizes DEF TypeOK, PostRequest
<1>2. QED
  BY <1>1 DEF Fail, Undone

\* What the client steps that follow a request do, point by point.
LEMMA SucceedViews ==
    ASSUME TypeOK, NEW h \in posts, h.live, Succeed(h)
    PROVE  /\ pc' = [pc EXCEPT ![h.from] = "polling"]
           /\ round'[h.from] = h.round + 1 /\ \A p \in Party : p # h.from => round'[p] = round[p]
           /\ view'[h.from][h.round] = {[from |-> h.from, att |-> h.att]}
           /\ \A p \in Party : \A r \in Round :
                 p # h.from \/ r # h.round => view'[p][r] = view[p][r]
<1>1. h.from \in Party /\ h.round \in Round
  BY DEF TypeOK, PostRequest
<1>2. ClientTypes
  BY DEF TypeOK, ClientTypes
<1> DEFINE own == {[from |-> h.from, att |-> h.att]}
<1>3. /\ pc' = [pc EXCEPT ![h.from] = "polling"]
      /\ round' = [round EXCEPT ![h.from] = h.round + 1]
      /\ view' = [view EXCEPT ![h.from][h.round] = own]
  BY DEF Succeed
<1> HIDE DEF own
<1>4. view'[h.from][h.round] = own
  BY <1>1, <1>2, <1>3 DEF ClientTypes
<1>5. \A p \in Party : \A r \in Round :
          p # h.from \/ r # h.round => view'[p][r] = view[p][r]
  BY <1>1, <1>2, <1>3 DEF ClientTypes
<1>6. round'[h.from] = h.round + 1 /\ \A p \in Party : p # h.from => round'[p] = round[p]
  BY <1>1, <1>2, <1>3 DEF ClientTypes
<1>7. QED
  BY <1>3, <1>4, <1>5, <1>6 DEF own

LEMMA FailViews ==
    ASSUME TypeOK, NEW h \in posts, Undone(h), round[h.from] = h.round
    PROVE  /\ pc' = [pc EXCEPT ![h.from] = IF h.round = 0 THEN "out" ELSE "polling"]
           /\ round' = round
           /\ \A p \in Party : \A r \in Round :
                 /\ view'[p][r] \subseteq view[p][r]
                 /\ \A m \in view[p][r] : m.from = p => m \in view'[p][r]
                 /\ r + 1 < round[p] => view'[p][r] = view[p][r]
                 /\ p # h.from => view'[p][r] = view[p][r]
<1>1. h.from \in Party /\ ClientTypes /\ h.round \in Nat /\ Round \subseteq Nat
  BY Sizes DEF TypeOK, PostRequest, ClientTypes
<1>2. CASE h.round = 0
  BY <1>2 DEF Undone, NotStarted
<1>3. CASE h.round # 0
  <2> DEFINE b == round[h.from] - 1
             own == {m \in view[h.from][b] : m.from = h.from}
  <2>1. /\ pc' = [pc EXCEPT ![h.from] = "polling"] /\ round' = round
        /\ view' = [view EXCEPT ![h.from][b] = own]
    BY <1>3 DEF Undone, Restored
  <2>2. ASSUME NEW p \in Party, NEW r \in Round
        PROVE  view'[p][r] = IF p = h.from /\ r = b THEN own ELSE view[p][r]
    <3> HIDE DEF own, b
    <3>1. QED
      BY <1>1, <2>1 DEF ClientTypes
  <2>3. \A p \in Party : \A r \in Round : r + 1 < round[p] => p # h.from \/ r # b
    BY <1>1
  <2>4. own \subseteq view[h.from][b] /\ \A m \in view[h.from][b] : m.from = h.from => m \in own
    OBVIOUS
  <2> HIDE DEF own, b
  <2>5. \A p \in Party : \A r \in Round :
            /\ view'[p][r] \subseteq view[p][r]
            /\ \A m \in view[p][r] : m.from = p => m \in view'[p][r]
            /\ r + 1 < round[p] => view'[p][r] = view[p][r]
            /\ p # h.from => view'[p][r] = view[p][r]
    BY <2>2, <2>3, <2>4
  <2>6. QED
    BY <1>3, <2>1, <2>5
<1>4. QED
  BY <1>2, <1>3

LEMMA RoundViews ==
    ASSUME TypeOK, ClientInv, NEW p \in Party,
           NextRound(p) \/ FinishSignature(p) \/ TakeSignature(p)
    PROVE  /\ round[p] - 1 \in Round /\ round[p] \in Nat \ {0} /\ pc[p] = "polling"
           /\ MessagesFor(session.rounds, M, p, round[p] - 1)
           /\ view'[p][round[p] - 1]
                = view[p][round[p] - 1] \cup Contents(OthersOf(session.rounds, p, round[p] - 1))
           /\ \A q \in Party : \A r \in Round :
                 q # p \/ r # round[p] - 1 => view'[q][r] = view[q][r]
<1>1. /\ pc[p] = "polling" /\ round[p] \in 0 .. LastRound + 2 /\ ClientTypes
      /\ MessagesFor(session.rounds, M, p, round[p] - 1)
  BY DEF NextRound, FinishSignature, TakeSignature, Ready, TypeOK, ClientTypes
<1>2. round[p] > 0 /\ round[p] <= LastRound + 1
  BY <1>1 DEF ClientInv, ClientOK
<1>3. round[p] - 1 \in Round /\ round[p] \in Nat \ {0}
  BY <1>1, <1>2, Sizes
<1> DEFINE b == round[p] - 1
           more == view[p][b] \cup Contents(OthersOf(session.rounds, p, b))
<1>4. view' = [view EXCEPT ![p][b] = more]
  BY DEF NextRound, FinishSignature, TakeSignature, TakenIn
<1>5. ASSUME NEW q \in Party, NEW r \in Round
      PROVE  view'[q][r] = IF q = p /\ r = b THEN more ELSE view[q][r]
  <2>1. b \in Round
    BY <1>3
  <2> HIDE DEF more, b
  <2>2. QED
    BY <1>1, <1>4, <2>1 DEF ClientTypes
<1>6. QED
  BY <1>1, <1>3, <1>5

\* No client goes back a round.
LEMMA RoundUp ==
    ASSUME TypeOK, SnapInv, ClientInv, LiveInv, Next, NEW p \in Party
    PROVE  round'[p] >= round[p] /\ round'[p] \in Int /\ round[p] \in Int
<1>t. /\ round \in [Party -> 0 .. LastRound + 2] /\ LastRound \in Nat
      /\ \A q \in Party : round[q] \in Int
  BY Sizes DEF TypeOK
<1>u. CASE round' = round
  BY <1>t, <1>u
<1>1. ASSUME NEW q \in Party, Client(q) PROVE round'[p] >= round[p] /\ round'[p] \in Int
  <2>1. CASE FinishSignature(q) \/ TakeSignature(q)
    <3>1. round' = [round EXCEPT ![q] = round[q] + 1]
      BY <2>1 DEF FinishSignature, TakeSignature
    <3>2. round'[p] = round[p] \/ round'[p] = round[p] + 1
      BY <1>t, <3>1
    <3>3. QED
      BY <1>t, <3>2
  <2>2. CASE Start(q) \/ NextRound(q) \/ StoreSignature(q)
    BY <1>t, <2>2 DEF Start, NextRound, StoreSignature
  <2>3. QED
    BY <1>1, <2>1, <2>2 DEF Client
<1>2. ASSUME NEW h \in posts, RequestStep(h) PROVE round'[p] >= round[p] /\ round'[p] \in Int
  <2>1. CASE Succeed(h) /\ h.live
    <3>1. round[h.from] = h.round /\ round'[h.from] = h.round + 1
          /\ (p # h.from => round'[p] = round[p])
      BY <2>1, SucceedViews DEF LiveInv, LiveOK
    <3>2. CASE p = h.from
      <4>1. round[p] \in Int /\ round'[p] = round[p] + 1
        BY <1>t, <3>1, <3>2
      <4>2. QED
        BY <4>1
    <3>3. QED
      BY <1>t, <3>1, <3>2
  <2>2. CASE h.live /\ Fail(h) /\ ~Succeed(h)
    <3>1. Undone(h) /\ round[h.from] = h.round
      BY <2>2, FailSplit DEF LiveInv, LiveOK
    <3>2. QED
      BY <1>u, <3>1, FailViews
  <2>3. CASE ~h.live /\ (Succeed(h) \/ Fail(h))
    BY <1>u, <2>3 DEF Succeed, Fail, clients
  <2>4. CASE JoinStep(h) \/ \E at \in Stages : \E seen \in Doc : ProceedStep(h, at, seen)
    BY <1>u, <2>4 DEF JoinStep, ProceedStep, Proceed, clients
  <2>5. QED
    BY <1>2, <2>1, <2>2, <2>3, <2>4 DEF RequestStep, PushStep, InitStep, Refuse, LoseReply
<1>3. QED
  BY <1>t, <1>1, <1>2, Steps DEF Next

\* Who is in a round after a step was, unless its request was the step.
LEMMA NewSender ==
    ASSUME TypeOK, DocInv, SnapInv, NEW h \in posts, RequestStep(h),
           NEW r \in Round, NEW p \in Party,
           p \in Froms(session'.rounds[r]), p \notin Froms(session.rounds[r])
    PROVE  /\ p = h.from /\ r = h.round
           /\ PushStep(h) \/ InitStep(h)
           /\ [from |-> h.from, att |-> h.att] \in Contents(session'.rounds[r])
<1>h. h.from \in Party /\ h.round \in Round /\ h.att \in Attempt
  BY DEF TypeOK, PostRequest
<1>1. PushStep(h) \/ InitStep(h)
  <2>1. CASE JoinStep(h)
    BY <2>1 DEF JoinStep, TypeOK, Doc
  <2>2. CASE Refuse(h) \/ LoseReply(h)
             \/ \E at \in Stages : \E seen \in Doc : ProceedStep(h, at, seen)
    BY <2>2 DEF Refuse, LoseReply, ProceedStep, Proceed, server
  <2>3. QED
    BY <2>1, <2>2 DEF RequestStep
<1> DEFINE x == [from |-> h.from, att |-> h.att, at |-> Cardinality(session.rounds[h.round])]
<1>2. /\ \A s \in Round : s # h.round => session'.rounds[s] = session.rounds[s]
      /\ session'.rounds[h.round] = session.rounds[h.round] \cup {x}
      /\ x.from = h.from /\ x.att = h.att
  <2>1. CASE PushStep(h)
    <3>1. session'.rounds = Pushed(session.rounds, h.from, h.att, h.round)
      BY <2>1 DEF PushStep, TypeOK, Doc
    <3>2. QED
      BY <1>h, <3>1, PushedRounds DEF DocInv, RoundsOK
  <2>2. CASE InitStep(h)
    <3>1. session'.rounds = Pushed(session.rounds, h.from, h.att, h.round)
      BY <2>2, Unstored DEF InitStep
    <3>2. QED
      BY <1>h, <3>1, PushedRounds DEF DocInv, RoundsOK
  <2>3. QED
    BY <1>1, <2>1, <2>2
<1> HIDE DEF x
<1>3. p = h.from /\ r = h.round
  BY <1>2 DEF Froms
<1>4. [from |-> x.from, att |-> x.att] \in Contents(session'.rounds[r])
  BY <1>2, <1>3 DEF Contents
<1>5. QED
  BY <1>1, <1>2, <1>3, <1>4

LEMMA OnceNext == ASSUME IInv, Next PROVE OnceInv'
<1>i. TypeOK /\ DocInv /\ SnapInv /\ PriorInv /\ OnceInv /\ ClientInv /\ LiveInv
  BY DEF IInv
<1> SUFFICES ASSUME NEW p \in Encrypted PROVE OnceOK(p)'
  BY DEF OnceInv
<1>p. /\ p \in Party /\ OnceOK(p) /\ Round \subseteq Int
      /\ \A h \in posts : h.round \in Int
  BY <1>i, SignAssumption, Sizes DEF OnceInv, TypeOK, PostRequest
<1>u. round'[p] >= round[p] /\ round'[p] \in Int /\ round[p] \in Int
  BY <1>i, <1>p, RoundUp
<1>o. ASSUME NEW h \in posts, h.from = p, h.round > 0 PROVE h.live \/ h.round < round'[p]
  BY <1>o, <1>p, <1>u DEF OnceOK
<1>1. ASSUME NEW q \in Party, Client(q) PROVE OnceOK(p)'
  <2>1. session' = session /\ \A g \in posts' : g \in posts \/ g.live
    BY <1>1 DEF Client, Start, NextRound, FinishSignature, TakeSignature, StoreSignature, server,
                Post
  <2>2. \A r \in Round : r >= round'[p] => r >= round[p]
    BY <1>p, <1>u
  <2>3. QED
    BY <1>o, <1>p, <2>1, <2>2 DEF OnceOK
<1>2. ASSUME NEW h \in posts, RequestStep(h) PROVE OnceOK(p)'
  <2>1. h.live /\ Succeed(h) /\ h.from = p => h.round < round'[p]
    <3>1. h.live /\ Succeed(h) => round'[h.from] = h.round + 1
      BY <1>i, SucceedViews
    <3>2. QED
      BY <1>p, <3>1
  <2>2. ASSUME NEW r \in Round, r > 0, r >= round'[p] PROVE p \notin Froms(session'.rounds[r])
    <3>1. p \notin Froms(session.rounds[r])
      BY <1>p, <1>u, <2>2 DEF OnceOK
    <3>2. ASSUME p \in Froms(session'.rounds[r]) PROVE FALSE
      <4>1. p = h.from /\ r = h.round /\ Succeed(h)
        BY <1>i, <1>p, <1>2, <3>1, <3>2, NewSender DEF PushStep, InitStep
      <4>2. h.live \/ h.round < round'[p]
        BY <1>o, <2>2, <4>1
      <4>3. QED
        BY <1>p, <1>u, <2>1, <2>2, <4>1, <4>2
    <3>3. QED
      BY <3>2
  <2>3. ASSUME NEW g \in posts', g.from = p, g.round > 0 PROVE g.live \/ g.round < round'[p]
    <3>1. CASE g \in posts
      BY <1>o, <2>3, <3>1
    <3>2. CASE g \notin posts
      <4>1. g.from = h.from /\ g.round = h.round
        BY <1>i, <1>2, <3>2, RequestPosts
      <4>2. h.live \/ h.round < round'[p]
        BY <1>o, <2>3, <4>1
      <4>3. CASE h.live /\ LoseReply(h)
        <5>1. Fail(h) /\ ~(h.round = 0)
          BY <2>3, <4>1, <4>3 DEF LoseReply
        <5>2. Succeed(h)
          BY <2>3, <4>1, <4>3, <5>1 DEF Fail
        <5>3. QED
          BY <2>1, <2>3, <4>1, <4>3, <5>2
      <4>4. CASE h.live /\ ~LoseReply(h)
        <5>h. h \in PostRequest
          BY <1>i DEF TypeOK
        <5>1. CASE JoinStep(h)
          BY <3>2, <4>4, <5>h, <5>1 DEF JoinStep, PostRequest
        <5>2. ASSUME NEW at \in Stages, NEW seen \in Doc, ProceedStep(h, at, seen) PROVE g.live
          BY <3>2, <4>4, <5>h, <5>2 DEF ProceedStep, Proceed, PostRequest
        <5>3. CASE PushStep(h) \/ InitStep(h) \/ Refuse(h)
          BY <3>2, <5>3 DEF PushStep, InitStep, Refuse
        <5>4. QED
          BY <1>2, <4>4, <5>1, <5>2, <5>3 DEF RequestStep
      <4>5. QED
        BY <4>1, <4>2, <4>3, <4>4
    <3>3. QED
      BY <3>1, <3>2
  <2>4. QED
    BY <2>2, <2>3 DEF OnceOK
<1>3. QED
  BY <1>i, <1>1, <1>2, Steps DEF Next

\* A view that takes nothing in stays right.
LEMMA ViewStays ==
    ASSUME DocStep, NEW p \in Party, NEW r \in Round, ViewOK(p, r),
           view'[p][r] \subseteq view[p][r], r >= round'[p] => r >= round[p],
           \A m \in view[p][r] : m.from = p /\ Pending(p, r, m.att) =>
               m \in Contents(session'.rounds[r]) \/ Pending(p, r, m.att)'
    PROVE  ViewOK(p, r)'
<1>1. Contents(session.rounds[r]) \subseteq Contents(session'.rounds[r])
  BY DEF DocStep, Contents
<1>2. ASSUME NEW m \in view'[p][r]
      PROVE  m \in Contents(session'.rounds[r]) \/ (m.from = p /\ Pending(p, r, m.att)')
  BY <1>1, <1>2 DEF ViewOK
<1>3. \A m, n \in view'[p][r] : m.from = p /\ n.from = p => m = n
  BY DEF ViewOK
<1>4. r >= round'[p] => view'[p][r] = {}
  BY DEF ViewOK
<1>5. QED
  BY <1>2, <1>3, <1>4 DEF ViewOK

\* What a client has of itself is stored, or nobody else stores another.
LEMMA SucceedPending ==
    ASSUME IInv, NEW h \in posts, h.live, Succeed(h), RequestStep(h)
    PROVE  \/ [from |-> h.from, att |-> h.att] \in Contents(session'.rounds[h.round])
           \/ Pending(h.from, h.round, h.att)'
<1>i. TypeOK /\ DocInv /\ SnapInv /\ OnceInv /\ LiveInv
  BY DEF IInv
<1>h. /\ h.from \in Party /\ h.round \in Round /\ h.round \in Int /\ h.att \in Attempt
      /\ round[h.from] = h.round /\ pc[h.from] = "posting"
  BY <1>i, Sizes DEF TypeOK, PostRequest, LiveInv, LiveOK
<1>r. session.rounds \in [Round -> SUBSET Message] /\ IsFiniteSet(session.rounds[h.round])
  BY <1>i, <1>h DEF DocInv, RoundsOK
<1>1. CASE h.from \in Encrypted /\ h.round > 0
  <2>1. h.from \notin Froms(session.rounds[h.round])
    BY <1>i, <1>h, <1>1 DEF OnceInv, OnceOK
  <2>2. ASSUME NEW g \in posts', g.from = h.from, g.round = h.round PROVE g.att = h.att
    <3>1. CASE g \in posts
      <4>1. g.live
        BY <1>i, <1>h, <1>1, <2>2, <3>1 DEF OnceInv, OnceOK
      <4>2. QED
        BY <1>i, <2>2, <3>1, <4>1 DEF LiveInv
    <3>2. QED
      BY <1>i, <3>1, RequestPosts
  <2>3. CASE h.from \in Froms(session'.rounds[h.round])
    BY <1>i, <1>h, <2>1, <2>3, NewSender
  <2>4. QED
    BY <1>1, <2>2, <2>3 DEF Pending
<1>2. CASE ~(h.from \in Encrypted /\ h.round > 0)
  <2>1. PushStep(h) \/ InitStep(h)
    <3>1. CASE Refuse(h) \/ LoseReply(h)
      <4>1. Undone(h)
        BY <1>i, <1>2, <3>1, FailSplit DEF Refuse, LoseReply
      <4>2. pc' = [pc EXCEPT ![h.from] = IF h.round = 0 THEN "out" ELSE "polling"] /\ round' = round
        BY <1>i, <1>h, <4>1, FailViews
      <4>3. round'[h.from] = h.round + 1
        BY <1>i, SucceedViews
      <4>4. QED
        BY <1>h, <4>2, <4>3
    <3>2. CASE JoinStep(h) \/ \E at \in Stages : \E seen \in Doc : ProceedStep(h, at, seen)
      <4>1. round' = round
        BY <3>2 DEF JoinStep, ProceedStep, Proceed, clients
      <4>2. round'[h.from] = h.round + 1
        BY <1>i, SucceedViews
      <4>3. QED
        BY <1>h, <4>1, <4>2
    <3>3. QED
      BY <3>1, <3>2 DEF RequestStep
  <2>2. h.from \in Froms(session'.rounds[h.round]) /\ h.from \notin Froms(session.rounds[h.round])
    <3>1. CASE PushStep(h)
      <4>1. session'.rounds = Pushed(session.rounds, h.from, h.att, h.round)
        BY <1>i, <3>1 DEF PushStep, TypeOK, Doc
      <4> DEFINE x == [from |-> h.from, att |-> h.att, at |-> Cardinality(session.rounds[h.round])]
      <4>2. x \in session'.rounds[h.round] /\ x.from = h.from
        BY <1>h, <1>r, <4>1, PushedRounds
      <4>3. QED
        BY <3>1, <4>2 DEF PushStep, Pushable, Froms
    <3>2. CASE InitStep(h)
      <4>1. session'.rounds = Pushed(session.rounds, h.from, h.att, h.round)
        BY <1>i, <1>h, <3>2, Unstored DEF InitStep
      <4>e. session.rounds[h.round] = {}
        BY <1>i, <1>h, <3>2, Unstored DEF InitStep, NoRounds
      <4> DEFINE x == [from |-> h.from, att |-> h.att, at |-> Cardinality(session.rounds[h.round])]
      <4>2. x \in session'.rounds[h.round] /\ x.from = h.from
        BY <1>h, <1>r, <4>1, PushedRounds
      <4>3. QED
        BY <4>e, <4>2 DEF Froms
    <3>3. QED
      BY <2>1, <3>1, <3>2
  <2>3. QED
    BY <1>i, <1>h, <2>2, NewSender
<1>3. QED
  BY <1>1, <1>2

LEMMA ViewNext == ASSUME IInv, Next PROVE ViewInv'
<1>i. TypeOK /\ DocInv /\ SnapInv /\ PriorInv /\ ViewInv /\ ClientInv /\ LiveInv
  BY DEF IInv
<1>d. DocStep
  BY <1>i, DocNext
<1> SUFFICES ASSUME NEW q \in Party, NEW r \in Round PROVE ViewOK(q, r)'
  BY DEF ViewInv
<1>v. /\ ViewOK(q, r) /\ r \in Int /\ view[q][r] \subseteq Sent
      /\ r >= round'[q] => r >= round[q]
  BY <1>i, RoundUp, Sizes DEF ViewInv, TypeOK
<1>1. ASSUME NEW p \in Party, Client(p) PROVE ViewOK(q, r)'
  <2>1. session' = session /\ \A g \in posts' : g \in posts \/ (g.from = p /\ g.round = round[p])
    <3>1. CASE Start(p)
      <4>1. round[p] = 0
        BY <1>i, <3>1 DEF Start, ClientInv, ClientOK
      <4>2. QED
        BY <3>1, <4>1 DEF Start, Post, server
    <3>2. CASE ~Start(p)
      BY <1>1, <3>2 DEF Client, NextRound, FinishSignature, TakeSignature, StoreSignature, Post,
                        server
    <3>3. QED
      BY <3>1, <3>2
  <2>2. ASSUME NEW m \in view[q][r], Pending(q, r, m.att) PROVE Pending(q, r, m.att)'
    <3>1. ~(r >= round[q])
      BY <1>v, <2>2 DEF ViewOK
    <3>2. ASSUME NEW g \in posts', g.from = q, g.round = r PROVE g \in posts
      BY <1>i, <1>v, <2>1, <3>1, <3>2, RoundUp
    <3>3. QED
      BY <2>1, <2>2, <3>2 DEF Pending
  <2>3. CASE view'[q][r] = view[q][r]
    BY <1>d, <1>v, <2>2, <2>3, ViewStays
  <2>4. CASE view'[q][r] # view[q][r]
    <3>1. NextRound(p) \/ FinishSignature(p) \/ TakeSignature(p)
      BY <1>1, <2>4 DEF Client, Start, StoreSignature
    <3>2. /\ q = p /\ r = round[p] - 1 /\ round[p] \in Int
          /\ view'[q][r] = view[q][r] \cup Contents(OthersOf(session.rounds, q, r))
      BY <1>i, <2>4, <3>1, RoundViews
    <3>3. \A m \in Contents(OthersOf(session.rounds, q, r)) :
             m \in Contents(session.rounds[r]) /\ m.from # q
      BY DEF Contents, OthersOf
    <3>4. ASSUME NEW m \in view'[q][r]
          PROVE  m \in Contents(session'.rounds[r]) \/ (m.from = q /\ Pending(q, r, m.att)')
      <4>1. CASE m \in view[q][r]
        BY <1>v, <2>1, <2>2, <4>1 DEF ViewOK
      <4>2. QED
        BY <2>1, <3>2, <3>3, <3>4, <4>1
    <3>5. \A m, n \in view'[q][r] : m.from = q /\ n.from = q => m = n
      BY <1>v, <3>2, <3>3 DEF ViewOK
    <3>6. ~(r >= round'[q])
      BY <1>v, <3>2
    <3>7. QED
      BY <3>4, <3>5, <3>6 DEF ViewOK
  <2>5. QED
    BY <2>3, <2>4
<1>2. ASSUME NEW h \in posts, RequestStep(h) PROVE ViewOK(q, r)'
  <2>1. ASSUME NEW m \in view[q][r], m.from = q, Pending(q, r, m.att)
        PROVE  m \in Contents(session'.rounds[r]) \/ Pending(q, r, m.att)'
    <3>1. CASE q \in Froms(session'.rounds[r])
      <4>1. /\ q = h.from /\ r = h.round
            /\ [from |-> h.from, att |-> h.att] \in Contents(session'.rounds[r])
        BY <1>i, <1>2, <2>1, <3>1, NewSender DEF Pending
      <4>2. h.att = m.att
        BY <2>1, <4>1 DEF Pending
      <4>3. m = [from |-> h.from, att |-> h.att]
        BY <1>v, <2>1, <4>1, <4>2 DEF Sent
      <4>4. QED
        BY <4>1, <4>3
    <3>2. CASE q \notin Froms(session'.rounds[r])
      <4>1. ASSUME NEW g \in posts', g.from = q, g.round = r PROVE g.att = m.att
        BY <1>i, <1>2, <2>1, <4>1, RequestPosts DEF Pending
      <4>2. QED
        BY <2>1, <3>2, <4>1 DEF Pending
    <3>3. QED
      BY <3>1, <3>2
  <2>2. CASE view'[q][r] \subseteq view[q][r]
    BY <1>d, <1>v, <2>1, <2>2, ViewStays
  <2>3. CASE h.live /\ Succeed(h)
    <3>1. CASE q = h.from /\ r = h.round
      <4> DEFINE own == [from |-> h.from, att |-> h.att]
      <4>1. view'[q][r] = {own} /\ round'[q] = r + 1 /\ own.from = q /\ own.att = h.att
        BY <1>i, <2>3, <3>1, SucceedViews
      <4>2. own \in Contents(session'.rounds[r]) \/ Pending(q, r, h.att)'
        BY <1>2, <2>3, <3>1, SucceedPending
      <4> HIDE DEF own
      <4>3. ~(r >= round'[q])
        BY <1>v, <4>1
      <4>4. QED
        BY <4>1, <4>2, <4>3 DEF ViewOK
    <3>2. CASE ~(q = h.from /\ r = h.round)
      BY <1>i, <2>2, <2>3, <3>2, SucceedViews
    <3>3. QED
      BY <3>1, <3>2
  <2>4. CASE h.live /\ Fail(h) /\ ~Succeed(h)
    <3>1. Undone(h) /\ round[h.from] = h.round
      BY <1>i, <2>4, FailSplit DEF LiveInv, LiveOK
    <3>2. QED
      BY <1>i, <2>2, <3>1, FailViews
  <2>5. CASE ~h.live /\ (Succeed(h) \/ Fail(h))
    BY <2>2, <2>5 DEF Succeed, Fail, clients
  <2>6. CASE JoinStep(h) \/ \E at \in Stages : \E seen \in Doc : ProceedStep(h, at, seen)
    BY <2>2, <2>6 DEF JoinStep, ProceedStep, Proceed, clients
  <2>7. QED
    BY <1>2, <2>3, <2>4, <2>5, <2>6 DEF RequestStep, PushStep, InitStep, Refuse, LoseReply
<1>3. QED
  BY <1>i, <1>1, <1>2, Steps DEF Next

\* What is whole stays so, unless the client computes the round again.
LEMMA WholeStays ==
    ASSUME TypeOK, DocInv, SnapInv, PriorInv, Next,
           NEW p \in Party, NEW r \in Round, Whole(p, r), view'[p][r] = view[p][r]
    PROVE  Whole(p, r)'
<1>1. DocStep
  BY DocNext
<1>2. OthersOf(session'.rounds, p, r) = OthersOf(session.rounds, p, r)
  BY <1>1 DEF DocStep, Whole
<1>3. p \in Froms(session'.rounds[0])
  BY <1>1, Sizes DEF DocStep, Whole, Froms
<1>4. QED
  BY <1>2, <1>3 DEF Whole

\* What nextRound takes in completes the round it had its own message in.
LEMMA Completed ==
    ASSUME TypeOK, DocInv, ViewInv, ClientInv, NEW p \in Party,
           NextRound(p) \/ FinishSignature(p) \/ TakeSignature(p),
           NEW b, b = round[p] - 1
    PROVE  Whole(p, b)'
<1> DEFINE others == OthersOf(session.rounds, p, b)
<1>1. /\ b \in Round /\ round[p] \in Nat \ {0} /\ pc[p] = "polling" /\ b < round[p]
      /\ Cardinality(others) = M - 1
      /\ view'[p][b] = view[p][b] \cup Contents(others)
  BY RoundViews DEF MessagesFor
<1>2. p \in Froms(view[p][b]) /\ ViewOK(p, b) /\ p \in Froms(session.rounds[0])
  BY <1>1, InFirst DEF ClientInv, ClientOK, ViewInv
<1>3. p \in Froms(view'[p][b])
  BY <1>1, <1>2 DEF Froms
<1>4. ASSUME NEW m \in view'[p][b] PROVE m.from # p <=> m \in Contents(others)
  <2>1. \A n \in Contents(others) : n.from # p
    BY DEF Contents, OthersOf
  <2>2. m.from # p => m \in Contents(session.rounds[b]) \/ m \in Contents(others)
    BY <1>1, <1>2, <1>4 DEF ViewOK
  <2>3. m.from # p /\ m \in Contents(session.rounds[b]) => m \in Contents(others)
    BY DEF Contents, OthersOf
  <2>4. QED
    BY <2>1, <2>2, <2>3
<1>5. {m \in view'[p][b] : m.from # p} = Contents(others)
  <2> HIDE DEF others
  <2>1. QED
    BY <1>1, <1>4
<1>6. session' = session
  BY DEF NextRound, FinishSignature, TakeSignature, server
<1>7. QED
  BY <1>1, <1>2, <1>3, <1>5, <1>6 DEF Whole

-----------------------------------------------------------------------------
(* What a client has done. *)

LEMMA ClientNext == ASSUME IInv, Next PROVE ClientInv'
<1>i. TypeOK /\ DocInv /\ SnapInv /\ PriorInv /\ ViewInv /\ ClientInv /\ LiveInv
  BY DEF IInv
<1>t. /\ round \in [Party -> 0 .. LastRound + 2] /\ Round \subseteq Int
      /\ pc \in [Party -> {"out", "posting", "polling", "storing", "done"}]
  BY <1>i, Sizes DEF TypeOK
<1>r. \A p \in Party : round[p] \in Int
  BY <1>t
<1>w. ASSUME NEW q \in Party, NEW r \in Round, Whole(q, r), view'[q][r] = view[q][r]
      PROVE  Whole(q, r)'
  BY <1>i, <1>w, WholeStays
<1>o. ASSUME NEW q \in Party, pc'[q] = pc[q], round'[q] = round[q],
             \A r \in Round : view'[q][r] = view[q][r]
      PROVE  ClientOK(q)'
  <2>1. ClientOK(q)
    BY <1>i DEF ClientInv
  <2>2. \A r \in Round : Whole(q, r) => Whole(q, r)'
    BY <1>o, <1>w
  <2>3. pc'[q] # "done" => \A r \in Round : r < round'[q] => q \in Froms(view'[q][r])
    BY <1>o, <2>1 DEF ClientOK
  <2>4. pc'[q] # "done" => \A r \in Round : r < round'[q] - 1 => Whole(q, r)'
    BY <1>o, <2>1, <2>2 DEF ClientOK
  <2>5. QED
    BY <1>o, <2>1, <2>3, <2>4 DEF ClientOK
<1>1. ASSUME NEW p \in Party, Client(p) PROVE ClientInv'
  <2>p. ClientOK(p)
    BY <1>i DEF ClientInv
  <2>1. ASSUME NEW q \in Party, q # p PROVE ClientOK(q)'
    <3>1. pc'[q] = pc[q] /\ round'[q] = round[q]
      BY <1>1, <1>t, <2>1 DEF Client, Start, NextRound, FinishSignature, TakeSignature,
                             StoreSignature, Post
    <3>2. \A r \in Round : view'[q][r] = view[q][r]
      <4>1. CASE NextRound(p) \/ FinishSignature(p) \/ TakeSignature(p)
        BY <1>i, <2>1, <4>1, RoundViews
      <4>2. CASE Start(p) \/ StoreSignature(p)
        BY <4>2 DEF Start, StoreSignature
      <4>3. QED
        BY <1>1, <4>1, <4>2 DEF Client
    <3>3. QED
      BY <1>o, <3>1, <3>2
  <2>2. ASSUME Start(p) PROVE ClientOK(p)'
    <3>1. UNCHANGED <<round, view>> /\ pc'[p] = "posting" /\ round[p] = 0
      BY <1>t, <2>2, <2>p DEF Start, Post, ClientOK
    <3>2. \A r \in Round : ~(r < 0) /\ ~(r < 0 - 1)
      BY Sizes
    <3>3. QED
      BY <3>1, <3>2, Sizes DEF ClientOK
  <2>3. ASSUME NextRound(p) PROVE ClientOK(p)'
    <3>1. pc'[p] = "posting" /\ round' = round /\ round[p] <= LastRound /\ pc[p] = "polling"
      BY <1>t, <2>3 DEF NextRound, Ready, Post
    <3>2. ASSUME NEW r \in Round
          PROVE  /\ r < round[p] => p \in Froms(view'[p][r])
                 /\ r < round[p] - 1 => Whole(p, r)'
      <4>1. CASE r = round[p] - 1
        <5>1. p \in Froms(view[p][r]) /\ view[p][r] \subseteq view'[p][r]
          BY <1>i, <1>r, <2>3, <2>p, <3>1, <4>1, RoundViews DEF ClientOK
        <5>2. QED
          BY <1>r, <4>1, <5>1 DEF Froms
      <4>2. CASE r # round[p] - 1
        <5>1. view'[p][r] = view[p][r]
          BY <1>i, <2>3, <4>2, RoundViews
        <5>2. r < round[p] - 1 => Whole(p, r)
          BY <2>p, <3>1 DEF ClientOK
        <5>3. r < round[p] - 1 => Whole(p, r)'
          BY <1>w, <5>1, <5>2
        <5>4. QED
          BY <2>p, <3>1, <5>1, <5>3 DEF ClientOK
      <4>3. QED
        BY <4>1, <4>2
    <3>3. round'[p] = round[p] /\ round[p] <= LastRound + 1
      BY <1>t, <3>1, Sizes
    <3>4. QED
      BY <3>1, <3>2, <3>3 DEF ClientOK
  <2>4. ASSUME FinishSignature(p) PROVE ClientOK(p)'
    <3>1. pc'[p] = "storing" /\ round[p] = LastRound + 1 /\ round'[p] = LastRound + 2
          /\ pc[p] = "polling"
      BY <1>t, <2>4, Sizes DEF FinishSignature, Ready
    <3>2. ASSUME NEW r \in Round PROVE p \in Froms(view'[p][r]) /\ Whole(p, r)'
      <4>1. r <= LastRound /\ r < round[p] /\ (r = LastRound \/ r < LastRound)
            /\ (r < LastRound => r < round[p] - 1) /\ (r = LastRound <=> r = round[p] - 1)
        BY <3>1, Sizes
      <4>2. p \in Froms(view[p][r])
        BY <2>p, <3>1, <4>1 DEF ClientOK
      <4>3. CASE r = round[p] - 1
        <5>1. Whole(p, r)'
          BY <1>i, <2>4, <4>3, Completed
        <5>2. view[p][r] \subseteq view'[p][r]
          BY <1>i, <2>4, <4>3, RoundViews
        <5>3. QED
          BY <4>2, <5>1, <5>2 DEF Froms
      <4>4. CASE r # round[p] - 1
        <5>1. view'[p][r] = view[p][r]
          BY <1>i, <2>4, <4>4, RoundViews
        <5>2. Whole(p, r)
          BY <2>p, <3>1, <4>1, <4>4 DEF ClientOK
        <5>3. QED
          BY <1>w, <4>2, <5>1, <5>2
      <4>5. QED
        BY <4>3, <4>4
    <3>3. QED
      BY <3>1, <3>2 DEF ClientOK
  <2>5. ASSUME TakeSignature(p) \/ StoreSignature(p) PROVE ClientOK(p)'
    <3>1. pc'[p] = "done"
      BY <1>t, <2>5 DEF TakeSignature, StoreSignature
    <3>2. QED
      BY <3>1 DEF ClientOK
  <2>6. ClientOK(p)'
    BY <1>1, <2>2, <2>3, <2>4, <2>5 DEF Client
  <2>7. QED
    BY <2>1, <2>6 DEF ClientInv
<1>2. ASSUME NEW h \in posts, RequestStep(h) PROVE ClientInv'
  <2>h. h.from \in Party /\ h.round \in Round /\ h.att \in Attempt /\ LiveOK(h)
    BY <1>i DEF TypeOK, PostRequest, LiveInv
  <2>p. ClientOK(h.from)
    BY <1>i, <2>h DEF ClientInv
  <2>u. CASE UNCHANGED clients
    BY <1>o, <2>u DEF clients, ClientInv
  <2>1. CASE Succeed(h) /\ h.live
    <3>1. ASSUME NEW q \in Party, q # h.from PROVE ClientOK(q)'
      <4>1. /\ pc' = [pc EXCEPT ![h.from] = "polling"] /\ round'[q] = round[q]
            /\ \A r \in Round : view'[q][r] = view[q][r]
        BY <1>i, <2>1, <3>1, SucceedViews
      <4>2. pc'[q] = pc[q]
        BY <1>t, <2>h, <3>1, <4>1
      <4>3. QED
        BY <1>o, <4>1, <4>2
    <3>2. ClientOK(h.from)'
      <4>1. /\ pc' = [pc EXCEPT ![h.from] = "polling"] /\ round'[h.from] = h.round + 1
            /\ view'[h.from][h.round] = {[from |-> h.from, att |-> h.att]}
            /\ \A r \in Round : r # h.round => view'[h.from][r] = view[h.from][r]
        BY <1>i, <2>1, <2>h, SucceedViews
      <4>2. [from |-> h.from, att |-> h.att].from = h.from /\ pc'[h.from] = "polling"
        BY <1>t, <2>h, <4>1
      <4>3. h.from \in Froms(view'[h.from][h.round])
        BY <4>1, <4>2 DEF Froms
      <4>4. round[h.from] = h.round /\ pc[h.from] = "posting"
        BY <2>1, <2>h DEF LiveOK
      <4>5. \A r \in Round : r < h.round + 1 => h.from \in Froms(view'[h.from][r])
        <5>1. TAKE r \in Round
        <5>2. r < h.round + 1 => r = h.round \/ r < h.round
          BY <2>h, Sizes
        <5>3. r < h.round => h.from \in Froms(view[h.from][r])
          BY <2>p, <4>4 DEF ClientOK
        <5>4. r < h.round => r # h.round
          BY <2>h, Sizes
        <5>5. QED
          BY <4>1, <4>3, <5>2, <5>3, <5>4
      <4>6. \A r \in Round : r < h.round => Whole(h.from, r)'
        <5>1. TAKE r \in Round
        <5>2. r < h.round => r # h.round /\ (r < h.round - 1 \/ (h.round > 0 /\ r = h.round - 1))
          BY <2>h, Sizes
        <5>3. r < h.round => Whole(h.from, r)
          BY <2>1, <2>h, <2>p, <4>4, <5>2 DEF ClientOK, LiveOK
        <5>4. QED
          BY <1>w, <2>h, <4>1, <5>2, <5>3
      <4>7. h.round + 1 <= LastRound + 1 /\ h.round + 1 > 0 /\ h.round + 1 - 1 = h.round
        BY <2>h, Sizes
      <4>8. round'[h.from] = h.round + 1 /\ round'[h.from] - 1 = h.round
        <5>1. round'[h.from] = h.round + 1
          BY <4>1
        <5>2. QED
          BY <2>h, <5>1, Sizes
      <4>9. QED
        BY <4>2, <4>5, <4>6, <4>7, <4>8 DEF ClientOK
    <3>3. QED
      BY <3>1, <3>2 DEF ClientInv
  <2>2. CASE Undone(h) /\ h.live
    <3>0. round[h.from] = h.round /\ pc[h.from] = "posting"
      BY <2>2, <2>h DEF LiveOK
    <3>1. /\ round' = round /\ round[h.from] = h.round /\ pc[h.from] = "posting"
          /\ pc' = [pc EXCEPT ![h.from] = IF h.round = 0 THEN "out" ELSE "polling"]
      BY <1>i, <2>2, <3>0, FailViews
    <3>2. ASSUME NEW q \in Party, q # h.from PROVE ClientOK(q)'
      <4>1. pc'[q] = pc[q] /\ round'[q] = round[q]
        BY <1>t, <2>h, <3>1, <3>2
      <4>2. \A r \in Round : view'[q][r] = view[q][r]
        BY <1>i, <2>2, <3>0, <3>2, FailViews
      <4>3. QED
        BY <1>o, <4>1, <4>2
    <3>3. ASSUME NEW r \in Round
          PROVE  /\ r < h.round => h.from \in Froms(view'[h.from][r])
                 /\ r < h.round - 1 => Whole(h.from, r)'
      <4>1. /\ \A m \in view[h.from][r] : m.from = h.from => m \in view'[h.from][r]
            /\ r + 1 < h.round => view'[h.from][r] = view[h.from][r]
        BY <1>i, <2>2, <2>h, <3>0, <3>1, FailViews
      <4>2. r < h.round => h.from \in Froms(view'[h.from][r])
        BY <2>p, <3>1, <4>1 DEF ClientOK, Froms
      <4>3. r < h.round - 1 => r + 1 < h.round
        BY <2>h, Sizes
      <4>4. r < h.round - 1 => Whole(h.from, r)
        BY <2>p, <3>1 DEF ClientOK
      <4>5. QED
        BY <1>w, <2>h, <4>1, <4>2, <4>3, <4>4
    <3>4. /\ pc'[h.from] = IF h.round = 0 THEN "out" ELSE "polling"
          /\ round'[h.from] = h.round
      BY <1>t, <2>h, <3>1
    <3>5. h.round <= LastRound + 1 /\ (h.round # 0 => h.round > 0)
      BY <2>h, Sizes
    <3>6. ClientOK(h.from)'
      BY <3>3, <3>4, <3>5 DEF ClientOK
    <3>7. QED
      BY <3>2, <3>6 DEF ClientInv
  <2>3. CASE ~h.live /\ (Succeed(h) \/ Fail(h))
    BY <2>u, <2>3 DEF Succeed, Fail
  <2>4. CASE JoinStep(h) \/ \E at \in Stages : \E seen \in Doc : ProceedStep(h, at, seen)
    BY <2>u, <2>4 DEF JoinStep, ProceedStep, Proceed, clients
  <2>5. QED
    BY <1>i, <1>2, <2>1, <2>2, <2>3, <2>4, FailSplit
       DEF RequestStep, PushStep, InitStep, Refuse, LoseReply
<1>3. QED
  BY <1>i, <1>1, <1>2, Steps DEF Next

-----------------------------------------------------------------------------
(* The request a client waits for. *)

LEMMA LiveNext == ASSUME IInv, Next PROVE LiveInv'
<1>i. TypeOK /\ DocInv /\ SnapInv /\ PriorInv /\ ViewInv /\ ClientInv /\ LiveInv
  BY DEF IInv
<1>t. /\ round \in [Party -> 0 .. LastRound + 2] /\ Round \subseteq Int
      /\ pc \in [Party -> {"out", "posting", "polling", "storing", "done"}]
      /\ \A h \in posts : h \in PostRequest
  BY <1>i, Sizes DEF TypeOK
<1>n. \A h \in posts : /\ h.from \in Party /\ h.round \in Round /\ LiveOK(h)
                       /\ h.round > 0 => h.round - 1 \in Round
  BY <1>t, <1>i, Sizes DEF PostRequest, LiveInv
<1>o. ASSUME NEW h \in posts, pc'[h.from] = pc[h.from], round'[h.from] = round[h.from],
             \A r \in Round : view'[h.from][r] = view[h.from][r]
      PROVE  LiveOK(h)'
  <2>1. h.live /\ h.round > 0 => Whole(h.from, h.round - 1)
    BY <1>n DEF LiveOK
  <2>2. h.live /\ h.round > 0 => Whole(h.from, h.round - 1)'
    BY <1>i, <1>n, <1>o, <2>1, WholeStays
  <2>3. QED
    BY <1>n, <1>o, <2>2 DEF LiveOK
<1>u. ASSUME UNCHANGED clients, NEW h \in posts PROVE LiveOK(h)'
  BY <1>o, <1>u DEF clients
<1>1. ASSUME NEW p \in Party, Start(p) \/ NextRound(p) PROVE LiveInv'
  <2>1. /\ pc[p] # "posting" /\ pc' = [pc EXCEPT ![p] = "posting"] /\ round' = round
        /\ \E a \in Attempt :
              posts' = posts \cup {[from |-> p, round |-> round[p], att |-> a, at |-> "fetch",
                                    live |-> TRUE, seen |-> NoSession]}
    <3>1. CASE Start(p)
      <4>1. round[p] = 0
        BY <1>i, <3>1 DEF Start, ClientInv, ClientOK
      <4>2. QED
        BY <3>1, <4>1 DEF Start, Post
    <3>2. CASE NextRound(p)
      BY <3>2 DEF NextRound, Ready, Post
    <3>3. QED
      BY <1>1, <3>1, <3>2
  <2>2. \A b : round[p] > 0 /\ b = round[p] - 1 => Whole(p, b)'
    <3>1. CASE Start(p)
      <4>1. round[p] = 0
        BY <1>i, <3>1 DEF Start, ClientInv, ClientOK
      <4>2. QED
        BY <4>1
    <3>2. CASE NextRound(p)
      BY <1>i, <3>2, Completed
    <3>3. QED
      BY <1>1, <3>1, <3>2
  <2>3. \A q \in Party : q # p => \A r \in Round : view'[q][r] = view[q][r]
    <3>1. CASE Start(p)
      BY <3>1 DEF Start
    <3>2. CASE NextRound(p)
      BY <1>i, <3>2, RoundViews
    <3>3. QED
      BY <1>1, <3>1, <3>2
  <2>4. PICK a \in Attempt :
          posts' = posts \cup {[from |-> p, round |-> round[p], att |-> a, at |-> "fetch",
                                live |-> TRUE, seen |-> NoSession]}
    BY <2>1
  <2>x. PICK x : x = [from |-> p, round |-> round[p], att |-> a, at |-> "fetch",
                      live |-> TRUE, seen |-> NoSession]
    BY Zenon
  <2>5. x.from = p /\ x.round = round[p] /\ x.live
    BY <2>x
  <2>6. \A h \in posts : h.live => h.from # p
    BY <1>n, <2>1 DEF LiveOK
  <2>7. posts' = posts \cup {x}
    BY <2>4, <2>x
  <2>8. LiveOK(x)'
    BY <1>t, <2>1, <2>2, <2>5 DEF LiveOK
  <2>9. ASSUME NEW h \in posts PROVE LiveOK(h)'
    <3>1. CASE h.live
      <4>1. pc'[h.from] = pc[h.from] /\ round'[h.from] = round[h.from]
        BY <1>t, <1>n, <2>1, <2>6, <3>1
      <4>2. QED
        BY <1>n, <1>o, <2>3, <2>6, <3>1, <4>1
    <3>2. CASE ~h.live
      BY <3>2 DEF LiveOK
    <3>3. QED
      BY <3>1, <3>2
  <2>10. \A g, h \in posts' : g.live /\ h.live /\ g.from = h.from => g = h
    <3>1. \A g, h \in posts : g.live /\ h.live /\ g.from = h.from => g = h
      BY <1>i DEF LiveInv
    <3>2. QED
      BY <2>5, <2>6, <2>7, <3>1
  <2>11. QED
    BY <2>7, <2>8, <2>9, <2>10 DEF LiveInv
<1>2. ASSUME NEW p \in Party, FinishSignature(p) \/ TakeSignature(p) \/ StoreSignature(p)
      PROVE  LiveInv'
  <2>1. posts' = posts /\ pc[p] # "posting"
        /\ \A q \in Party : q # p => pc'[q] = pc[q] /\ round'[q] = round[q]
    BY <1>2, <1>t DEF FinishSignature, TakeSignature, StoreSignature, Ready
  <2>2. \A q \in Party : q # p => \A r \in Round : view'[q][r] = view[q][r]
    <3>1. CASE FinishSignature(p) \/ TakeSignature(p)
      BY <1>i, <3>1, RoundViews
    <3>2. CASE StoreSignature(p)
      BY <3>2 DEF StoreSignature
    <3>3. QED
      BY <1>2, <3>1, <3>2
  <2>3. ASSUME NEW h \in posts PROVE LiveOK(h)'
    <3>1. CASE h.live
      <4>1. h.from # p /\ h.from \in Party
        BY <1>n, <2>1, <3>1 DEF LiveOK
      <4>2. QED
        BY <1>o, <2>1, <2>2, <4>1
    <3>2. CASE ~h.live
      BY <3>2 DEF LiveOK
    <3>3. QED
      BY <3>1, <3>2
  <2>4. QED
    BY <1>i, <2>1, <2>3 DEF LiveInv
<1>3. ASSUME NEW h \in posts, RequestStep(h) PROVE LiveInv'
  <2>1. ASSUME Succeed(h) \/ Fail(h), NEW g \in posts, g # h, g.live PROVE LiveOK(g)'
    <3>1. CASE ~h.live
      <4>1. UNCHANGED clients
        BY <2>1, <3>1 DEF Succeed, Fail
      <4>2. QED
        BY <1>u, <4>1
    <3>2. CASE h.live
      <4>1. g.from # h.from
        BY <1>i, <2>1, <3>2 DEF LiveInv
      <4>u. Succeed(h) \/ (Undone(h) /\ round[h.from] = h.round)
        BY <1>i, <1>n, <2>1, <3>2, FailSplit DEF LiveOK
      <4>2. pc'[g.from] = pc[g.from] /\ round'[g.from] = round[g.from]
        BY <1>i, <1>n, <1>t, <3>2, <4>u, <4>1, SucceedViews, FailViews
      <4>3. \A r \in Round : view'[g.from][r] = view[g.from][r]
        BY <1>i, <1>n, <3>2, <4>u, <4>1, SucceedViews, FailViews
      <4>4. QED
        BY <1>o, <4>2, <4>3
    <3>3. QED
      BY <3>1, <3>2
  <2>2. CASE posts' = posts \ {h} /\ (Succeed(h) \/ Fail(h))
    <3>1. \A g \in posts' : LiveOK(g)'
      BY <2>1, <2>2 DEF LiveOK
    <3>2. QED
      BY <1>i, <2>2, <3>1 DEF LiveInv
  <2>3. CASE LoseReply(h)
    <3> DEFINE x == [h EXCEPT !.live = FALSE]
    <3>1. posts' = (posts \ {h}) \cup {x} /\ ~x.live /\ Fail(h)
      BY <1>t, <2>3 DEF LoseReply, PostRequest
    <3> HIDE DEF x
    <3>2. \A g \in posts' : LiveOK(g)'
      BY <2>1, <3>1 DEF LiveOK
    <3>3. \A g, f \in posts' : g.live /\ f.live /\ g.from = f.from => g = f
      BY <1>i, <3>1 DEF LiveInv
    <3>4. QED
      BY <3>2, <3>3 DEF LiveInv
  <2>4. ASSUME NEW x, UNCHANGED clients, posts' = (posts \ {h}) \cup {x},
               x.live = h.live, x.from = h.from, x.round = h.round
        PROVE  LiveInv'
    <3>1. LiveOK(x)'
      <4>1. LiveOK(h)'
        BY <1>u, <2>4
      <4>2. QED
        BY <2>4, <4>1 DEF LiveOK, Whole
    <3>2. \A g \in posts' : LiveOK(g)'
      BY <1>u, <2>4, <3>1
    <3>3. \A g, f \in posts' : g.live /\ f.live /\ g.from = f.from => g = f
      BY <1>i, <2>4 DEF LiveInv
    <3>4. QED
      BY <3>2, <3>3 DEF LiveInv
  <2>5. CASE JoinStep(h)
    <3> DEFINE x == [h EXCEPT !.at = "push"]
    <3>1. x.live = h.live /\ x.from = h.from /\ x.round = h.round
      BY <1>t DEF PostRequest
    <3>2. UNCHANGED clients /\ posts' = (posts \ {h}) \cup {x}
      BY <2>5 DEF JoinStep
    <3> HIDE DEF x
    <3>3. QED
      BY <2>4, <3>1, <3>2
  <2>6. ASSUME NEW at \in Stages, NEW seen \in Doc, ProceedStep(h, at, seen) PROVE LiveInv'
    <3> DEFINE x == [h EXCEPT !.at = at, !.seen = seen]
    <3>1. x.live = h.live /\ x.from = h.from /\ x.round = h.round
      BY <1>t DEF PostRequest
    <3>2. UNCHANGED clients /\ posts' = (posts \ {h}) \cup {x}
      BY <2>6 DEF ProceedStep, Proceed
    <3> HIDE DEF x
    <3>3. QED
      BY <2>4, <3>1, <3>2
  <2>7. QED
    BY <1>3, <2>2, <2>3, <2>5, <2>6 DEF RequestStep, PushStep, InitStep, Refuse
<1>4. QED
  BY <1>i, <1>1, <1>2, <1>3, Steps DEF Next, Client

-----------------------------------------------------------------------------
(* The signature. *)

\* Who stores it has gone through every round with the others.
LEMMA StoringWhole ==
    ASSUME ClientInv, NEW p \in Party, pc[p] = "storing"
    PROVE  \A r \in Round : Whole(p, r)
<1>1. ClientOK(p) /\ round[p] = LastRound + 2
  BY DEF ClientInv, ClientOK
<1>2. \A r \in Round : r < round[p] - 1
  BY <1>1, Sizes
<1>3. QED
  BY <1>1, <1>2 DEF ClientOK

LEMMA SigNext == ASSUME IInv, Next PROVE SigInv'
<1>i. TypeOK /\ DocInv /\ SnapInv /\ PriorInv /\ ClientInv /\ LiveInv /\ SigInv
  BY DEF IInv
<1>t. view \in [Party -> [Round -> SUBSET Sent]] /\ DOMAIN pc = Party
  BY <1>i DEF TypeOK
<1>s. ASSUME NEW p \in Party, pc[p] = "done", signature = view[p], \A r \in Round : Whole(p, r),
             signature' = signature, pc'[p] = pc[p], view'[p] = view[p]
      PROVE  SigInv'
  <2>1. \A r \in Round : Whole(p, r)'
    BY <1>i, <1>s, WholeStays
  <2>2. QED
    BY <1>s, <2>1 DEF SigInv
<1>o. ASSUME signature' = signature,
             \A p \in Party : pc[p] = "done" => pc'[p] = pc[p] /\ view'[p] = view[p]
      PROVE  SigInv'
  BY <1>i, <1>s, <1>o DEF SigInv
<1>1. ASSUME NEW p \in Party, StoreSignature(p) PROVE SigInv'
  <2>1. signature' = view'[p] /\ pc[p] = "storing" /\ pc'[p] = "done" /\ view' = view
    BY <1>1, <1>t DEF StoreSignature, SignatureOf
  <2>2. \A r \in Round : Whole(p, r)'
    BY <1>i, <2>1, StoringWhole, WholeStays
  <2>3. QED
    BY <2>1, <2>2 DEF SigInv
<1>2. ASSUME NEW p \in Party, Start(p) \/ NextRound(p) \/ FinishSignature(p) \/ TakeSignature(p)
      PROVE  SigInv'
  <2>1. pc[p] # "done" /\ signature' = signature
    BY <1>2 DEF Start, NextRound, FinishSignature, TakeSignature, Ready, server
  <2>2. ASSUME NEW q \in Party, q # p PROVE pc'[q] = pc[q] /\ view'[q] = view[q]
    BY <1>2, <1>t, <2>2 DEF Start, NextRound, FinishSignature, TakeSignature, TakenIn, Post
  <2>3. QED
    BY <1>o, <2>1, <2>2
<1>3. ASSUME NEW h \in posts, RequestStep(h) PROVE SigInv'
  <2>1. signature' = signature
    BY <1>3 DEF RequestStep, PushStep, InitStep, Refuse, JoinStep, LoseReply, ProceedStep, Proceed,
                server
  <2>2. ASSUME Succeed(h) \/ Fail(h), NEW q \in Party, pc[q] = "done"
        PROVE  pc'[q] = pc[q] /\ view'[q] = view[q]
    <3>1. CASE ~h.live
      BY <2>2, <3>1 DEF Succeed, Fail, clients
    <3>2. CASE h.live
      <4>1. q # h.from
        BY <1>i, <2>2, <3>2 DEF LiveInv, LiveOK
      <4>2. CASE Succeed(h)
        BY <1>t, <3>2, <4>1, <4>2 DEF Succeed
      <4>3. CASE NotStarted(h.from) \/ Restored(h.from)
        BY <1>t, <4>1, <4>3 DEF NotStarted, Restored
      <4>4. QED
        BY <2>2, <3>2, <4>2, <4>3 DEF Fail
    <3>3. QED
      BY <3>1, <3>2
  <2>3. CASE JoinStep(h) \/ \E at \in Stages : \E seen \in Doc : ProceedStep(h, at, seen)
    BY <1>o, <2>1, <2>3 DEF JoinStep, ProceedStep, Proceed, clients
  <2>4. QED
    BY <1>o, <1>3, <2>1, <2>2, <2>3 DEF RequestStep, PushStep, InitStep, Refuse, LoseReply
<1>4. QED
  BY <1>1, <1>2, <1>3, <1>i, Steps DEF Next, Client

-----------------------------------------------------------------------------
(* The theorems. *)

LEMMA InvNext == ASSUME IInv, [Next]_vars PROVE IInv'
<1>1. CASE Next
  BY <1>1, TypeNext, DocNext, SnapNext, PriorNext, ViewNext, OnceNext, ClientNext, LiveNext,
     SigNext DEF IInv, DocStep
<1>2. CASE UNCHANGED vars
  <2> USE <1>2 DEF vars, server, clients, IInv
  <2>1. TypeOK' /\ DocInv' /\ SnapInv' /\ PriorInv'
    BY DEF TypeOK, DocInv, SnapInv, SnapOK, PriorInv, PriorOK
  <2>2. ViewInv' /\ OnceInv'
    BY DEF ViewInv, ViewOK, Pending, OnceInv, OnceOK
  <2>3. ClientInv' /\ LiveInv' /\ SigInv'
    BY DEF ClientInv, ClientOK, LiveInv, LiveOK, SigInv, Whole
  <2>4. QED
    BY <2>1, <2>2, <2>3
<1>3. QED
  BY <1>1, <1>2

LEMMA Invariance == Spec => []IInv
<1>1. QED
  BY InitOK, InvNext, PTL DEF Spec

\* The session document, the requests and the clients keep their types.
THEOREM SignTypes == Spec => []TypeOK
<1>1. IInv => TypeOK
  BY DEF IInv
<1>2. QED
  BY <1>1, Invariance, PTL

\* Whatever is lost, whoever joins and however often a round is computed
\* again, two signers never go on with different messages of one sender
\* (tss.ts _pushMessage).
THEOREM SignAgrees == Spec => []SameMessages
<1>1. IInv => SameMessages
  <2> SUFFICES ASSUME IInv, NEW p \in Party, NEW q \in Party, NEW r \in Round,
                      NEW m \in view[p][r], NEW n \in view[q][r], m.from = n.from
               PROVE  m.att = n.att
    BY DEF SameMessages
  <2>1. ViewOK(p, r) /\ ViewOK(q, r)
    BY DEF IInv, ViewInv
  <2>2. ASSUME NEW x \in Contents(session.rounds[r])
        PROVE  /\ x.from \in Froms(session.rounds[r])
               /\ \A y \in Contents(session.rounds[r]) : x.from = y.from => x.att = y.att
    BY DEF IInv, DocInv, RoundsOK, Contents, Froms
  <2>3. CASE m \in Contents(session.rounds[r])
    BY <2>1, <2>2, <2>3 DEF ViewOK, Pending
  <2>4. CASE m.from = p /\ Pending(p, r, m.att)
    <3>1. n \notin Contents(session.rounds[r])
      BY <2>2, <2>4 DEF Pending
    <3>2. q = p
      BY <2>1, <2>4, <3>1 DEF ViewOK
    <3>3. QED
      BY <2>1, <2>4, <3>2 DEF ViewOK
  <2>5. QED
    BY <2>1, <2>3, <2>4 DEF ViewOK
<1>2. QED
  BY <1>1, Invariance, PTL

\* What messages say names who sent them.
LEMMA ContentsFroms ==
    ASSUME NEW S
    PROVE  /\ \A m \in Contents(S) : m.from \in Froms(S)
           /\ \A q \in Froms(S) : \E m \in Contents(S) : m.from = q
<1>1. ASSUME NEW m \in Contents(S) PROVE m.from \in Froms(S)
  BY <1>1 DEF Contents, Froms
<1>2. ASSUME NEW q \in Froms(S) PROVE \E m \in Contents(S) : m.from = q
  <2>1. PICK x \in S : q = x.from
    BY <1>2 DEF Froms
  <2>2. [from |-> x.from, att |-> x.att] \in Contents(S)
    BY <2>1 DEF Contents
  <2>3. QED
    BY <2>1, <2>2
<1>3. QED
  BY <1>1, <1>2

\* Who has gone through a round has a message of every signer in it, and what
\* is stored; and no other messages once its own is stored.
LEMMA WholeRounds ==
    ASSUME DocInv, NEW p \in Party, NEW r \in Round, ViewOK(p, r), Whole(p, r)
    PROVE  /\ Cardinality(Signers(0)) = M
           /\ Froms(view[p][r]) = Signers(0)
           /\ \A m, n \in view[p][r] : m.from = n.from => m = n
           /\ Signers(0) \ {p} \subseteq Signers(r)
           /\ Contents(session.rounds[r]) \subseteq view[p][r]
           /\ p \in Signers(r) => view[p][r] = Contents(session.rounds[r])
<1> DEFINE others == OthersOf(session.rounds, p, r)
<1>1. /\ Froms(others) = Froms(session.rounds[0]) \ {p}
      /\ Cardinality(session.rounds[0]) = M
  BY OtherSigners DEF Whole, DocInv
<1>2. \A s : Signers(s) = Froms(session.rounds[s])
  BY DEF Signers, Froms
<1>3. Cardinality(Signers(0)) = M
  BY <1>1, <1>2, FromsCount, Sizes DEF DocInv
<1>4. p \in Signers(0) /\ p \in Froms(view[p][r])
  BY <1>2 DEF Whole
<1>5. \A m \in view[p][r] : m.from # p => m \in Contents(others)
  BY DEF Whole
<1>6. \A m \in Contents(others) : m \in view[p][r] /\ m.from # p
  BY DEF Whole
<1>7. /\ \A m \in Contents(others) : m.from \in Froms(others)
      /\ \A q \in Froms(others) : \E m \in Contents(others) : m.from = q
  BY ContentsFroms
<1>8. /\ \A m \in Contents(session.rounds[r]) : m.from # p <=> m \in Contents(others)
      /\ Contents(others) \subseteq Contents(session.rounds[r])
      /\ Froms(others) \subseteq Signers(r)
      /\ \A m \in Contents(session.rounds[r]) : m.from \in Signers(r)
      /\ p \in Signers(r) => \E m \in Contents(session.rounds[r]) : m.from = p
  <2>1. Froms(others) \subseteq Signers(r)
    BY <1>2 DEF OthersOf, Froms
  <2>2. Contents(others) \subseteq Contents(session.rounds[r])
    BY DEF Contents, OthersOf
  <2>3. ASSUME NEW m \in Contents(session.rounds[r])
        PROVE  m.from # p <=> m \in Contents(others)
    BY <2>3 DEF Contents, OthersOf
  <2>4. QED
    BY <1>2, <2>1, <2>2, <2>3, ContentsFroms
<1>9. \A m, n \in Contents(session.rounds[r]) : m.from = n.from => m = n
  BY DEF DocInv, RoundsOK, Contents
<1> HIDE DEF others
<1>10. Froms(view[p][r]) = Signers(0)
  <2>1. \A q : q \in Froms(view[p][r]) <=> \E m \in view[p][r] : m.from = q
    BY DEF Froms
  <2>2. Signers(0) = Froms(others) \cup {p}
    BY <1>1, <1>2, <1>4
  <2>3. ASSUME NEW m \in view[p][r] PROVE m.from \in Signers(0)
    BY <1>4, <1>5, <1>7, <2>2
  <2>4. ASSUME NEW q \in Froms(others) PROVE \E m \in view[p][r] : m.from = q
    BY <1>6, <1>7
  <2>5. QED
    BY <1>4, <2>1, <2>2, <2>3, <2>4
<1>11. \A m, n \in view[p][r] : m.from = n.from => m = n
  BY <1>5, <1>8, <1>9 DEF ViewOK
<1>12. PICK own \in view[p][r] : own.from = p
  BY <1>4 DEF Froms
<1>13. p \in Signers(r) => own \in Contents(session.rounds[r])
  BY <1>2, <1>12 DEF ViewOK, Pending
<1>14. Contents(session.rounds[r]) \subseteq view[p][r]
  BY <1>6, <1>8, <1>9, <1>12, <1>13
<1>15. p \in Signers(r) => view[p][r] = Contents(session.rounds[r])
  <2>1. ASSUME p \in Signers(r), NEW m \in view[p][r] PROVE m \in Contents(session.rounds[r])
    <3>1. CASE m.from = p
      BY <1>11, <1>12, <1>13, <2>1, <3>1
    <3>2. CASE m.from # p
      BY <1>5, <1>8, <3>2
    <3>3. QED
      BY <3>1, <3>2
  <2>2. QED
    BY <1>14, <2>1
<1>16. QED
  BY <1>1, <1>2, <1>3, <1>8, <1>10, <1>11, <1>14, <1>15

\* A signature that is stored is of M parties who went through every round
\* together, over one message of each in every round, those of the document
\* among them, and everybody who is about to store one has the same (tss.ts
\* storeSignature, tsssign.ts).
THEOREM SignOneSignature == Spec => []OneSignature
<1>1. IInv => OneSignature
  <2> SUFFICES ASSUME IInv, signature # NoSignature
               PROVE  /\ Cardinality(Signers(0)) = M
                      /\ \A r \in Round :
                            /\ Froms(signature[r]) = Signers(0)
                            /\ Cardinality(signature[r]) = M
                            /\ Contents(session.rounds[r]) \subseteq signature[r]
                      /\ \A q \in Party : pc[q] = "storing" => SignatureOf(q) = signature
    BY DEF OneSignature, Froms
  <2>i. TypeOK /\ DocInv /\ ViewInv /\ ClientInv
    BY DEF IInv
  <2>p. PICK p \in Party : /\ pc[p] = "done" /\ signature = view[p]
                          /\ \A r \in Round : Whole(p, r)
    BY DEF IInv, SigInv
  <2>1. ASSUME NEW r \in Round
        PROVE  /\ Cardinality(Signers(0)) = M
               /\ Froms(signature[r]) = Signers(0)
               /\ \A m, n \in signature[r] : m.from = n.from => m = n
               /\ Signers(0) \ {p} \subseteq Signers(r)
               /\ Contents(session.rounds[r]) \subseteq signature[r]
               /\ p \in Signers(r) => signature[r] = Contents(session.rounds[r])
    BY <2>i, <2>p, WholeRounds DEF ViewInv
  <2>2. IsFiniteSet(Signers(0))
    BY <2>i, FromsCount, Sizes DEF DocInv, Signers, Froms
  <2>3. ASSUME NEW r \in Round PROVE Cardinality(signature[r]) = M
    <3> DEFINE f == [m \in signature[r] |-> m.from]
    <3>1. f \in Bijection(signature[r], Signers(0))
      BY <2>1 DEF Froms, Bijection, Injection, Surjection, IsInjective
    <3>2. ExistsBijection(signature[r], Signers(0))
      BY <3>1, Fun_ExistsBij DEF ExistsBijection
    <3>3. QED
      BY <2>1, <2>2, <3>2, Fun_ExistsBijSymmetric, FS_Bijection
  <2>4. ASSUME NEW q \in Party, pc[q] = "storing" PROVE view[q] = signature
    <3>1. q # p /\ \A r \in Round : Whole(q, r)
      BY <2>i, <2>p, <2>4, StoringWhole
    <3>2. ASSUME NEW r \in Round PROVE view[q][r] = signature[r]
      <4>1. /\ Signers(0) \ {q} \subseteq Signers(r)
            /\ q \in Signers(r) => view[q][r] = Contents(session.rounds[r])
        BY <2>i, <3>1, WholeRounds DEF ViewInv
      <4>2. p \in Signers(0) /\ q \in Signers(0)
        BY <2>p, <3>1 DEF Whole, Signers, Froms
      <4>3. QED
        BY <2>1, <3>1, <4>1, <4>2
    <3>3. view[q] \in [Round -> SUBSET Sent] /\ view[p] \in [Round -> SUBSET Sent]
      BY <2>i DEF TypeOK
    <3>4. QED
      BY <2>p, <3>2, <3>3
  <2>5. QED
    BY <2>1, <2>3, <2>4, Sizes DEF SignatureOf
<1>2. QED
  BY <1>1, Invariance, PTL

\* The signers go in lockstep, whoever they are: a party sends once a round,
\* and only when M of them, it among them, have sent each round before
\* (tss.ts processMessage, _pushMessage).
THEOREM SignLockstep == Spec => ImplementsLockstep
<1> DEFINE sent == [p \in Party |-> SentBy(session.rounds, p)]
<1>1. Init => Rounds!LockstepInit
  BY DEF Init, NoSession, NoRounds, SentBy, Rounds!LockstepInit
<1>2. ASSUME IInv, Next PROVE Rounds!LockstepNext \/ UNCHANGED sent
  <2>i. TypeOK /\ DocInv /\ SnapInv /\ PriorInv
    BY <1>2 DEF IInv
  <2>1. CASE session'.rounds = session.rounds
    BY <2>1
  <2>2. ASSUME NEW h \in posts, PushStep(h) \/ InitStep(h)
        PROVE  Rounds!LockstepNext
    <3>h. /\ h.from \in Party /\ h.round \in Round /\ h.att \in Attempt
          /\ RoundsOK(session.rounds, M) /\ Nested(session.rounds) /\ PriorOK(h)
          /\ \A s \in Round : Cardinality(session.rounds[s]) <= M
      BY <2>i DEF TypeOK, PostRequest, DocInv, PriorInv
    <3>1. /\ \A s \in 0 .. h.round - 1 : s \in Round /\ Cardinality(session.rounds[s]) = M
          /\ Cardinality(session.rounds[h.round]) # M
          /\ \A m \in session.rounds[h.round] : m.from # h.from
          /\ session'.rounds = Pushed(session.rounds, h.from, h.att, h.round)
      <4>1. CASE PushStep(h)
        <5>1. Pushable(session.rounds, M, h.from, h.round)
          BY <4>1 DEF PushStep
        <5>2. session'.rounds = Pushed(session.rounds, h.from, h.att, h.round)
          BY <2>i, <4>1 DEF PushStep, TypeOK, Doc
        <5>3. \A m \in session.rounds[h.round] : m.from # h.from
          BY <5>1 DEF Pushable
        <5>4. QED
          BY <3>h, <5>1, <5>2, <5>3, PushableRound, Sizes
      <4>2. CASE InitStep(h)
        <5>1. session.rounds = NoRounds
          BY <2>i, <4>2, Unstored DEF InitStep
        <5>2. session.rounds[0] = {} /\ 0 \in Round
          BY <5>1, Sizes DEF NoRounds
        <5>3. Cardinality(session.rounds[0]) # M
          BY <5>2, FS_EmptySet, Sizes
        <5>4. h.round = 0 /\ session'.rounds = Pushed(NoRounds, h.from, h.att, 0)
          BY <4>2 DEF InitStep
        <5>5. \A s \in 0 .. 0 - 1 : FALSE
          OBVIOUS
        <5>6. QED
          BY <5>1, <5>2, <5>3, <5>4, <5>5
      <4>3. QED
        BY <2>2, <4>1, <4>2
    <3>3. h.round \notin sent[h.from]
      BY <3>h, <3>1 DEF SentBy
    <3>4. \A s \in 0 .. h.round - 1 : s \in sent[h.from]
      <4>1. \A s \in 0 .. h.round - 1 : s \in Round /\ s < h.round
        BY <3>h, <3>1, Sizes
      <4>2. ASSUME NEW s \in 0 .. h.round - 1 PROVE h.from \in Froms(session.rounds[s])
        <5>1. s \in Round /\ s < h.round /\ Cardinality(session.rounds[s]) = M
          BY <3>1, <4>1
        <5>2. Froms(session.rounds[s]) = Froms(session.rounds[0])
          BY <3>h, <5>1, SameSigners
        <5>3. h.round > 0
          BY <3>h, <5>1, Sizes
        <5>4. QED
          BY <3>h, <5>2, <5>3 DEF PriorOK
      <4>3. QED
        BY <3>h, <4>1, <4>2 DEF SentBy, Froms
    <3>5. sent' = [sent EXCEPT ![h.from] = @ \cup {h.round}]
      <4>1. /\ SentBy(session'.rounds, h.from) = SentBy(session.rounds, h.from) \cup {h.round}
            /\ \A q \in Party \ {h.from} : SentBy(session'.rounds, q) = SentBy(session.rounds, q)
        BY <3>h, <3>1, PushSends
      <4>2. QED
        BY <3>h, <4>1
    <3>6. h.round \in Rounds!Round
      BY <3>h DEF Round, Rounds!Round
    <3>7. Rounds!Send(h.from, h.round)
      <4>1. \A s \in Round : Rounds!Complete(s) <=> Cardinality(session.rounds[s]) = M
        <5>1. TAKE s \in Round
        <5>2. Rounds!Senders(s) = {q \in Party : s \in SentBy(session.rounds, q)}
          BY DEF Rounds!Senders
        <5>3. \A S : Rounds!Cardinality(S) = Cardinality(S)
          BY DEF Rounds!Cardinality, Cardinality
        <5>4. QED
          BY <3>h, <5>2, <5>3, SentCount DEF Rounds!Complete
      <4>2. ~Rounds!Complete(h.round) /\ \A s \in 0 .. h.round - 1 : Rounds!Complete(s)
        BY <3>h, <3>1, <4>1
      <4>3. QED
        BY <3>3, <3>4, <3>5, <4>2 DEF Rounds!Send
    <3>8. QED
      BY <3>h, <3>6, <3>7 DEF Rounds!LockstepNext
  <2>3. QED
    BY <1>2, <2>i, <2>1, <2>2, RoundsStep
<1>3. ASSUME IInv, [Next]_vars PROVE [Rounds!LockstepNext]_sent
  <2>1. UNCHANGED vars => UNCHANGED sent
    BY DEF vars, server
  <2>2. QED
    BY <1>2, <1>3, <2>1
<1>4. QED
  BY <1>1, <1>3, Invariance, PTL DEF Spec, ImplementsLockstep, Rounds!Lockstep
=============================================================================
