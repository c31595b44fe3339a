--------------------------- MODULE TssKeyGenProofs ----------------------------
(***************************************************************************)
(* Proofs about TssKeyGen: types, agreement of the key material and of the *)
(* key, and that the session document goes in lockstep, for any number of  *)
(* parties, rounds, attempts and faults.                                   *)
(*                                                                         *)
(* The argument: while a request holds a snapshot of the version stored    *)
(* now, it holds the rounds stored now (SnapInv), so what _pushMessage     *)
(* decides on the snapshot is right of the document, which keeps one       *)
(* message a sender and complete rounds below (DocInv).  What clients      *)
(* compute from is stored (ViewInv) and whole for the rounds they have     *)
(* passed (ClientInv, LiveInv).                                            *)
(***************************************************************************)
EXTENDS TssKeyGen, TssRoundsProofs

DocInv == RoundsOK(session.rounds, Size)

SnapOK(h) ==
    /\ h.at \in {"join", "push", "refetch"} =>
          /\ Stored(session.rounds)
          /\ h.seen.version <= session.version
          /\ h.seen.version = session.version => h.seen.rounds = session.rounds
    /\ h.at = "insert" => h.round = 0 /\ h.from = 0

SnapInv == \A h \in posts : SnapOK(h)

ViewInv == \A p \in Party : \A r \in Round : view[p][r] \subseteq Contents(session.rounds[r])

HasKey(p) == pc[p] \in {"storing", "writing", "done"}

ClientOK(p) ==
    /\ \A r \in Round : r < round[p] => p \in Froms(view[p][r])
    /\ \A r \in Round : r < round[p] - 1 => Froms(view[p][r]) = Party
    /\ HasKey(p) => round[p] = LastRound + 2
    /\ ~HasKey(p) => round[p] <= LastRound + 1
    /\ pc[p] = "out" => round[p] = 0
    /\ pc[p] = "polling" => round[p] > 0

ClientInv == \A p \in Party : ClientOK(p)

LiveOK(h) ==
    h.live =>
        /\ pc[h.from] = "posting"
        /\ round[h.from] = h.round
        /\ h.round > 0 => Froms(view[h.from][h.round - 1]) = Party

LiveInv ==
    /\ \A h \in posts : LiveOK(h)
    /\ \A g, h \in posts : g.live /\ h.live /\ g.from = h.from => g = h

KeyInv == sharedKey # NoKey => \E p \in Party : HasKey(p) /\ sharedKey = view[p]

IInv == TypeOK /\ DocInv /\ SnapInv /\ ViewInv /\ ClientInv /\ LiveInv /\ KeyInv

-----------------------------------------------------------------------------
(* Types. *)

LEMMA Sizes ==
    /\ Size \in Nat \ {0} /\ Size = Cardinality(Party)
    /\ 0 \in Round /\ LastRound \in Round /\ LastRound \in Nat
    /\ \A r : r \in Round <=> r \in Nat /\ r <= LastRound
  BY RoundsAssumption, FS_CardinalityType, FS_EmptySet DEF Size, Round

LEMMA NoSessionDoc == NoSession \in Doc
  BY DEF NoSession, NoRounds, Doc

LEMMA InitOK == Init => IInv
<1> SUFFICES ASSUME Init PROVE IInv
  OBVIOUS
<1>1. TypeOK
  <2>1. session \in Doc
    BY NoSessionDoc DEF Init
  <2>2. round \in [Party -> 0 .. LastRound + 2] /\ faults \in Nat
    BY Sizes DEF Init
  <2>3. view \in [Party -> [Round -> SUBSET Sent]]
    BY DEF Init, NoRounds
  <2>4. QED
    BY <2>1, <2>2, <2>3 DEF Init, TypeOK
<1>2. DocInv
  BY NoRoundsOK DEF Init, NoSession, DocInv
<1>3. ViewInv
  BY DEF Init, ViewInv, NoRounds
<1>4. ClientInv
  BY Sizes DEF Init, ClientInv, ClientOK, HasKey
<1>5. SnapInv /\ LiveInv /\ KeyInv
  BY DEF Init, SnapInv, LiveInv, KeyInv
<1>6. QED
  BY <1>1, <1>2, <1>3, <1>4, <1>5 DEF IInv

ClientTypes ==
    /\ pc \in [Party -> {"out", "posting", "polling", "storing", "writing", "done"}]
    /\ round \in [Party -> 0 .. LastRound + 2]
    /\ view \in [Party -> [Round -> SUBSET Sent]]

\* The kinds of step a request takes, for the client it belongs to.
LEMMA SucceedType ==
    ASSUME TypeOK, NEW h \in posts, Succeed(h)
    PROVE  ClientTypes'
<1>1. h.from \in Party /\ h.round \in Round /\ h.att \in Attempt
  BY DEF TypeOK, PostRequest
<1>2. CASE h.live
  <2>1. h.round + 1 \in 0 .. LastRound + 2
    BY <1>1, Sizes
  <2>2. {[from |-> h.from, att |-> h.att]} \in SUBSET Sent
    BY <1>1 DEF Sent
  <2>3. view' \in [Party -> [Round -> SUBSET Sent]]
    <3> DEFINE own == {[from |-> h.from, att |-> h.att]}
    <3>1. view' = [view EXCEPT ![h.from][h.round] = own] /\ own \in SUBSET Sent
      BY <1>2, <2>2 DEF Succeed
    <3> HIDE DEF own
    <3>2. view \in [Party -> [Round -> SUBSET Sent]]
      BY DEF TypeOK
    <3>3. QED
      BY <1>1, <3>1, <3>2
  <2>4. round' \in [Party -> 0 .. LastRound + 2]
    <3> DEFINE rounds == 0 .. LastRound + 2
    <3>1. round \in [Party -> rounds] /\ round' = [round EXCEPT ![h.from] = h.round + 1]
      BY <1>2 DEF Succeed, TypeOK
    <3>2. h.round + 1 \in rounds
      BY <2>1
    <3> HIDE DEF rounds
    <3>3. round' \in [Party -> rounds]
      BY <1>1, <3>1, <3>2
    <3>4. QED
      BY <3>3 DEF rounds
  <2>5. pc' \in [Party -> {"out", "posting", "polling", "storing", "writing", "done"}]
    BY <1>1, <1>2 DEF Succeed, TypeOK
  <2>6. QED
    BY <2>3, <2>4, <2>5 DEF ClientTypes
<1>3. CASE ~h.live
  BY <1>3 DEF Succeed, TypeOK, clients, ClientTypes
<1>4. QED
  BY <1>2, <1>3

LEMMA FailType ==
    ASSUME TypeOK, NEW h \in posts, Fail(h)
    PROVE  ClientTypes'
<1>1. h.from \in Party
  BY DEF TypeOK, PostRequest
<1>2. Restored(h.from) \in [Party -> [Round -> SUBSET Sent]]
  <2>1. view \in [Party -> [Round -> SUBSET Sent]]
    BY DEF TypeOK
  <2>2. CASE round[h.from] = 0
    BY <2>1, <2>2 DEF Restored
  <2>3. CASE round[h.from] # 0
    <3> DEFINE b == round[h.from] - 1
               own == {m \in view[h.from][b] : m.from = h.from}
    <3>1. Restored(h.from) = [view EXCEPT ![h.from][b] = own]
      BY <2>3 DEF Restored
    <3>2. b \in Round => own \in SUBSET Sent
      BY <1>1, <2>1
    <3> HIDE DEF b, own
    <3> DEFINE f == [view[h.from] EXCEPT ![b] = own]
    <3>3. f \in [Round -> SUBSET Sent]
      BY <1>1, <2>1, <3>2
    <3>4. Restored(h.from) = [view EXCEPT ![h.from] = f]
      BY <3>1
    <3> HIDE DEF f
    <3>5. QED
      BY <1>1, <2>1, <3>3, <3>4
  <2>4. QED
    BY <2>2, <2>3
<1>3. CASE h.live
  BY <1>1, <1>2, <1>3 DEF Fail, TypeOK, ClientTypes
<1>4. CASE ~h.live
  BY <1>4 DEF Fail, TypeOK, clients, ClientTypes
<1>5. QED
  BY <1>3, <1>4

LEMMA PostType ==
    ASSUME TypeOK, NEW p \in Party, NEW r \in Round, Post(p, r)
    PROVE  /\ posts' \in SUBSET PostRequest
           /\ pc' \in [Party -> {"out", "posting", "polling", "storing", "writing", "done"}]
<1>1. ASSUME NEW a \in Attempt
      PROVE  [from |-> p, round |-> r, att |-> a, at |-> "fetch", live |-> TRUE,
              seen |-> NoSession] \in PostRequest
  BY NoSessionDoc DEF PostRequest
<1>2. posts' \in SUBSET PostRequest
  BY <1>1 DEF Post, TypeOK
<1>3. QED
  BY <1>2 DEF Post, TypeOK

LEMMA TypeNext == ASSUME TypeOK, DocInv, SnapInv, ClientInv, Next PROVE TypeOK'
<1>1. ASSUME NEW p \in Party, Join(p) PROVE TypeOK'
  BY <1>1, PostType, Sizes DEF Join, server, TypeOK
<1>2. ASSUME NEW p \in Party, NextRound(p) PROVE TypeOK'
  <2>1. round[p] - 1 \in Round /\ round[p] \in Round
    <3>1. round[p] > 0 /\ round[p] \in 0 .. LastRound + 2 /\ round[p] <= LastRound
      BY <1>2 DEF NextRound, Ready, ClientInv, ClientOK, TypeOK
    <3>2. QED
      BY <3>1, Sizes
  <2>2. view' \in [Party -> [Round -> SUBSET Sent]]
    BY <1>2, <2>1 DEF NextRound, TypeOK, Contents, OthersOf, Doc, Message, Sent
  <2>3. QED
    BY <1>2, <2>1, <2>2, PostType DEF NextRound, server, TypeOK
<1>3. ASSUME NEW p \in Party, FinishKey(p) PROVE TypeOK'
  <2>1. view' \in [Party -> [Round -> SUBSET Sent]]
    BY <1>3, Sizes DEF FinishKey, TypeOK, Contents, OthersOf, Doc, Message, Sent
  <2>2. QED
    BY <1>3, <2>1, Sizes DEF FinishKey, server, TypeOK
<1>4. ASSUME NEW p \in Party, FetchForKey(p) \/ StoreKey(p) PROVE TypeOK'
  BY <1>4 DEF FetchForKey, StoreKey, KeyOf, server, TypeOK
<1>5. ASSUME NEW h \in posts, Handle(h) \/ LoseReply(h) \/ LoseRequest(h) PROVE TypeOK'
  <2>h. h \in PostRequest
    BY DEF TypeOK
  <2>1. ASSUME NEW at \in {"fetch", "insert", "join", "push", "refetch"}, NEW seen \in Doc
        PROVE  [h EXCEPT !.at = at, !.seen = seen] \in PostRequest
    BY <2>h DEF PostRequest
  <2>2. CASE Fetch(h)
    <3>1. CASE posts' = posts \ {h} /\ Fail(h) /\ UNCHANGED server
      BY <2>2, <3>1, FailType DEF Fetch, server, ClientTypes, TypeOK
    <3>2. CASE \E at \in {"push", "join", "insert"} : Proceed(h, at, session)
      BY <2>1, <2>2, <3>2 DEF Fetch, Proceed, server, clients, TypeOK
    <3>3. QED
      BY <2>2, <3>1, <3>2 DEF Fetch
  <2>3. CASE InitSession(h)
    <3>1. CASE SessionIdTaken
      BY <2>3, <3>1, FailType DEF InitSession, ClientTypes, TypeOK
    <3>2. CASE ~SessionIdTaken
      <4>1. h.from = 0
        BY <2>3 DEF InitSession, SnapInv, SnapOK
      <4>2. Pushed(NoRounds, 0, h.att, 0) \in [Round -> SUBSET Message]
        BY <2>h, <4>1, FirstRoundOK DEF RoundsOK, PostRequest
      <4>3. session' \in Doc
        BY <2>3, <3>2, <4>2, RoundsAssumption DEF InitSession, Doc
      <4>4. QED
        BY <2>3, <3>2, <4>3, SucceedType DEF InitSession, ClientTypes, TypeOK
    <3>3. QED
      BY <3>1, <3>2
  <2>4. CASE StoreParticipant(h)
    <3>1. session' \in Doc
      BY <2>h, <2>4 DEF StoreParticipant, TypeOK, PostRequest, Doc
    <3>2. [h EXCEPT !.at = "push"] \in PostRequest
      BY <2>h DEF PostRequest
    <3>3. QED
      BY <2>4, <3>1, <3>2 DEF StoreParticipant, clients, TypeOK
  <2>5. CASE PushMessage(h)
    <3>1. CASE posts' = posts \ {h} /\ Fail(h) /\ UNCHANGED server
      BY <2>5, <3>1, FailType DEF PushMessage, server, ClientTypes, TypeOK
    <3>2. CASE Proceed(h, "refetch", h.seen)
      <4>1. h.seen \in Doc
        BY <2>h DEF PostRequest
      <4>2. [h EXCEPT !.at = "refetch", !.seen = h.seen] \in PostRequest
        BY <2>1, <4>1
      <4>3. QED
        BY <2>5, <3>2, <4>2 DEF PushMessage, Proceed, server, clients, TypeOK
    <3>3. CASE /\ session' = [session EXCEPT !.rounds = Pushed(@, h.from, h.att, h.round),
                                             !.version = @ + 1]
               /\ posts' = posts \ {h}
               /\ Succeed(h)
               /\ UNCHANGED sharedKey
      <4>1. Pushed(session.rounds, h.from, h.att, h.round) \in [Round -> SUBSET Message]
        BY <2>h, PushedRounds DEF DocInv, RoundsOK, PostRequest
      <4>2. session' \in Doc
        <5>1. session.version + 1 \in Nat
          BY DEF TypeOK, Doc
        <5>2. QED
          BY <3>3, <4>1, <5>1 DEF TypeOK, Doc
      <4>3. QED
        BY <2>5, <3>3, <4>2, SucceedType DEF PushMessage, ClientTypes, TypeOK
    <3>4. QED
      BY <2>5, <3>1, <3>2, <3>3 DEF PushMessage
  <2>6. CASE FetchAgain(h)
    BY <2>1, <2>6 DEF FetchAgain, Proceed, server, clients, TypeOK
  <2>7. CASE LoseReply(h)
    <3>1. [h EXCEPT !.live = FALSE] \in PostRequest
      BY <2>h DEF PostRequest
    <3>2. faults' \in Nat
      BY <2>7 DEF LoseReply, TypeOK
    <3>3. QED
      BY <2>7, <3>1, <3>2, FailType DEF LoseReply, server, ClientTypes, TypeOK
  <2>8. CASE LoseRequest(h)
    BY <2>8, FailType DEF LoseRequest, server, ClientTypes, TypeOK
  <2>9. QED
    BY <1>5, <2>2, <2>3, <2>4, <2>5, <2>6, <2>7, <2>8 DEF Handle
<1>6. QED
  BY <1>1, <1>2, <1>3, <1>4, <1>5 DEF Next, Client

-----------------------------------------------------------------------------
(* The steps, as the invariants tell them apart. *)

PushStep(h) ==
    /\ h.at = "push"
    /\ Pushable(session.rounds, Size, h.from, h.round)
    /\ session' = [session EXCEPT !.rounds = Pushed(@, h.from, h.att, h.round),
                                  !.version = @ + 1]
    /\ posts' = posts \ {h} /\ Succeed(h) /\ UNCHANGED sharedKey

InitStep(h) ==
    /\ h.round = 0 /\ h.from = 0 /\ ~Stored(session.rounds)
    /\ session' = [rounds |-> Pushed(NoRounds, 0, h.att, 0), participants |-> {0},
                   version |-> 0]
    /\ posts' = posts \ {h} /\ Succeed(h) /\ UNCHANGED sharedKey

FailStep(h) == posts' = posts \ {h} /\ Fail(h) /\ UNCHANGED server

ProceedStep(h, at, seen) ==
    /\ Proceed(h, at, seen)
    /\ \/ at = "refetch" /\ h.at = "push" /\ seen = h.seen
       \/ at \in {"push", "join"} /\ seen = session /\ Stored(session.rounds)
       \/ at = "insert" /\ seen = session /\ h.round = 0 /\ h.from = 0

RequestStep(h) ==
    \/ PushStep(h) \/ InitStep(h) \/ FailStep(h) \/ StoreParticipant(h) \/ LoseReply(h)
    \/ \E at \in {"push", "join", "insert", "refetch"} : \E seen \in Doc :
          ProceedStep(h, at, seen)

LEMMA Steps ==
    ASSUME TypeOK, SnapInv, NEW h \in posts, Handle(h) \/ LoseReply(h) \/ LoseRequest(h)
    PROVE  RequestStep(h)
<1>h. h \in PostRequest /\ h.seen \in Doc /\ session \in Doc
  BY DEF TypeOK, PostRequest
<1>1. CASE Fetch(h)
  <2>1. CASE posts' = posts \ {h} /\ Fail(h) /\ UNCHANGED server
    BY <2>1 DEF RequestStep, FailStep
  <2>2. CASE Stored(session.rounds) /\ \E at \in {"push", "join"} : Proceed(h, at, session)
    BY <1>h, <2>2 DEF RequestStep, ProceedStep
  <2>3. CASE h.round = 0 /\ h.from = 0 /\ Proceed(h, "insert", session)
    BY <1>h, <2>3 DEF RequestStep, ProceedStep
  <2>4. QED
    BY <1>1, <2>1, <2>2, <2>3 DEF Fetch
<1>2. CASE InitSession(h)
  <2>1. CASE SessionIdTaken
    BY <1>2, <2>1 DEF InitSession, RequestStep, FailStep, server
  <2>2. CASE ~SessionIdTaken
    <3>1. h.round = 0 /\ h.from = 0
      BY <1>2 DEF InitSession, SnapInv, SnapOK
    <3>2. QED
      BY <1>2, <2>2, <3>1 DEF InitSession, SessionIdTaken, RequestStep, InitStep
  <2>3. QED
    BY <2>1, <2>2
<1>3. CASE StoreParticipant(h) \/ LoseReply(h)
  BY <1>3 DEF RequestStep
<1>4. CASE PushMessage(h)
  <2>1. h.at = "push"
    BY <1>4 DEF PushMessage
  <2>2. CASE ~Pushable(h.seen.rounds, Size, h.from, h.round)
    BY <1>4, <2>2 DEF PushMessage, RequestStep, FailStep
  <2>3. CASE Pushable(h.seen.rounds, Size, h.from, h.round) /\ UpToDate(h)
    <3>1. h.seen.rounds = session.rounds
      BY <2>1, <2>3 DEF UpToDate, SnapInv, SnapOK
    <3>2. PushStep(h)
      BY <1>4, <2>1, <2>3, <3>1 DEF PushMessage, PushStep
    <3>3. QED
      BY <3>2 DEF RequestStep
  <2>4. CASE Pushable(h.seen.rounds, Size, h.from, h.round) /\ ~UpToDate(h)
    BY <1>h, <1>4, <2>1, <2>4 DEF PushMessage, RequestStep, ProceedStep
  <2>5. QED
    BY <2>2, <2>3, <2>4
<1>5. CASE FetchAgain(h)
  <2>1. Stored(session.rounds)
    BY <1>5 DEF FetchAgain, SnapInv, SnapOK
  <2>2. QED
    BY <1>h, <1>5, <2>1 DEF FetchAgain, RequestStep, ProceedStep
<1>6. CASE LoseRequest(h)
  BY <1>6 DEF LoseRequest, RequestStep, FailStep
<1>7. QED
  BY <1>1, <1>2, <1>3, <1>4, <1>5, <1>6 DEF Handle

\* Only two steps change the rounds, and only by one message.
LEMMA RoundsStep ==
    ASSUME TypeOK, DocInv, SnapInv, Next
    PROVE  \/ session'.rounds = session.rounds /\ session'.version = session.version
           \/ \E h \in posts : PushStep(h) \/ InitStep(h)
<1>1. ASSUME NEW p \in Party, Client(p) PROVE session' = session
  BY <1>1 DEF Client, Join, NextRound, FinishKey, FetchForKey, StoreKey, server
<1>2. ASSUME NEW h \in posts, Handle(h) \/ LoseReply(h) \/ LoseRequest(h)
      PROVE  \/ session'.rounds = session.rounds /\ session'.version = session.version
             \/ PushStep(h) \/ InitStep(h)
  <2>1. RequestStep(h)
    BY <1>2, Steps
  <2>2. CASE StoreParticipant(h)
    BY <2>2 DEF StoreParticipant, TypeOK, Doc
  <2>3. CASE FailStep(h) \/ LoseReply(h)
             \/ \E at \in {"push", "join", "insert", "refetch"} : \E seen \in Doc :
                   ProceedStep(h, at, seen)
    BY <2>3 DEF FailStep, LoseReply, ProceedStep, Proceed, server
  <2>4. QED
    BY <2>1, <2>2, <2>3 DEF RequestStep
<1>3. QED
  BY <1>1, <1>2 DEF Next

\* A document that is not stored has no message in any round.
LEMMA Unstored ==
    ASSUME DocInv, ~Stored(session.rounds)
    PROVE  \A r \in Round : session.rounds[r] = {}
<1> SUFFICES ASSUME NEW r \in Round, session.rounds[r] # {} PROVE FALSE
  OBVIOUS
<1>1. r # 0 /\ 0 \in Round /\ 0 < r
  BY Sizes DEF Stored
<1>2. Cardinality(session.rounds[0]) = Size
  BY <1>1 DEF DocInv, RoundsOK
<1>3. QED
  BY <1>2, FS_EmptySet, Sizes DEF Stored

LEMMA DocNext ==
    ASSUME TypeOK, DocInv, SnapInv, Next
    PROVE  DocInv' /\ \A r \in Round : session.rounds[r] \subseteq session'.rounds[r]
<1>1. CASE session'.rounds = session.rounds
  BY <1>1 DEF DocInv
<1>2. ASSUME NEW h \in posts, PushStep(h)
      PROVE  DocInv' /\ \A r \in Round : session.rounds[r] \subseteq session'.rounds[r]
  <2>1. h.from \in Party /\ h.round \in Round /\ h.att \in Attempt
    BY DEF TypeOK, PostRequest
  <2>2. session'.rounds = Pushed(session.rounds, h.from, h.att, h.round)
    BY <1>2 DEF PushStep, TypeOK, Doc
  <2>3. RoundsOK(session'.rounds, Size)
    BY <1>2, <2>1, <2>2, PushKeeps, Sizes DEF PushStep, DocInv
  <2>4. QED
    BY <2>1, <2>2, <2>3, PushedRounds DEF DocInv, RoundsOK
<1>3. ASSUME NEW h \in posts, InitStep(h)
      PROVE  DocInv' /\ \A r \in Round : session.rounds[r] \subseteq session'.rounds[r]
  <2>1. h.att \in Attempt /\ session'.rounds = Pushed(NoRounds, 0, h.att, 0)
    BY <1>3 DEF TypeOK, PostRequest, InitStep
  <2>2. RoundsOK(session'.rounds, Size)
    BY <2>1, FirstRoundOK, RoundsAssumption
  <2>3. QED
    BY <1>3, <2>2, Unstored DEF InitStep, DocInv
<1>4. QED
  BY <1>1, <1>2, <1>3, RoundsStep

-----------------------------------------------------------------------------
(* Snapshots. *)

LEMMA SnapNext == ASSUME TypeOK, DocInv, SnapInv, Next PROVE SnapInv'
<1>1. ASSUME NEW p \in Party, Client(p) PROVE SnapInv'
  <2>1. session' = session
    BY <1>1 DEF Client, Join, NextRound, FinishKey, FetchForKey, StoreKey, server
  <2>2. \A g \in posts' : g \in posts \/ g.at = "fetch"
    BY <1>1 DEF Client, Join, NextRound, FinishKey, FetchForKey, StoreKey, Post
  <2>3. QED
    BY <2>1, <2>2 DEF SnapInv, SnapOK
<1>2. ASSUME NEW h \in posts, RequestStep(h) PROVE SnapInv'
  <2>h. h \in PostRequest /\ session \in Doc /\ \A g \in posts : SnapOK(g)
    BY DEF TypeOK, SnapInv
  <2>1. CASE PushStep(h)
    <3>1. session'.version = session.version + 1 /\ session.version \in Nat
      BY <2>h, <2>1 DEF PushStep, Doc
    <3>2. Stored(session.rounds) /\ posts' = posts \ {h}
      BY <2>h, <2>1 DEF PushStep, SnapOK
    <3>3. Stored(session'.rounds)
      BY <3>2, DocNext, Sizes DEF Stored
    <3>4. ASSUME NEW g \in posts PROVE SnapOK(g)'
      <4>1. SnapOK(g) /\ g.seen.version \in Nat
        BY <2>h DEF TypeOK, PostRequest, Doc
      <4>2. QED
        BY <3>1, <3>3, <4>1 DEF SnapOK
    <3>5. QED
      BY <3>2, <3>4 DEF SnapInv
  <2>2. CASE InitStep(h)
    <3>1. \A g \in posts : g.at \notin {"join", "push", "refetch"}
      BY <2>h, <2>2 DEF InitStep, SnapOK
    <3>2. QED
      BY <2>h, <2>2, <3>1 DEF InitStep, SnapInv, SnapOK
  <2>3. CASE FailStep(h)
    BY <2>h, <2>3 DEF FailStep, server, SnapInv, SnapOK
  <2>4. CASE StoreParticipant(h)
    <3>1. session'.rounds = session.rounds /\ session'.version = session.version
      BY <2>h, <2>4 DEF StoreParticipant, Doc
    <3>2. SnapOK([h EXCEPT !.at = "push"])'
      <4>1. SnapOK(h) /\ h.at = "join"
        BY <2>h, <2>4 DEF StoreParticipant
      <4>2. [h EXCEPT !.at = "push"].seen = h.seen /\ [h EXCEPT !.at = "push"].at = "push"
        BY <2>h DEF PostRequest
      <4>3. QED
        BY <3>1, <4>1, <4>2 DEF SnapOK
    <3>3. \A g \in posts : SnapOK(g)'
      BY <2>h, <3>1 DEF SnapOK
    <3>4. QED
      BY <2>4, <3>2, <3>3 DEF StoreParticipant, SnapInv
  <2>5. CASE LoseReply(h)
    <3>1. UNCHANGED session /\ posts' = (posts \ {h}) \cup {[h EXCEPT !.live = FALSE]}
      BY <2>5 DEF LoseReply, server
    <3>2. SnapOK([h EXCEPT !.live = FALSE])
      <4>1. /\ [h EXCEPT !.live = FALSE].seen = h.seen /\ [h EXCEPT !.live = FALSE].at = h.at
            /\ [h EXCEPT !.live = FALSE].round = h.round /\ [h EXCEPT !.live = FALSE].from = h.from
        BY <2>h DEF PostRequest
      <4>2. QED
        BY <2>h, <4>1 DEF SnapOK
    <3>3. QED
      BY <2>h, <3>1, <3>2 DEF SnapInv, SnapOK
  <2>6. ASSUME NEW at \in {"push", "join", "insert", "refetch"}, NEW seen \in Doc,
               ProceedStep(h, at, seen)
        PROVE  SnapInv'
    <3> DEFINE g == [h EXCEPT !.at = at, !.seen = seen]
    <3>1. UNCHANGED session /\ posts' = (posts \ {h}) \cup {g}
      BY <2>6 DEF ProceedStep, Proceed, server
    <3>2. g.at = at /\ g.seen = seen /\ g.round = h.round /\ g.from = h.from
      BY <2>h DEF PostRequest
    <3>3. SnapOK(g)
      <4>1. CASE at = "refetch" /\ h.at = "push" /\ seen = h.seen
        BY <2>h, <3>2, <4>1 DEF SnapOK
      <4>2. CASE at \in {"push", "join"} /\ seen = session /\ Stored(session.rounds)
        <5>1. session.version <= session.version
          BY <2>h DEF Doc
        <5>2. QED
          BY <3>2, <4>2, <5>1 DEF SnapOK
      <4>3. CASE at = "insert" /\ seen = session /\ h.round = 0 /\ h.from = 0
        BY <3>2, <4>3 DEF SnapOK
      <4>4. QED
        BY <2>6, <4>1, <4>2, <4>3 DEF ProceedStep
    <3> HIDE DEF g
    <3>4. QED
      BY <2>h, <3>1, <3>3 DEF SnapInv, SnapOK
  <2>7. QED
    BY <1>2, <2>1, <2>2, <2>3, <2>4, <2>5, <2>6 DEF RequestStep
<1>3. QED
  BY <1>1, <1>2, Steps DEF Next

-----------------------------------------------------------------------------
(* What a client computes from. *)

\* What the three client steps that follow a request do, point by point.
LEMMA SucceedViews ==
    ASSUME TypeOK, NEW h \in posts, h.live, Succeed(h)
    PROVE  /\ pc' = [pc EXCEPT ![h.from] = "polling"]
           /\ round'[h.from] = h.round + 1 /\ \A p \in Party : p # h.from => round'[p] = round[p]
           /\ view'[h.from][h.round] = {[from |-> h.from, att |-> h.att]}
           /\ \A p \in Party : \A r \in Round :
                 p # h.from \/ r # h.round => view'[p][r] = view[p][r]
<1>1. h.from \in Party /\ h.round \in Round
  BY DEF TypeOK, PostRequest
<1>2. ClientTypes
  BY DEF TypeOK, ClientTypes
<1> DEFINE own == {[from |-> h.from, att |-> h.att]}
<1>3. /\ pc' = [pc EXCEPT ![h.from] = "polling"]
      /\ round' = [round EXCEPT ![h.from] = h.round + 1]
      /\ view' = [view EXCEPT ![h.from][h.round] = own]
  BY DEF Succeed
<1> HIDE DEF own
<1>4. view'[h.from][h.round] = own
  BY <1>1, <1>2, <1>3 DEF ClientTypes
<1>5. \A p \in Party : \A r \in Round :
          p # h.from \/ r # h.round => view'[p][r] = view[p][r]
  BY <1>1, <1>2, <1>3 DEF ClientTypes
<1>6. round'[h.from] = h.round + 1 /\ \A p \in Party : p # h.from => round'[p] = round[p]
  BY <1>1, <1>2, <1>3 DEF ClientTypes
<1>7. QED
  BY <1>3, <1>4, <1>5, <1>6 DEF own

LEMMA FailViews ==
    ASSUME TypeOK, NEW h \in posts, h.live, Fail(h)
    PROVE  /\ pc' = [pc EXCEPT ![h.from] = IF h.round = 0 THEN "out" ELSE "polling"]
           /\ round' = round
           /\ \A p \in Party : \A r \in Round :
                 /\ view'[p][r] \subseteq view[p][r]
                 /\ \A m \in view[p][r] : m.from = p => m \in view'[p][r]
                 /\ r + 1 < round[p] => view'[p][r] = view[p][r]
                 /\ p # h.from => view'[p][r] = view[p][r]
<1>1. h.from \in Party /\ ClientTypes /\ round[h.from] \in Nat /\ Round \subseteq Nat
  BY Sizes DEF TypeOK, PostRequest, ClientTypes
<1>2. view' = Restored(h.from)
  BY DEF Fail
<1>3. CASE round[h.from] = 0
  BY <1>2, <1>3 DEF Restored, Fail
<1>4. CASE round[h.from] # 0
  <2> DEFINE b == round[h.from] - 1
             own == {m \in view[h.from][b] : m.from = h.from}
  <2>1. view' = [view EXCEPT ![h.from][b] = own]
    BY <1>2, <1>4 DEF Restored
  <2>2. ASSUME NEW p \in Party, NEW r \in Round
        PROVE  view'[p][r] = IF p = h.from /\ r = b THEN own ELSE view[p][r]
    <3> HIDE DEF own, b
    <3>1. QED
      BY <1>1, <2>1 DEF ClientTypes
  <2>3. \A p \in Party : \A r \in Round : r + 1 < round[p] => p # h.from \/ r # b
    BY <1>1
  <2>4. own \subseteq view[h.from][b] /\ \A m \in view[h.from][b] : m.from = h.from => m \in own
    OBVIOUS
  <2> HIDE DEF own, b
  <2>5. \A p \in Party : \A r \in Round :
            /\ view'[p][r] \subseteq view[p][r]
            /\ \A m \in view[p][r] : m.from = p => m \in view'[p][r]
            /\ r + 1 < round[p] => view'[p][r] = view[p][r]
            /\ p # h.from => view'[p][r] = view[p][r]
    BY <2>2, <2>3, <2>4
  <2>6. QED
    BY <2>5 DEF Fail
<1>5. QED
  BY <1>3, <1>4

LEMMA NextRoundViews ==
    ASSUME TypeOK, ClientInv, NEW p \in Party, NextRound(p) \/ FinishKey(p)
    PROVE  /\ round[p] - 1 \in Round /\ round[p] \in Nat \ {0} /\ pc[p] = "polling"
           /\ MessagesFor(session.rounds, Size, p, round[p] - 1)
           /\ view'[p][round[p] - 1]
                = view[p][round[p] - 1] \cup Contents(OthersOf(session.rounds, p, round[p] - 1))
           /\ \A q \in Party : \A r \in Round :
                 q # p \/ r # round[p] - 1 => view'[q][r] = view[q][r]
<1>1. /\ pc[p] = "polling" /\ round[p] \in 0 .. LastRound + 2 /\ ClientTypes
      /\ MessagesFor(session.rounds, Size, p, round[p] - 1)
  BY DEF NextRound, FinishKey, Ready, TypeOK, ClientTypes
<1>2. round[p] > 0 /\ round[p] <= LastRound + 1
  BY <1>1 DEF ClientInv, ClientOK, HasKey
<1>3. round[p] - 1 \in Round /\ round[p] \in Nat \ {0}
  BY <1>1, <1>2, Sizes
<1> DEFINE b == round[p] - 1
           more == view[p][b] \cup Contents(OthersOf(session.rounds, p, b))
<1>4. view' = [view EXCEPT ![p][b] = more]
  <2>1. CASE NextRound(p)
    BY <2>1 DEF NextRound
  <2>2. CASE FinishKey(p)
    <3>1. b = LastRound
      BY <2>2, Sizes DEF FinishKey
    <3>2. QED
      BY <2>2, <3>1 DEF FinishKey
  <2>3. QED
    BY <2>1, <2>2
<1>5. ASSUME NEW q \in Party, NEW r \in Round
      PROVE  view'[q][r] = IF q = p /\ r = b THEN more ELSE view[q][r]
  <2>1. b \in Round
    BY <1>3
  <2> HIDE DEF more, b
  <2>2. QED
    BY <1>1, <1>4, <2>1 DEF ClientTypes
<1>6. QED
  BY <1>1, <1>3, <1>5

\* Client steps that leave what it computes from alone.
LEMMA OtherClientSteps ==
    ASSUME NEW p \in Party, Join(p) \/ FetchForKey(p) \/ StoreKey(p)
    PROVE  UNCHANGED <<round, view>>
  BY DEF Join, FetchForKey, StoreKey

LEMMA ViewNext == ASSUME IInv, Next PROVE ViewInv'
<1>i. TypeOK /\ DocInv /\ SnapInv /\ ViewInv /\ ClientInv
  BY DEF IInv
<1>g. \A r \in Round : Contents(session.rounds[r]) \subseteq Contents(session'.rounds[r])
  BY <1>i, DocNext DEF Contents
<1>u. CASE \A p \in Party : \A r \in Round : view'[p][r] \subseteq view[p][r]
  BY <1>i, <1>g, <1>u DEF ViewInv
<1>1. ASSUME NEW p \in Party, Client(p) PROVE ViewInv'
  <2>1. CASE NextRound(p) \/ FinishKey(p)
    <3>1. Contents(OthersOf(session.rounds, p, round[p] - 1))
             \subseteq Contents(session.rounds[round[p] - 1])
      BY DEF Contents, OthersOf
    <3>2. QED
      BY <1>i, <1>g, <2>1, <3>1, NextRoundViews DEF ViewInv
  <2>2. CASE Join(p) \/ FetchForKey(p) \/ StoreKey(p)
    BY <1>u, <2>2, OtherClientSteps
  <2>3. QED
    BY <1>1, <2>1, <2>2 DEF Client
<1>2. ASSUME NEW h \in posts, RequestStep(h) PROVE ViewInv'
  <2>h. h.from \in Party /\ h.round \in Round /\ h.att \in Attempt
    BY <1>i DEF TypeOK, PostRequest
  <2>1. CASE PushStep(h) \/ InitStep(h)
    <3>1. Succeed(h)
      BY <2>1 DEF PushStep, InitStep
    <3>2. CASE ~h.live
      BY <1>u, <3>1, <3>2 DEF Succeed, clients
    <3>3. CASE h.live
      <4>1. \E m \in session'.rounds[h.round] : m.from = h.from /\ m.att = h.att
        <5>1. CASE PushStep(h)
          <6>1. session'.rounds = Pushed(session.rounds, h.from, h.att, h.round)
            BY <1>i, <5>1 DEF PushStep, TypeOK, Doc
          <6>2. [from |-> h.from, att |-> h.att, at |-> Cardinality(session.rounds[h.round])]
                  \in session'.rounds[h.round]
            BY <1>i, <2>h, <6>1, PushedRounds DEF DocInv, RoundsOK
          <6>3. QED
            BY <6>2
        <5>2. CASE InitStep(h)
          <6>1. session'.rounds = Pushed(NoRounds, 0, h.att, 0) /\ h.from = 0 /\ h.round = 0
            BY <5>2 DEF InitStep
          <6>2. NoRounds \in [Round -> SUBSET Message] /\ IsFiniteSet(NoRounds[0])
            BY Sizes, FS_EmptySet DEF NoRounds
          <6>3. [from |-> h.from, att |-> h.att, at |-> Cardinality(NoRounds[0])]
                  \in session'.rounds[h.round]
            BY <2>h, <6>1, <6>2, PushedRounds
          <6>4. QED
            BY <6>3
        <5>3. QED
          BY <2>1, <5>1, <5>2
      <4>2. {[from |-> h.from, att |-> h.att]} \subseteq Contents(session'.rounds[h.round])
        BY <4>1 DEF Contents
      <4>3. QED
        BY <1>i, <1>g, <3>1, <3>3, <4>2, SucceedViews DEF ViewInv
    <3>4. QED
      BY <3>2, <3>3
  <2>2. CASE FailStep(h) \/ LoseReply(h)
    <3>1. Fail(h)
      BY <2>2 DEF FailStep, LoseReply
    <3>2. CASE h.live
      BY <1>i, <1>u, <3>1, <3>2, FailViews
    <3>3. CASE ~h.live
      BY <1>u, <3>1, <3>3 DEF Fail, clients
    <3>4. QED
      BY <3>2, <3>3
  <2>3. CASE StoreParticipant(h)
             \/ \E at \in {"push", "join", "insert", "refetch"} : \E seen \in Doc :
                   ProceedStep(h, at, seen)
    BY <1>u, <2>3 DEF StoreParticipant, ProceedStep, Proceed, clients
  <2>4. QED
    BY <1>2, <2>1, <2>2, <2>3 DEF RequestStep
<1>3. QED
  BY <1>i, <1>1, <1>2, Steps DEF Next

\* What nextRound takes in completes the round it had its own message in.
LEMMA Completed ==
    ASSUME TypeOK, DocInv, ClientInv, NEW p \in Party, NextRound(p) \/ FinishKey(p)
    PROVE  Froms(view'[p][round[p] - 1]) = Party
<1> DEFINE b == round[p] - 1
           others == OthersOf(session.rounds, p, b)
<1>1. /\ b \in Round /\ b < round[p] /\ MessagesFor(session.rounds, Size, p, b)
      /\ view'[p][b] = view[p][b] \cup Contents(others)
  BY NextRoundViews
<1>2. {m.from : m \in others} = Party \ {p}
  BY <1>1, AllOthers, Sizes DEF DocInv
<1>3. p \in Froms(view[p][b])
  BY <1>1 DEF ClientInv, ClientOK
<1>4. Froms(Contents(others)) = {m.from : m \in others}
  <2>1. ASSUME NEW m PROVE [from |-> m.from, att |-> m.att].from = m.from
    OBVIOUS
  <2>2. QED
    BY <2>1 DEF Froms, Contents
<1>5. Froms(view[p][b]) \subseteq Party
  BY <1>1 DEF Froms, TypeOK, Sent
<1>6. Froms(view'[p][b]) = Froms(view[p][b]) \cup Froms(Contents(others))
  BY <1>1 DEF Froms
<1>7. QED
  BY <1>2, <1>3, <1>4, <1>5, <1>6

LEMMA ClientNext == ASSUME IInv, Next PROVE ClientInv'
<1>i. TypeOK /\ DocInv /\ SnapInv /\ ClientInv /\ LiveInv
  BY DEF IInv
<1>t. /\ round \in [Party -> 0 .. LastRound + 2] /\ Round \subseteq Int
      /\ pc \in [Party -> {"out", "posting", "polling", "storing", "writing", "done"}]
  BY <1>i, Sizes DEF TypeOK
<1>r. \A p \in Party : round[p] \in Int
  BY <1>t
<1>1. ASSUME NEW p \in Party, Client(p) PROVE ClientInv'
  <2>1. CASE Join(p)
    <3>1. UNCHANGED <<round, view>> /\ pc' = [pc EXCEPT ![p] = "posting"] /\ round[p] = 0
      BY <1>i, <2>1 DEF Join, Post, ClientInv, ClientOK
    <3>2. QED
      BY <1>i, <1>t, <3>1, Sizes DEF ClientInv, ClientOK, HasKey
  <2>2. CASE NextRound(p)
    <3>1. /\ pc' = [pc EXCEPT ![p] = "posting"] /\ round' = round
          /\ round[p] <= LastRound
      BY <2>2 DEF NextRound, Post
    <3>2. ASSUME NEW q \in Party, NEW r \in Round
          PROVE  /\ r < round[q] => q \in Froms(view'[q][r])
                 /\ r < round[q] - 1 => Froms(view'[q][r]) = Party
      <4>1. CASE q = p /\ r = round[p] - 1
        BY <1>i, <1>r, <2>2, <4>1, Completed
      <4>2. CASE ~(q = p /\ r = round[p] - 1)
        BY <1>i, <2>2, <4>2, NextRoundViews DEF ClientInv, ClientOK
      <4>3. QED
        BY <4>1, <4>2
    <3>3. QED
      BY <1>i, <1>t, <3>1, <3>2, Sizes DEF ClientInv, ClientOK, HasKey
  <2>3. CASE FinishKey(p)
    <3>1. /\ pc' = [pc EXCEPT ![p] = IF sharedKey = NoKey THEN "storing" ELSE "done"]
          /\ round' = [round EXCEPT ![p] = @ + 1]
          /\ round[p] = LastRound + 1
      BY <2>3 DEF FinishKey
    <3>2. ASSUME NEW q \in Party, NEW r \in Round
          PROVE  /\ r < round'[q] => q \in Froms(view'[q][r])
                 /\ r < round'[q] - 1 => Froms(view'[q][r]) = Party
      <4>1. CASE q = p /\ r = round[p] - 1
        BY <1>i, <1>r, <2>3, <4>1, Completed
      <4>2. CASE q = p /\ r # round[p] - 1
        <5>1. r < LastRound + 1 /\ (r = LastRound \/ r < LastRound)
          BY Sizes
        <5>2. r < round[p] - 1
          BY <3>1, <4>2, <5>1, Sizes
        <5>3. Froms(view[p][r]) = Party
          BY <1>i, <5>2 DEF ClientInv, ClientOK
        <5>4. view'[p][r] = view[p][r]
          BY <1>i, <2>3, <4>2, NextRoundViews
        <5>5. QED
          BY <4>2, <5>3, <5>4
      <4>3. CASE q # p
        <5>1. round'[q] = round[q] /\ view'[q][r] = view[q][r]
          BY <1>i, <1>t, <2>3, <3>1, <4>3, NextRoundViews
        <5>2. QED
          BY <1>i, <5>1 DEF ClientInv, ClientOK
      <4>4. QED
        BY <4>1, <4>2, <4>3
    <3>3. ASSUME NEW q \in Party
          PROVE  (/\ HasKey(q) => round[q] = LastRound + 2
                  /\ ~HasKey(q) => round[q] <= LastRound + 1
                  /\ pc[q] = "out" => round[q] = 0
                  /\ pc[q] = "polling" => round[q] > 0)'
      <4>1. CASE q = p
        BY <1>t, <3>1, <4>1, Sizes DEF HasKey
      <4>2. CASE q # p
        BY <1>i, <1>t, <3>1, <4>2 DEF ClientInv, ClientOK, HasKey
      <4>3. QED
        BY <4>1, <4>2
    <3>4. QED
      BY <3>2, <3>3 DEF ClientInv, ClientOK
  <2>4. CASE FetchForKey(p) \/ StoreKey(p)
    <3>1. UNCHANGED <<round, view>>
      BY <2>4 DEF FetchForKey, StoreKey
    <3>2. HasKey(p) /\ \E x \in {"writing", "done"} : pc' = [pc EXCEPT ![p] = x]
      BY <2>4 DEF FetchForKey, StoreKey, HasKey
    <3>3. QED
      BY <1>i, <1>t, <3>1, <3>2 DEF ClientInv, ClientOK, HasKey
  <2>5. QED
    BY <1>1, <2>1, <2>2, <2>3, <2>4 DEF Client
<1>2. ASSUME NEW h \in posts, RequestStep(h) PROVE ClientInv'
  <2>h. h.from \in Party /\ h.round \in Round /\ h.att \in Attempt /\ LiveOK(h)
    BY <1>i DEF TypeOK, PostRequest, LiveInv
  <2>u. CASE UNCHANGED clients
    BY <1>i, <2>u DEF clients, ClientInv, ClientOK, HasKey
  <2>1. CASE Succeed(h) /\ h.live
    <3>1. ASSUME NEW q \in Party, q # h.from PROVE ClientOK(q)'
      BY <1>i, <1>t, <2>1, <2>h, <3>1, SucceedViews DEF ClientInv, ClientOK, HasKey
    <3>2. ClientOK(h.from)'
      <4>1. /\ pc'[h.from] = "polling" /\ round'[h.from] = h.round + 1
            /\ view'[h.from][h.round] = {[from |-> h.from, att |-> h.att]}
            /\ \A r \in Round : r # h.round => view'[h.from][r] = view[h.from][r]
        <5>1. /\ pc' = [pc EXCEPT ![h.from] = "polling"]
              /\ round'[h.from] = h.round + 1
              /\ view'[h.from][h.round] = {[from |-> h.from, att |-> h.att]}
              /\ \A r \in Round : r # h.round => view'[h.from][r] = view[h.from][r]
          BY <1>i, <2>1, <2>h, SucceedViews
        <5>2. pc'[h.from] = "polling"
          BY <1>t, <2>h, <5>1
        <5>3. QED
          BY <5>1, <5>2
      <4>2. [from |-> h.from, att |-> h.att].from = h.from
        OBVIOUS
      <4>3. h.from \in Froms(view'[h.from][h.round])
        BY <4>1, <4>2 DEF Froms
      <4>4. round[h.from] = h.round /\ ClientOK(h.from)
        BY <1>i, <2>1, <2>h DEF LiveOK, ClientInv
      <4>5. \A r \in Round : r < h.round + 1 => h.from \in Froms(view'[h.from][r])
        <5>1. TAKE r \in Round
        <5>2. r < h.round + 1 => r = h.round \/ r < round[h.from]
          BY <1>t, <2>h, <4>4
        <5>3. QED
          BY <4>1, <4>3, <4>4, <5>2 DEF ClientOK
      <4>6. \A r \in Round : r < h.round => Froms(view'[h.from][r]) = Party
        <5>1. TAKE r \in Round
        <5>2. r < h.round => r # h.round /\ (r < h.round - 1 \/ (h.round > 0 /\ r = h.round - 1))
          BY <2>h, Sizes
        <5>3. r < h.round => Froms(view[h.from][r]) = Party
          BY <2>1, <2>h, <4>4, <5>2 DEF ClientOK, LiveOK
        <5>4. QED
          BY <4>1, <5>2, <5>3
      <4>7. h.round + 1 <= LastRound + 1 /\ h.round + 1 > 0 /\ h.round + 1 - 1 = h.round
        BY <2>h, Sizes
      <4>8. /\ \A r \in Round : r < round'[h.from] => h.from \in Froms(view'[h.from][r])
            /\ \A r \in Round : r < round'[h.from] - 1 => Froms(view'[h.from][r]) = Party
        <5>1. round'[h.from] = h.round + 1 /\ round'[h.from] - 1 = h.round
          <6>1. round'[h.from] = h.round + 1
            BY <4>1
          <6>2. QED
            BY <2>h, <6>1, Sizes
        <5>2. QED
          BY <4>5, <4>6, <5>1
      <4>9. /\ ~HasKey(h.from)' /\ round'[h.from] <= LastRound + 1
            /\ pc'[h.from] # "out" /\ round'[h.from] > 0
        <5>1. round'[h.from] <= LastRound + 1 /\ round'[h.from] > 0
          BY <4>1, <4>7
        <5>2. ~(pc'[h.from] \in {"storing", "writing", "done"}) /\ pc'[h.from] # "out"
          BY <4>1
        <5>3. QED
          BY <5>1, <5>2 DEF HasKey
      <4>10. QED
        BY <4>8, <4>9 DEF ClientOK
    <3>3. QED
      BY <3>1, <3>2 DEF ClientInv
  <2>2. CASE Fail(h) /\ h.live
    <3>1. /\ round' = round /\ round[h.from] = h.round
          /\ pc' = [pc EXCEPT ![h.from] = IF h.round = 0 THEN "out" ELSE "polling"]
      BY <1>i, <2>2, <2>h, FailViews DEF LiveOK
    <3>2. ASSUME NEW q \in Party, NEW r \in Round
          PROVE  /\ r < round[q] => q \in Froms(view'[q][r])
                 /\ r < round[q] - 1 => Froms(view'[q][r]) = Party
      <4>1. /\ \A m \in view[q][r] : m.from = q => m \in view'[q][r]
            /\ r + 1 < round[q] => view'[q][r] = view[q][r]
        BY <1>i, <2>2, FailViews
      <4>2. ClientOK(q)
        BY <1>i DEF ClientInv
      <4>3. r < round[q] => q \in Froms(view'[q][r])
        BY <4>1, <4>2 DEF ClientOK, Froms
      <4>4. r < round[q] - 1 => r + 1 < round[q]
        BY <1>t, <1>r
      <4>5. QED
        BY <4>1, <4>2, <4>3, <4>4 DEF ClientOK
    <3>3. ASSUME NEW q \in Party
          PROVE  (/\ HasKey(q) => round[q] = LastRound + 2
                  /\ ~HasKey(q) => round[q] <= LastRound + 1
                  /\ pc[q] = "out" => round[q] = 0
                  /\ pc[q] = "polling" => round[q] > 0)'
      <4>1. CASE q = h.from
        BY <1>t, <2>h, <3>1, <4>1, Sizes DEF HasKey
      <4>2. CASE q # h.from
        BY <1>i, <1>t, <2>h, <3>1, <4>2 DEF ClientInv, ClientOK, HasKey
      <4>3. QED
        BY <4>1, <4>2
    <3>4. QED
      BY <3>1, <3>2, <3>3 DEF ClientInv, ClientOK
  <2>3. CASE ~h.live /\ (Succeed(h) \/ Fail(h))
    BY <2>u, <2>3 DEF Succeed, Fail
  <2>4. CASE StoreParticipant(h)
             \/ \E at \in {"push", "join", "insert", "refetch"} : \E seen \in Doc :
                   ProceedStep(h, at, seen)
    BY <2>u, <2>4 DEF StoreParticipant, ProceedStep, Proceed, clients
  <2>5. QED
    BY <1>2, <2>1, <2>2, <2>3, <2>4 DEF RequestStep, PushStep, InitStep, FailStep, LoseReply
<1>3. QED
  BY <1>i, <1>1, <1>2, Steps DEF Next

-----------------------------------------------------------------------------
(* The requests of a client that still waits for the reply. *)

LEMMA LiveNext == ASSUME IInv, Next PROVE LiveInv'
<1>i. TypeOK /\ DocInv /\ SnapInv /\ ClientInv /\ LiveInv
  BY DEF IInv
<1>t. /\ round \in [Party -> 0 .. LastRound + 2] /\ Round \subseteq Int
      /\ pc \in [Party -> {"out", "posting", "polling", "storing", "writing", "done"}]
      /\ \A h \in posts : h \in PostRequest
  BY <1>i, Sizes DEF TypeOK
<1>n. \A h \in posts : /\ h.from \in Party /\ h.round \in Round /\ LiveOK(h)
                       /\ h.round > 0 => h.round - 1 \in Round
  BY <1>t, <1>i, Sizes DEF PostRequest, LiveInv
<1>1. ASSUME NEW p \in Party, Join(p) \/ NextRound(p) PROVE LiveInv'
  <2>1. /\ pc[p] # "posting" /\ pc' = [pc EXCEPT ![p] = "posting"] /\ round' = round
        /\ \E a \in Attempt :
              posts' = posts \cup {[from |-> p, round |-> round[p], att |-> a, at |-> "fetch",
                                    live |-> TRUE, seen |-> NoSession]}
    <3>1. CASE Join(p)
      <4>1. round[p] = 0
        BY <1>i, <3>1 DEF Join, ClientInv, ClientOK
      <4>2. QED
        BY <3>1, <4>1 DEF Join, Post
    <3>2. CASE NextRound(p)
      BY <3>2 DEF NextRound, Ready, Post
    <3>3. QED
      BY <1>1, <3>1, <3>2
  <2>2. round[p] > 0 => Froms(view'[p][round[p] - 1]) = Party
    <3>1. CASE Join(p)
      <4>1. round[p] = 0
        BY <1>i, <3>1 DEF Join, ClientInv, ClientOK
      <4>2. QED
        BY <4>1
    <3>2. CASE NextRound(p)
      BY <1>i, <3>2, Completed
    <3>3. QED
      BY <1>1, <3>1, <3>2
  <2>3. \A q \in Party : q # p => view'[q] = view[q]
    <3>1. CASE Join(p)
      BY <3>1 DEF Join
    <3>2. CASE NextRound(p)
      <4>1. view \in [Party -> [Round -> SUBSET Sent]]
        BY <1>i DEF TypeOK
      <4>2. QED
        BY <3>2, <4>1 DEF NextRound
    <3>3. QED
      BY <1>1, <3>1, <3>2
  <2>4. PICK a \in Attempt :
          posts' = posts \cup {[from |-> p, round |-> round[p], att |-> a, at |-> "fetch",
                                live |-> TRUE, seen |-> NoSession]}
    BY <2>1
  <2>x. PICK x : x = [from |-> p, round |-> round[p], att |-> a, at |-> "fetch",
                      live |-> TRUE, seen |-> NoSession]
    BY Zenon
  <2>5. x.from = p /\ x.round = round[p] /\ x.live
    BY <2>x
  <2>6. \A h \in posts : h.live => h.from # p
    BY <1>n, <2>1 DEF LiveOK
  <2>7. posts' = posts \cup {x}
    BY <2>4, <2>x
  <2>8. LiveOK(x)'
    BY <1>t, <2>1, <2>2, <2>5 DEF LiveOK
  <2>9. \A h \in posts : LiveOK(h)'
    BY <1>t, <1>n, <2>1, <2>3, <2>6 DEF LiveOK
  <2>10. \A g, h \in posts' : g.live /\ h.live /\ g.from = h.from => g = h
    <3>1. \A g, h \in posts : g.live /\ h.live /\ g.from = h.from => g = h
      BY <1>i DEF LiveInv
    <3>2. QED
      BY <2>5, <2>6, <2>7, <3>1
  <2>11. QED
    BY <2>7, <2>8, <2>9, <2>10 DEF LiveInv
<1>2. ASSUME NEW p \in Party, FinishKey(p) \/ FetchForKey(p) \/ StoreKey(p) PROVE LiveInv'
  <2>1. /\ posts' = posts /\ pc[p] # "posting"
        /\ \A q \in Party : q # p => /\ pc'[q] = pc[q]
                                     /\ round'[q] = round[q] /\ view'[q] = view[q]
    <3>1. CASE FinishKey(p)
      <4>1. view \in [Party -> [Round -> SUBSET Sent]]
        BY <1>i DEF TypeOK
      <4>2. QED
        BY <1>t, <3>1, <4>1 DEF FinishKey, Ready
    <3>2. CASE FetchForKey(p) \/ StoreKey(p)
      BY <1>t, <3>2 DEF FetchForKey, StoreKey
    <3>3. QED
      BY <1>2, <3>1, <3>2
  <2>2. \A h \in posts : LiveOK(h)'
    BY <1>n, <2>1 DEF LiveOK
  <2>3. QED
    BY <1>i, <2>1, <2>2 DEF LiveInv
<1>3. ASSUME NEW h \in posts, RequestStep(h) PROVE LiveInv'
  <2>1. CASE posts' = posts \ {h} /\ (Succeed(h) \/ Fail(h))
    <3>1. ASSUME NEW g \in posts, g # h, g.live PROVE LiveOK(g)'
      <4>1. CASE ~h.live
        <5>1. UNCHANGED clients
          BY <2>1, <4>1 DEF Succeed, Fail
        <5>2. QED
          BY <1>n, <5>1 DEF clients, LiveOK
      <4>2. CASE h.live
        <5>1. g.from # h.from
          BY <1>i, <3>1, <4>2 DEF LiveInv
        <5>2. pc'[g.from] = pc[g.from] /\ round'[g.from] = round[g.from]
          BY <1>i, <1>n, <1>t, <2>1, <4>2, <5>1, SucceedViews, FailViews
        <5>3. \A r \in Round : view'[g.from][r] = view[g.from][r]
          BY <1>i, <1>n, <2>1, <4>2, <5>1, SucceedViews, FailViews
        <5>4. QED
          BY <1>n, <5>2, <5>3 DEF LiveOK
      <4>3. QED
        BY <4>1, <4>2
    <3>2. \A g \in posts' : LiveOK(g)'
      BY <2>1, <3>1 DEF LiveOK
    <3>3. QED
      BY <1>i, <2>1, <3>2 DEF LiveInv
  <2>2. CASE LoseReply(h)
    <3> DEFINE x == [h EXCEPT !.live = FALSE]
    <3>1. posts' = (posts \ {h}) \cup {x} /\ ~x.live /\ h.live /\ Fail(h)
      BY <1>t, <2>2 DEF LoseReply, PostRequest
    <3> HIDE DEF x
    <3>2. ASSUME NEW g \in posts, g # h, g.live PROVE LiveOK(g)'
      <4>1. g.from # h.from
        BY <1>i, <3>1, <3>2 DEF LiveInv
      <4>2. pc'[g.from] = pc[g.from] /\ round'[g.from] = round[g.from]
        BY <1>i, <1>n, <1>t, <3>1, <4>1, FailViews
      <4>3. \A r \in Round : view'[g.from][r] = view[g.from][r]
        BY <1>i, <1>n, <3>1, <4>1, FailViews
      <4>4. QED
        BY <1>n, <4>2, <4>3 DEF LiveOK
    <3>3. \A g \in posts' : LiveOK(g)'
      BY <3>1, <3>2 DEF LiveOK
    <3>4. \A g, f \in posts' : g.live /\ f.live /\ g.from = f.from => g = f
      BY <1>i, <3>1 DEF LiveInv
    <3>5. QED
      BY <3>3, <3>4 DEF LiveInv
  <2>3. ASSUME NEW x, UNCHANGED clients, posts' = (posts \ {h}) \cup {x},
               x.live = h.live, x.from = h.from, x.round = h.round
        PROVE  LiveInv'
    <3>1. \A g \in posts' : LiveOK(g)'
      BY <1>n, <2>3 DEF clients, LiveOK
    <3>2. \A g, f \in posts' : g.live /\ f.live /\ g.from = f.from => g = f
      BY <1>i, <2>3 DEF LiveInv
    <3>3. QED
      BY <3>1, <3>2 DEF LiveInv
  <2>4. CASE StoreParticipant(h)
    <3> DEFINE x == [h EXCEPT !.at = "push"]
    <3>1. x.live = h.live /\ x.from = h.from /\ x.round = h.round
      BY <1>t DEF PostRequest
    <3>2. UNCHANGED clients /\ posts' = (posts \ {h}) \cup {x}
      BY <2>4 DEF StoreParticipant
    <3> HIDE DEF x
    <3>3. QED
      BY <2>3, <3>1, <3>2
  <2>5. ASSUME NEW at \in {"push", "join", "insert", "refetch"}, NEW seen \in Doc,
               ProceedStep(h, at, seen)
        PROVE  LiveInv'
    <3> DEFINE x == [h EXCEPT !.at = at, !.seen = seen]
    <3>1. x.live = h.live /\ x.from = h.from /\ x.round = h.round
      BY <1>t DEF PostRequest
    <3>2. UNCHANGED clients /\ posts' = (posts \ {h}) \cup {x}
      BY <2>5 DEF ProceedStep, Proceed
    <3> HIDE DEF x
    <3>3. QED
      BY <2>3, <3>1, <3>2
  <2>6. QED
    BY <1>3, <2>1, <2>2, <2>4, <2>5 DEF RequestStep, PushStep, InitStep, FailStep
<1>4. QED
  BY <1>i, <1>1, <1>2, <1>3, Steps DEF Next, Client

-----------------------------------------------------------------------------
(* The key. *)

\* Two parties that have their key computed it from the same messages.
LEMMA SameView ==
    ASSUME TypeOK, DocInv, ViewInv, ClientInv,
           NEW p \in Party, NEW q \in Party, HasKey(p), HasKey(q)
    PROVE  view[p] = view[q]
<1>1. ASSUME NEW a \in Party, NEW b \in Party, HasKey(a), HasKey(b), NEW r \in Round
      PROVE  view[a][r] \subseteq view[b][r]
  <2>1. r < LastRound + 2 - 1 /\ ClientOK(b)
    BY Sizes DEF ClientInv
  <2>2. Froms(view[b][r]) = Party
    <3>1. round[b] = LastRound + 2
      BY <1>1, <2>1 DEF ClientOK
    <3>2. r < round[b] - 1
      BY <2>1, <3>1, Sizes
    <3>3. QED
      BY <2>1, <3>2 DEF ClientOK
  <2>3. /\ view[a][r] \subseteq Sent /\ view[b][r] \subseteq Sent
        /\ view[a][r] \subseteq Contents(session.rounds[r])
        /\ view[b][r] \subseteq Contents(session.rounds[r])
    BY DEF TypeOK, ViewInv
  <2>4. ASSUME NEW m \in view[a][r] PROVE m \in view[b][r]
    <3>1. PICK n \in view[b][r] : n.from = m.from
      BY <2>2, <2>3 DEF Froms, Sent
    <3>2. PICK x \in session.rounds[r] : m = [from |-> x.from, att |-> x.att]
      BY <2>3 DEF Contents
    <3>3. PICK y \in session.rounds[r] : n = [from |-> y.from, att |-> y.att]
      BY <2>3 DEF Contents
    <3>4. x = y
      BY <3>1, <3>2, <3>3 DEF DocInv, RoundsOK
    <3>5. QED
      BY <3>2, <3>3, <3>4
  <2>5. QED
    BY <2>4
<1>2. \A r \in Round : view[p][r] = view[q][r]
  BY <1>1
<1>3. view[p] \in [Round -> SUBSET Sent] /\ view[q] \in [Round -> SUBSET Sent]
  BY DEF TypeOK
<1>4. QED
  BY <1>2, <1>3

LEMMA KeyNext == ASSUME IInv, Next PROVE KeyInv'
<1>i. TypeOK /\ DocInv /\ SnapInv /\ ClientInv /\ LiveInv /\ KeyInv
  BY DEF IInv
<1>t. /\ pc \in [Party -> {"out", "posting", "polling", "storing", "writing", "done"}]
      /\ view \in [Party -> [Round -> SUBSET Sent]]
  BY <1>i DEF TypeOK
<1>k. ASSUME UNCHANGED sharedKey, \A p \in Party : HasKey(p) => HasKey(p)' /\ view'[p] = view[p]
      PROVE  KeyInv'
  BY <1>i, <1>k DEF KeyInv
<1>1. ASSUME NEW p \in Party, Client(p) PROVE KeyInv'
  <2>1. CASE Join(p)
    BY <1>k, <1>t, <2>1 DEF Join, Post, server, HasKey
  <2>2. CASE NextRound(p)
    BY <1>k, <1>t, <2>2 DEF NextRound, Ready, Post, server, HasKey
  <2>3. CASE FinishKey(p)
    BY <1>k, <1>t, <2>3 DEF FinishKey, Ready, server, HasKey
  <2>4. CASE FetchForKey(p)
    BY <1>k, <1>t, <2>4 DEF FetchForKey, server, HasKey
  <2>5. CASE StoreKey(p)
    BY <1>t, <2>5 DEF StoreKey, KeyOf, HasKey, KeyInv
  <2>6. QED
    BY <1>1, <2>1, <2>2, <2>3, <2>4, <2>5 DEF Client
<1>2. ASSUME NEW h \in posts, RequestStep(h) PROVE KeyInv'
  <2>1. h.from \in Party /\ LiveOK(h)
    BY <1>i DEF TypeOK, PostRequest, LiveInv
  <2>2. UNCHANGED sharedKey
    BY <1>2 DEF RequestStep, PushStep, InitStep, FailStep, LoseReply, StoreParticipant, ProceedStep,
                Proceed, server
  <2>3. CASE UNCHANGED clients
    BY <1>k, <2>2, <2>3 DEF clients, HasKey
  <2>4. CASE h.live /\ (Succeed(h) \/ Fail(h))
    <3>1. ~HasKey(h.from)
      BY <2>1, <2>4 DEF LiveOK, HasKey
    <3>2. ASSUME NEW p \in Party, HasKey(p) PROVE HasKey(p)' /\ view'[p] = view[p]
      <4>1. p # h.from
        BY <3>1, <3>2
      <4>2. pc'[p] = pc[p]
        BY <1>t, <2>1, <2>4, <4>1 DEF Succeed, Fail
      <4>3. view'[p] = view[p]
        BY <1>t, <2>1, <2>4, <4>1 DEF Succeed, Fail, Restored
      <4>4. QED
        BY <3>2, <4>2, <4>3 DEF HasKey
    <3>3. QED
      BY <1>k, <2>2, <3>2
  <2>5. QED
    BY <1>2, <2>3, <2>4 DEF RequestStep, PushStep, InitStep, FailStep, LoseReply, StoreParticipant,
                ProceedStep, Proceed, Succeed, Fail
<1>3. QED
  BY <1>i, <1>1, <1>2, Steps DEF Next

-----------------------------------------------------------------------------
(* The results. *)

LEMMA InvNext == ASSUME IInv, [Next]_vars PROVE IInv'
<1>1. CASE Next
  BY <1>1, TypeNext, DocNext, SnapNext, ViewNext, ClientNext, LiveNext, KeyNext DEF IInv
<1>2. CASE UNCHANGED vars
  BY <1>2 DEF vars, IInv, TypeOK, DocInv, SnapInv, SnapOK, ViewInv, ClientInv, ClientOK, HasKey,
              LiveInv, LiveOK, KeyInv
<1>3. QED
  BY <1>1, <1>2

LEMMA Invariance == Spec => []IInv
<1>1. QED
  BY InitOK, InvNext, PTL DEF Spec

\* The session document, the requests and the clients keep their types.
THEOREM KeyGenTypes == Spec => []TypeOK
<1>1. IInv => TypeOK
  BY DEF IInv
<1>2. QED
  BY <1>1, Invariance, PTL

\* Whatever is lost and however often a round is computed again, two parties
\* never go on with different messages of one sender (tss.ts _pushMessage).
THEOREM KeyGenAgrees == Spec => []SameMessages
<1>1. IInv => SameMessages
  <2> SUFFICES ASSUME IInv, NEW p \in Party, NEW q \in Party, NEW r \in Round,
                      NEW m \in view[p][r], NEW n \in view[q][r], m.from = n.from
               PROVE  m.att = n.att
    BY DEF SameMessages
  <2>1. PICK x \in session.rounds[r] : m = [from |-> x.from, att |-> x.att]
    BY DEF IInv, ViewInv, Contents
  <2>2. PICK y \in session.rounds[r] : n = [from |-> y.from, att |-> y.att]
    BY DEF IInv, ViewInv, Contents
  <2>3. x = y
    BY <2>1, <2>2 DEF IInv, DocInv, RoundsOK
  <2>4. QED
    BY <2>1, <2>2, <2>3
<1>2. QED
  BY <1>1, Invariance, PTL

\* A party that ends has the key of everybody's messages, and the public key
\* that is stored is that of every party (tss.ts storeKey).
THEOREM KeyGenOneKey == Spec => []SameKey
<1>1. IInv => SameKey
  <2> SUFFICES ASSUME IInv, NEW p \in Party, HasKey(p)
               PROVE  /\ \A r \in Round : Froms(view[p][r]) = Party
                      /\ sharedKey # NoKey => sharedKey = view[p]
    BY DEF SameKey, HasKey, Froms, KeyOf
  <2>1. \A r \in Round : Froms(view[p][r]) = Party
    <3>1. ClientOK(p) /\ round[p] = LastRound + 2
      BY DEF IInv, ClientInv, ClientOK
    <3>2. \A r \in Round : r < round[p] - 1
      BY <3>1, Sizes
    <3>3. QED
      BY <3>1, <3>2 DEF ClientOK
  <2>2. sharedKey # NoKey => sharedKey = view[p]
    BY SameView DEF IInv, KeyInv
  <2>3. QED
    BY <2>1, <2>2
<1>2. QED
  BY <1>1, Invariance, PTL

\* The parties go in lockstep over a document that has no lock: a party sends
\* once a round, and only when everybody has sent the round before.
THEOREM KeyGenLockstep == Spec => ImplementsLockstep
<1> DEFINE sent == [p \in Party |-> SentBy(session.rounds, p)]
<1>1. Init => Rounds!LockstepInit
  BY DEF Init, NoSession, NoRounds, SentBy, Rounds!LockstepInit
<1>2. ASSUME IInv, Next PROVE Rounds!LockstepNext \/ UNCHANGED sent
  <2>i. TypeOK /\ DocInv /\ SnapInv
    BY <1>2 DEF IInv
  <2>1. CASE session'.rounds = session.rounds
    BY <2>1
  <2>2. ASSUME NEW h \in posts, PushStep(h) \/ InitStep(h)
        PROVE  Rounds!LockstepNext
    <3>h. /\ h.from \in Party /\ h.round \in Round /\ h.att \in Attempt
          /\ RoundsOK(session.rounds, Size)
      BY <2>i DEF TypeOK, PostRequest, DocInv
    <3>1. /\ \A s \in 0 .. h.round - 1 : s \in Round /\ Cardinality(session.rounds[s]) = Size
          /\ Cardinality(session.rounds[h.round]) # Size
          /\ \A m \in session.rounds[h.round] : m.from # h.from
          /\ session'.rounds = Pushed(session.rounds, h.from, h.att, h.round)
      <4>1. CASE PushStep(h)
        <5>1. Pushable(session.rounds, Size, h.from, h.round)
          BY <4>1 DEF PushStep
        <5>2. session'.rounds = Pushed(session.rounds, h.from, h.att, h.round)
          BY <2>i, <4>1 DEF PushStep, TypeOK, Doc
        <5>3. \A m \in session.rounds[h.round] : m.from # h.from
          BY <5>1 DEF Pushable
        <5>4. QED
          BY <3>h, <5>1, <5>2, <5>3, PushableRound, Sizes
      <4>2. CASE InitStep(h)
        <5>1. session.rounds = NoRounds
          <6>1. session.rounds \in [Round -> SUBSET Message]
            BY <2>i DEF TypeOK, Doc
          <6>2. QED
            BY <2>i, <4>2, <6>1, Unstored DEF InitStep, NoRounds
        <5>2. session.rounds[0] = {} /\ 0 \in Round
          BY <5>1, Sizes DEF NoRounds
        <5>3. Cardinality(session.rounds[0]) # Size
          BY <5>2, FS_EmptySet, Sizes
        <5>4. h.round = 0 /\ h.from = 0 /\ session'.rounds = Pushed(NoRounds, 0, h.att, 0)
          BY <4>2 DEF InitStep
        <5>5. \A s \in 0 .. 0 - 1 : FALSE
          OBVIOUS
        <5>6. QED
          BY <5>1, <5>2, <5>3, <5>4, <5>5
      <4>3. QED
        BY <2>2, <4>1, <4>2
    <3>3. h.round \notin sent[h.from]
      BY <3>h, <3>1 DEF SentBy
    <3>4. \A s \in 0 .. h.round - 1 : s \in sent[h.from]
      BY <3>h, <3>1, Everybody, Sizes
    <3>5. sent' = [sent EXCEPT ![h.from] = @ \cup {h.round}]
      <4>1. /\ SentBy(session'.rounds, h.from) = SentBy(session.rounds, h.from) \cup {h.round}
            /\ \A q \in Party \ {h.from} : SentBy(session'.rounds, q) = SentBy(session.rounds, q)
        BY <3>h, <3>1, PushSends
      <4>2. QED
        BY <3>h, <4>1
    <3>6. h.round \in Rounds!Round
      BY <3>h DEF Round, Rounds!Round
    <3>7. Rounds!Send(h.from, h.round)
      <4>1. \A s \in Round : Rounds!Complete(s) <=> Cardinality(session.rounds[s]) = Size
        <5>1. TAKE s \in Round
        <5>2. Rounds!Senders(s) = {q \in Party : s \in SentBy(session.rounds, q)}
          BY DEF Rounds!Senders
        <5>3. \A S : Rounds!Cardinality(S) = Cardinality(S)
          BY DEF Rounds!Cardinality, Cardinality
        <5>4. QED
          BY <3>h, <5>2, <5>3, SentCount DEF Rounds!Complete
      <4>2. ~Rounds!Complete(h.round) /\ \A s \in 0 .. h.round - 1 : Rounds!Complete(s)
        BY <3>h, <3>1, <4>1
      <4>3. QED
        BY <3>3, <3>4, <3>5, <4>2 DEF Rounds!Send
    <3>8. QED
      BY <3>h, <3>6, <3>7 DEF Rounds!LockstepNext
  <2>3. QED
    BY <1>2, <2>i, <2>1, <2>2, RoundsStep
<1>3. ASSUME IInv, [Next]_vars PROVE [Rounds!LockstepNext]_sent
  <2>1. UNCHANGED vars => UNCHANGED sent
    BY DEF vars
  <2>2. QED
    BY <1>2, <1>3, <2>1
<1>4. QED
  BY <1>1, <1>3, Invariance, PTL DEF Spec, ImplementsLockstep, Rounds!Lockstep
==============================================================================
