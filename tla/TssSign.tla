------------------------------- MODULE TssSign --------------------------------
(***************************************************************************)
(* A signing session: M of the parties of a key compute a signature over   *)
(* the session document of bitcore-wallet-service (TssSign of lib/tss.ts)  *)
(* with the clients of bitcore-wallet-client lib/tsssign.ts.  It is built  *)
(* as the key generation is (TssKeyGen), with other answers to who takes   *)
(* part: whoever is first opens the session, the document lists those who  *)
(* joined, and the round messages of M of them close it.                   *)
(*                                                                         *)
(* One action is one command to the database and the code up to the next.  *)
(***************************************************************************)
EXTENDS TssRounds, Sequences

CONSTANTS
    M,            \* how many parties must sign
    Encrypted,    \* the parties whose key share is encrypted with a password
    NoSignature,  \* no signature yet
    MaxFaults     \* bound: requests and replies lost, servers stopped

ASSUME SignAssumption ==
    /\ M \in 1 .. Cardinality(Party)
    /\ Encrypted \subseteq Party
    /\ MaxFaults \in Nat

VARIABLES
    session,    \* the document: rounds, participants and __v
    signature,  \* its signature
    posts,      \* the POST requests the server works on
    pc,         \* what each client is doing
    round,      \* getRound of its sign: the next round it computes
    view,       \* the messages each client computed each round from
    faults

server == <<session, signature>>
clients == <<pc, round, view>>
vars == <<session, signature, posts, pc, round, view, faults>>

NoSession == [rounds |-> NoRounds, participants |-> <<>>, version |-> 0]

Init ==
    /\ session = NoSession
    /\ signature = NoSignature
    /\ posts = {}
    /\ pc = [p \in Party |-> "out"]
    /\ round = [p \in Party |-> 0]
    /\ view = [p \in Party |-> NoRounds]
    /\ faults = 0

Listed(s, p) == \E i \in 1 .. Len(s.participants) : s.participants[i] = p

-----------------------------------------------------------------------------
(* The client.                                                              *)

Used(p, r) ==
    {m.att : m \in {x \in session.rounds[r] : x.from = p}}
        \cup {h.att : h \in {x \in posts : x.from = p /\ x.round = r}}

Post(p, r) ==
    /\ \E a \in Attempt \ Used(p, r) :
          /\ \A b \in Attempt \ Used(p, r) : a <= b
          /\ posts' = posts \cup {[from |-> p, round |-> r, att |-> a, at |-> "fetch",
                                   live |-> TRUE, seen |-> NoSession]}
    /\ pc' = [pc EXCEPT ![p] = "posting"]

Start(p) ==
    /\ pc[p] = "out"
    /\ Post(p, 0)
    /\ UNCHANGED <<server, round, view, faults>>

\* authTssRequest finds the key in the party's message of the first round.
Authorized(p) == Listed(session, p) /\ \E m \in session.rounds[0] : m.from = p

\* What subscribe polls for: the messages of the round before.
Ready(p) ==
    /\ pc[p] = "polling"
    /\ Authorized(p)
    /\ MessagesFor(session.rounds, M, p, round[p] - 1)

TakenIn(p) ==
    [view EXCEPT ![p][round[p] - 1] = @ \cup Contents(OthersOf(session.rounds, p, round[p] - 1))]

NextRound(p) ==
    /\ Ready(p)
    /\ round[p] <= LastRound
    /\ signature = NoSignature
    /\ view' = TakenIn(p)
    /\ Post(p, round[p])
    /\ UNCHANGED <<server, round, faults>>

\* After the last round the signature is there, and stored.
FinishSignature(p) ==
    /\ Ready(p)
    /\ round[p] = LastRound + 1
    /\ signature = NoSignature
    /\ view' = TakenIn(p)
    /\ round' = [round EXCEPT ![p] = @ + 1]
    /\ pc' = [pc EXCEPT ![p] = "storing"]
    /\ UNCHANGED <<server, posts, faults>>

\* The reply had the signature: the session is done, whatever the round.
TakeSignature(p) ==
    /\ Ready(p)
    /\ signature # NoSignature
    /\ view' = TakenIn(p)
    /\ round' = [round EXCEPT ![p] = @ + 1]
    /\ pc' = [pc EXCEPT ![p] = "done"]
    /\ UNCHANGED <<server, posts, faults>>

\* The signature is computed from all the messages of all the rounds.
SignatureOf(p) == view[p]

\* storeSignature overwrites what is there.
StoreSignature(p) ==
    /\ pc[p] = "storing"
    /\ Authorized(p)
    /\ signature' = SignatureOf(p)
    /\ pc' = [pc EXCEPT ![p] = "done"]
    /\ UNCHANGED <<session, posts, round, view, faults>>

-----------------------------------------------------------------------------
(* The POST handler: processMessage, one command at a time.                 *)

Succeed(h) ==
    IF h.live
    THEN /\ pc' = [pc EXCEPT ![h.from] = "polling"]
         /\ round' = [round EXCEPT ![h.from] = h.round + 1]
         /\ view' = [view EXCEPT ![h.from][h.round] = {[from |-> h.from, att |-> h.att]}]
    ELSE UNCHANGED clients

\* start() throws.
NotStarted(p) ==
    /\ pc' = [pc EXCEPT ![p] = "out"]
    /\ UNCHANGED <<round, view>>

\* restoreSession: as before nextRound, which took in the others' messages.
Restored(p) ==
    /\ pc' = [pc EXCEPT ![p] = "polling"]
    /\ view' = [view EXCEPT ![p][round[p] - 1] = {m \in @ : m.from = p}]
    /\ UNCHANGED round

\* The client sees an error.  restoreSession throws when the key share in the
\* key itself is encrypted (start decrypts a copy): then the round stays
\* computed, as if its message had been stored.
Fail(h) ==
    IF ~h.live THEN UNCHANGED clients
    ELSE IF h.round = 0 THEN NotStarted(h.from)
    ELSE IF h.from \in Encrypted THEN Succeed(h)
    ELSE Restored(h.from)

Proceed(h, at, seen) ==
    /\ posts' = (posts \ {h}) \cup {[h EXCEPT !.at = at, !.seen = seen]}
    /\ UNCHANGED <<server, clients>>

Refuse(h) ==
    /\ posts' = posts \ {h}
    /\ Fail(h)
    /\ UNCHANGED server

\* TSS_MAX_PARTICIPANTS_REACHED
Full(s) == Len(s.participants) = M

\* fetchTssSigSession and what processMessage decides on it.
Fetch(h) ==
    /\ h.at = "fetch"
    /\ \/ /\ Stored(session.rounds)
          /\ Listed(session, h.from)
          /\ Proceed(h, "push", session)
       \/ /\ Stored(session.rounds)
          /\ ~Listed(session, h.from)
          /\ IF Full(session) THEN Refuse(h) ELSE Proceed(h, "join", session)
       \/ /\ ~Stored(session.rounds)
          /\ h.round = 0
          /\ Proceed(h, "insert", session)
    /\ UNCHANGED faults

\* Mutant: the session is stored whether its id is taken or not.
SessionIdTaken_Never == FALSE

\* The index on id is unique (storage.ts).
SessionIdTaken == Stored(session.rounds)

\* _initSession
InitSession(h) ==
    /\ h.at = "insert"
    /\ posts' = posts \ {h}
    /\ IF SessionIdTaken
       THEN Fail(h) /\ UNCHANGED session
       ELSE /\ session' = [rounds |-> Pushed(NoRounds, h.from, h.att, 0),
                           participants |-> <<h.from>>, version |-> 0]
            /\ Succeed(h)
    /\ UNCHANGED <<signature, faults>>

\* Mutant: the update does not ask for the version.
UpToDate_Always(h) == TRUE

UpToDate(h) == session.version = h.seen.version

\* storeTssSigParticipant asks for the version but does not count it up, so
\* that two can join on the same one; an outdated request starts over.
StoreParticipant(h) ==
    /\ h.at = "join"
    /\ IF UpToDate(h)
       THEN /\ session' = [session EXCEPT !.participants = Append(@, h.from)]
            /\ posts' = (posts \ {h}) \cup {[h EXCEPT !.at = "push"]}
            /\ UNCHANGED <<signature, clients>>
       ELSE Proceed(h, "fetch", NoSession)
    /\ UNCHANGED faults

\* _pushMessage
PushMessage(h) ==
    /\ h.at = "push"
    /\ IF ~Pushable(h.seen.rounds, M, h.from, h.round)
       THEN Refuse(h)
       ELSE IF UpToDate(h)
       THEN /\ session' = [session EXCEPT !.rounds = Pushed(@, h.from, h.att, h.round),
                                          !.version = @ + 1]
            /\ posts' = posts \ {h}
            /\ Succeed(h)
            /\ UNCHANGED signature
       ELSE Proceed(h, "refetch", h.seen)
    /\ UNCHANGED faults

\* MONGO_DOC_OUTDATED: the loop fetches the session again.
FetchAgain(h) ==
    /\ h.at = "refetch"
    /\ Proceed(h, "push", session)
    /\ UNCHANGED faults

Handle(h) ==
    Fetch(h) \/ InitSession(h) \/ StoreParticipant(h) \/ PushMessage(h) \/ FetchAgain(h)

-----------------------------------------------------------------------------
(* Faults.                                                                  *)

\* The reply is lost: the client sees an error, the handler goes on.
LoseReply(h) ==
    /\ faults < MaxFaults
    /\ h.live
    /\ Fail(h)
    /\ posts' = (posts \ {h}) \cup {[h EXCEPT !.live = FALSE]}
    /\ faults' = faults + 1
    /\ UNCHANGED server

\* The request does not get through, or its server stops while it handles it.
LoseRequest(h) ==
    /\ faults < MaxFaults
    /\ Refuse(h)
    /\ faults' = faults + 1

-----------------------------------------------------------------------------
Client(p) ==
    Start(p) \/ NextRound(p) \/ FinishSignature(p) \/ TakeSignature(p) \/ StoreSignature(p)

Next ==
    \/ \E p \in Party : Client(p)
    \/ \E h \in posts : Handle(h) \/ LoseReply(h) \/ LoseRequest(h)

Spec == Init /\ [][Next]_vars

HandlerOf(p) == \E h \in posts : h.from = p /\ Handle(h)

\* Whoever is to sign starts and keeps polling (setInterval), and a handler
\* goes on.
Fairness == \A p \in Party : WF_vars(Client(p)) /\ WF_vars(HandlerOf(p))

FairSpec == Spec /\ Fairness

-----------------------------------------------------------------------------
(* Properties. *)

Sent == [from : Party, att : Attempt]
Doc == [rounds : [Round -> SUBSET Message], participants : Seq(Party), version : Nat]
PostRequest == [from : Party, round : Round, att : Attempt, live : BOOLEAN, seen : Doc,
                at : {"fetch", "insert", "join", "push", "refetch"}]

\* Type invariant.
TypeOK ==
    /\ session \in Doc
    /\ signature \in [Round -> SUBSET Sent] \cup {NoSignature}
    /\ posts \in SUBSET PostRequest
    /\ pc \in [Party -> {"out", "posting", "polling", "storing", "done"}]
    /\ round \in [Party -> 0 .. LastRound + 2]
    /\ view \in [Party -> [Round -> SUBSET Sent]]
    /\ faults \in Nat

Signers(r) == {m.from : m \in session.rounds[r]}

\* The signature is one of M parties who went through every round together:
\* it is made of a message of each of those of the first round in every
\* round, all that were stored are among them, and what is stored is what
\* everybody who computed it has.
OneSignature ==
    signature # NoSignature =>
        /\ Cardinality(Signers(0)) = M
        /\ \A r \in Round :
              /\ {m.from : m \in signature[r]} = Signers(0)
              /\ Cardinality(signature[r]) = M
              /\ Contents(session.rounds[r]) \subseteq signature[r]
        /\ \A p \in Party : pc[p] = "storing" => SignatureOf(p) = signature

\* Two signers never compute a round from different messages of a third.
SameMessages ==
    \A p, q \in Party : \A r \in Round :
        \A m \in view[p][r], n \in view[q][r] : m.from = n.from => m.att = n.att

\* The signers go in lockstep (see TssLockstep), M of them.
Rounds == INSTANCE TssLockstep
          WITH Size <- M, sent <- [p \in Party |-> SentBy(session.rounds, p)]
ImplementsLockstep == Rounds!Lockstep

\* A party whose message was stored but who never learned it: it tries the
\* round again and is told that the message exists, or the round is done.
Unanswered(p, r) ==
    pc[p] # "posting" /\ r \in SentBy(session.rounds, p) /\ r >= round[p]

\* It gets no further, except after the last round, when another signer
\* stores the signature for it.
Stranded ==
    \/ \E p \in Party : \E r \in 0 .. LastRound - 1 : Unanswered(p, r)
    \/ Signers(LastRound) # {} /\ \A p \in Signers(LastRound) : Unanswered(p, LastRound)

\* A party with an encrypted key share went on from a round although its
\* message is not stored and no request will store it: the others cannot
\* finish that round.
OutOfStep ==
    \E p \in Encrypted : \E r \in Round :
        /\ r < round[p] /\ pc[p] # "done"
        /\ r \notin SentBy(session.rounds, p)
        /\ \A h \in posts : h.from = p => h.round # r

\* A party is listed twice: two of its requests joined on one version.
ListedTwice ==
    \E i, j \in 1 .. Len(session.participants) :
        i # j /\ session.participants[i] = session.participants[j]

\* A signature is made and M parties end with it, whatever requests are
\* lost, unless one is stranded, out of step or listed twice.
SigningEnds ==
    []~Stranded /\ []~OutOfStep /\ []~ListedTwice
        => <>(\E S \in SUBSET Party : Cardinality(S) = M /\ \A p \in S : pc[p] = "done")
==============================================================================
