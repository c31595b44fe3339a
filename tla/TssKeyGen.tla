------------------------------ MODULE TssKeyGen -------------------------------
(***************************************************************************)
(* A key-generation session: the parties' clients (bitcore-wallet-client   *)
(* lib/tsskey.ts over bitcore-tss) compute a message a round, post it to   *)
(* the session document of bitcore-wallet-service (lib/tss.ts) and poll    *)
(* for those of the others.  The document has no lock: a request fetches   *)
(* it, decides, and updates it if its version is still the one fetched.    *)
(*                                                                         *)
(* One action is one command to the database and the code up to the next.  *)
(* A client has one request open at a time.  It may lose the reply while   *)
(* the request goes on in the server, and the request may be lost or its   *)
(* server may stop.  Passwords and signatures of requests are right.       *)
(***************************************************************************)
EXTENDS TssRounds

CONSTANTS
    NoKey,     \* no shared public key yet
    MaxFaults  \* bound: requests and replies lost, servers stopped

Size == Cardinality(Party)

ASSUME KeyGenAssumption ==
    /\ Party = 0 .. Size - 1
    /\ MaxFaults \in Nat

VARIABLES
    session,    \* the document: rounds, participants and __v
    sharedKey,  \* its sharedPublicKey
    posts,      \* the POST requests the server works on
    pc,         \* what each client is doing
    round,      \* getRound of its keygen: the next round it computes
    view,       \* the messages each client computed each round's key material from
    faults

server == <<session, sharedKey>>
clients == <<pc, round, view>>
vars == <<session, sharedKey, posts, pc, round, view, faults>>

NoSession == [rounds |-> NoRounds, participants |-> {}, version |-> 0]

Init ==
    /\ session = NoSession
    /\ sharedKey = NoKey
    /\ posts = {}
    /\ pc = [p \in Party |-> "out"]
    /\ round = [p \in Party |-> 0]
    /\ view = [p \in Party |-> NoRounds]
    /\ faults = 0

-----------------------------------------------------------------------------
(* The client.                                                              *)

\* A computed message is new: it was neither stored nor sent before, as far
\* as anything still remembers it.
Used(p, r) ==
    {m.att : m \in {x \in session.rounds[r] : x.from = p}}
        \cup {h.att : h \in {x \in posts : x.from = p /\ x.round = r}}

Post(p, r) ==
    /\ \E a \in Attempt \ Used(p, r) :
          /\ \A b \in Attempt \ Used(p, r) : a <= b
          /\ posts' = posts \cup {[from |-> p, round |-> r, att |-> a, at |-> "fetch",
                                   live |-> TRUE, seen |-> NoSession]}
    /\ pc' = [pc EXCEPT ![p] = "posting"]

\* newKey, and joinKey with the code of party 0.
Join(p) ==
    /\ pc[p] = "out"
    /\ p # 0 => pc[0] # "out"
    /\ Post(p, 0)
    /\ UNCHANGED <<server, round, view, faults>>

\* authTssRequest: the request is verified with the public key in place
\* partyId of the first round.
Authorized(p) ==
    p \in session.participants /\ \E m \in session.rounds[0] : m.at = p /\ m.from = p

Ready(p) ==
    /\ pc[p] = "polling"
    /\ Authorized(p)
    /\ MessagesFor(session.rounds, Size, p, round[p] - 1)

\* subscribe, one turn of its interval: the messages of the round before are
\* there, nextRound takes them with its own, and the result is posted.
NextRound(p) ==
    /\ Ready(p)
    /\ round[p] <= LastRound
    /\ view' = [view EXCEPT ![p][round[p] - 1] =
                   @ \cup Contents(OthersOf(session.rounds, p, round[p] - 1))]
    /\ Post(p, round[p])
    /\ UNCHANGED <<server, round, faults>>

\* The turn after the last round: the key chain is ready, and stored unless
\* the reply had it.
FinishKey(p) ==
    /\ Ready(p)
    /\ round[p] = LastRound + 1
    /\ view' = [view EXCEPT ![p][LastRound] =
                   @ \cup Contents(OthersOf(session.rounds, p, LastRound))]
    /\ round' = [round EXCEPT ![p] = @ + 1]
    /\ pc' = [pc EXCEPT ![p] = IF sharedKey = NoKey THEN "storing" ELSE "done"]
    /\ UNCHANGED <<server, posts, faults>>

\* Every party computes the key from all the messages of all the rounds.
KeyOf(p) == view[p]

\* storeKey: fetch, and update when no key is there.
FetchForKey(p) ==
    /\ pc[p] = "storing"
    /\ Authorized(p)
    /\ pc' = [pc EXCEPT ![p] = IF sharedKey = NoKey THEN "writing" ELSE "done"]
    /\ UNCHANGED <<server, posts, round, view, faults>>

StoreKey(p) ==
    /\ pc[p] = "writing"
    /\ sharedKey' = KeyOf(p)
    /\ pc' = [pc EXCEPT ![p] = "done"]
    /\ UNCHANGED <<session, posts, round, view, faults>>

-----------------------------------------------------------------------------
(* The POST handler: processMessage, one command at a time.                 *)

\* A reply that arrives: the session goes on with the message it sent.
Succeed(h) ==
    IF h.live
    THEN /\ pc' = [pc EXCEPT ![h.from] = "polling"]
         /\ round' = [round EXCEPT ![h.from] = h.round + 1]
         /\ view' = [view EXCEPT ![h.from][h.round] = {[from |-> h.from, att |-> h.att]}]
    ELSE UNCHANGED clients

\* restoreSession: as before nextRound, which took in the others' messages.
Restored(p) ==
    IF round[p] = 0 THEN view
    ELSE [view EXCEPT ![p][round[p] - 1] = {m \in @ : m.from = p}]

Fail(h) ==
    IF h.live
    THEN /\ pc' = [pc EXCEPT ![h.from] = IF h.round = 0 THEN "out" ELSE "polling"]
         /\ view' = Restored(h.from)
         /\ UNCHANGED round
    ELSE UNCHANGED clients

Proceed(h, at, seen) ==
    /\ posts' = (posts \ {h}) \cup {[h EXCEPT !.at = at, !.seen = seen]}
    /\ UNCHANGED <<server, clients>>

\* fetchTssKeyGenSession and what processMessage decides on it.
Fetch(h) ==
    /\ h.at = "fetch"
    /\ \/ /\ Stored(session.rounds)
          /\ Proceed(h, IF h.from \in session.participants THEN "push" ELSE "join", session)
       \/ /\ ~Stored(session.rounds)
          /\ h.round = 0 /\ h.from = 0
          /\ Proceed(h, "insert", session)
       \/ /\ ~Stored(session.rounds)
          /\ ~(h.round = 0 /\ h.from = 0)
          /\ posts' = posts \ {h}
          /\ Fail(h)
          /\ UNCHANGED server
    /\ UNCHANGED faults

\* The index on id is unique (storage.ts).
SessionIdTaken == Stored(session.rounds)

\* _initSession
InitSession(h) ==
    /\ h.at = "insert"
    /\ posts' = posts \ {h}
    /\ IF SessionIdTaken
       THEN Fail(h) /\ UNCHANGED session
       ELSE /\ session' = [rounds |-> Pushed(NoRounds, 0, h.att, 0), participants |-> {0},
                           version |-> 0]
            /\ Succeed(h)
    /\ UNCHANGED <<sharedKey, faults>>

\* storeTssKeyGenParticipant: neither asks for the version nor counts it up.
StoreParticipant(h) ==
    /\ h.at = "join"
    /\ session' = [session EXCEPT !.participants = @ \cup {h.from}]
    /\ posts' = (posts \ {h}) \cup {[h EXCEPT !.at = "push"]}
    /\ UNCHANGED <<sharedKey, clients, faults>>

\* Mutant: the update does not ask for the version.
UpToDate_Always(h) == TRUE

UpToDate(h) == session.version = h.seen.version

\* _pushMessage
PushMessage(h) ==
    /\ h.at = "push"
    /\ IF ~Pushable(h.seen.rounds, Size, h.from, h.round)
       THEN posts' = posts \ {h} /\ Fail(h) /\ UNCHANGED server
       ELSE IF UpToDate(h)
       THEN /\ session' = [session EXCEPT !.rounds = Pushed(@, h.from, h.att, h.round),
                                          !.version = @ + 1]
            /\ posts' = posts \ {h}
            /\ Succeed(h)
            /\ UNCHANGED sharedKey
       ELSE Proceed(h, "refetch", h.seen)
    /\ UNCHANGED faults

\* MONGO_DOC_OUTDATED: the loop fetches the session again.
FetchAgain(h) ==
    /\ h.at = "refetch"
    /\ Proceed(h, "push", session)
    /\ UNCHANGED faults

Handle(h) ==
    Fetch(h) \/ InitSession(h) \/ StoreParticipant(h) \/ PushMessage(h) \/ FetchAgain(h)

-----------------------------------------------------------------------------
(* Faults.                                                                  *)

\* The reply is lost: the client sees an error, the handler goes on.
LoseReply(h) ==
    /\ faults < MaxFaults
    /\ h.live
    /\ Fail(h)
    /\ posts' = (posts \ {h}) \cup {[h EXCEPT !.live = FALSE]}
    /\ faults' = faults + 1
    /\ UNCHANGED server

\* The request does not get through, or its server stops while it handles it.
LoseRequest(h) ==
    /\ faults < MaxFaults
    /\ Fail(h)
    /\ posts' = posts \ {h}
    /\ faults' = faults + 1
    /\ UNCHANGED server

-----------------------------------------------------------------------------
Client(p) == Join(p) \/ NextRound(p) \/ FinishKey(p) \/ FetchForKey(p) \/ StoreKey(p)

Next ==
    \/ \E p \in Party : Client(p)
    \/ \E h \in posts : Handle(h) \/ LoseReply(h) \/ LoseRequest(h)

Spec == Init /\ [][Next]_vars

HandlerOf(p) == \E h \in posts : h.from = p /\ Handle(h)

\* Every party joins and keeps polling (setInterval), and a handler goes on.
Fairness == \A p \in Party : WF_vars(Client(p)) /\ WF_vars(HandlerOf(p))

FairSpec == Spec /\ Fairness

-----------------------------------------------------------------------------
(* Properties. *)

Sent == [from : Party, att : Attempt]
Doc == [rounds : [Round -> SUBSET Message], participants : SUBSET Party, version : Nat]
PostRequest == [from : Party, round : Round, att : Attempt, live : BOOLEAN, seen : Doc,
                at : {"fetch", "insert", "join", "push", "refetch"}]

\* Type invariant.
TypeOK ==
    /\ session \in Doc
    /\ sharedKey \in [Round -> SUBSET Sent] \cup {NoKey}
    /\ posts \in SUBSET PostRequest
    /\ pc \in [Party -> {"out", "posting", "polling", "storing", "writing", "done"}]
    /\ round \in [Party -> 0 .. LastRound + 2]
    /\ view \in [Party -> [Round -> SUBSET Sent]]
    /\ faults \in Nat

\* Key material agrees: what two parties computed from in the same round are
\* the same messages, although a party that tries again computes another one.
SameMessages ==
    \A p, q \in Party : \A r \in Round :
        \A m \in view[p][r], n \in view[q][r] : m.from = n.from => m.att = n.att

\* A party that has its key computed it from one message of every party in
\* every round, and the stored public key is everybody's.
SameKey ==
    \A p \in Party : pc[p] \in {"storing", "writing", "done"} =>
        /\ \A r \in Round : {m.from : m \in view[p][r]} = Party
        /\ sharedKey # NoKey => sharedKey = KeyOf(p)

\* The parties go in lockstep: the stored messages are one a round of every
\* party, and nobody is a round ahead.
Rounds == INSTANCE TssLockstep WITH sent <- [p \in Party |-> SentBy(session.rounds, p)]
ImplementsLockstep == Rounds!Lockstep

JoinedInOrder == \A m \in session.rounds[0] : m.at = m.from

\* A party whose message was stored but who never learned it: it tries the
\* round again and is told that the message exists, or the round is done.
Unanswered(p) ==
    pc[p] # "posting" /\ \E r \in SentBy(session.rounds, p) : r >= round[p]

\* Everybody ends with the key, whatever requests are lost, unless a party
\* missed the reply to a message that was stored, or the first messages were
\* stored in another order than that of the party ids.
KeyGenEnds ==
    []JoinedInOrder /\ [](\A p \in Party : ~Unanswered(p))
        => <>(\A p \in Party : pc[p] = "done")
==============================================================================
