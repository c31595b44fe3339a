----------------------------- MODULE TxProposals -----------------------------
(***************************************************************************)
(* The life of the transaction proposals of one wallet of                  *)
(* bitcore-wallet-service: the handlers of lib/server.ts over the txs      *)
(* collection, several of them at a time, and the network they broadcast   *)
(* to.                                                                     *)
(*                                                                         *)
(* Every handler fetches documents, decides, and writes a whole document   *)
(* back (storeTx is an upsert of what was fetched): one action is one      *)
(* command, to the database or to the explorer, and the code up to the     *)
(* next one.  Only createTx, publishTx and removePendingTx run under the   *)
(* wallet lock, which is a mutex here: WalletLock shows it is one until a  *)
(* request overruns.  The wallet is one of a UTXO chain, without fee       *)
(* replacement and without threshold signatures.                           *)
(***************************************************************************)
EXTENDS WalletMutex, Integers, FiniteSets

CONSTANTS
    Copayer,     \* the copayers of the wallet
    Nobody,      \* no copayer
    Required,    \* walletM: how many of them must sign
    Txp,         \* the ids of proposals
    NoTxp,       \* no proposal
    Utxo,        \* the outputs the wallet can spend
    InputsOf,    \* the inputs of a proposal
    Old,         \* proposals older than DELETE_LOCKTIME by the time of removal
    Mutable,     \* proposals created with refreshOnPublish or deferNonce
    MaxStale     \* bound: writes over a document changed since it was fetched

ASSUME WalletAssumption ==
    /\ IsFiniteSet(Copayer)
    /\ Nobody \notin Copayer
    /\ NoTxp \notin Txp
    /\ Required \in 1 .. Cardinality(Copayer)
    /\ InputsOf \in [Txp -> SUBSET Utxo]
    /\ \A x \in Txp : InputsOf[x] # {}
    /\ Old \subseteq Txp
    /\ Mutable \subseteq Txp
    /\ MaxStale \in Nat

VARIABLES
    docs,    \* the txs collection
    call,    \* the request each member of Req is serving
    sent,    \* the proposals whose transaction the network has
    signed,  \* the copayers whose signature of a proposal was accepted
    stale    \* how many writes undid one made since their fetch

vars == <<holders, docs, call, sent, signed, stale>>

-----------------------------------------------------------------------------
(* Documents, as lib/model/txproposal.ts.                                  *)

\* Mutant: a wallet's proposals take as many rejections as signatures.
RequiredRejections_Same == Required

\* min(walletM, walletN - walletM + 1)
RequiredRejections ==
    IF Required <= Cardinality(Copayer) - Required + 1 THEN Required
    ELSE Cardinality(Copayer) - Required + 1

NoDoc   == [status |-> "none", creator |-> Nobody, accepts |-> {}, rejects |-> {}]
Removed == [NoDoc EXCEPT !.status = "removed"]

Exists(d) == d.status \notin {"none", "removed"}

\* isPending(): published, and neither rejected nor broadcasted.
IsPending(d) == d.status \in {"pending", "accepted"}

\* getActors().
Actors(d) == d.accepts \cup d.rejects

\* Mutant: a signature more than all but one.
IsAccepted_OffByOne(d) == Cardinality(d.accepts) >= Required - 1

IsAccepted(d) == Cardinality(d.accepts) >= Required
IsRejected(d) == Cardinality(d.rejects) >= RequiredRejections

\* _updateStatus, after an action is added.
Updated(d) ==
    IF d.status # "pending" THEN d
    ELSE IF IsRejected(d) THEN [d EXCEPT !.status = "rejected"]
    ELSE IF IsAccepted(d) THEN [d EXCEPT !.status = "accepted"]
    ELSE d

Created(c)     == [NoDoc EXCEPT !.status = "temporary", !.creator = c]
Published(d)   == [d EXCEPT !.status = "pending"]
Broadcasted(d) == [d EXCEPT !.status = "broadcasted"]

Sign(d, c)   == Updated([d EXCEPT !.accepts = @ \cup {c}])
Reject(d, c) == Updated([d EXCEPT !.rejects = @ \cup {c}])

-----------------------------------------------------------------------------
(* Requests.                                                               *)

\* Mutant: publishTx does not take the lock.
LockedOps_NotPublish == {"createTx", "removePendingTx"}

LockedOps == {"createTx", "publishTx", "removePendingTx"}
ByAnyone  == {"publishTx", "broadcastTx"}
Ops       == {"createTx", "publishTx", "removePendingTx", "signTx", "rejectTx",
              "broadcastTx", "getPendingTxs"}

\* doc is the document the handler fetched, snap those that getPendingTxs
\* fetched, list the pending ones among them, and free says that the UTXOs
\* looked at so far are available.
Idle == [pc |-> "idle", op |-> "getPendingTxs", who |-> Nobody, txp |-> NoTxp, doc |-> NoDoc,
         snap |-> [x \in Txp |-> NoDoc], list |-> {}, free |-> FALSE]

Locked(r) == call[r].op \in LockedOps

\* A handler that stops here: it answers, and gives the lock back if it has it.
Finished(r) == IF Locked(r) THEN [Idle EXCEPT !.pc = "release"] ELSE Idle

At(r, pc) == call[r].pc = pc

\* Proposals that cannot both be published.
Clash(x, y) == x # y /\ InputsOf[x] \cap InputsOf[y] # {}

Init ==
    /\ MutexInit
    /\ docs = [x \in Txp |-> NoDoc]
    /\ call = [r \in Req |-> Idle]
    /\ sent = {}
    /\ signed = [x \in Txp |-> {}]
    /\ stale = 0

\* A copayer's client calls the service; a proposal's id is created once.
\* Who calls is kept only where it matters.  A request that waits for the
\* lock has done nothing yet (createTx gives up after 10 s): it starts when
\* it has it.
Start(r) ==
    /\ At(r, "idle")
    /\ \/ /\ call' = [call EXCEPT ![r].pc = "pending"]
          /\ UNCHANGED holders
       \/ \E op \in Ops \ {"getPendingTxs"}, c \in Copayer, x \in Txp :
             /\ op = "createTx" <=> docs[x].status = "none"
             /\ call' = [call EXCEPT ![r] =
                            [Idle EXCEPT !.pc = "fetch", !.op = op, !.txp = x,
                                         !.who = IF op \in ByAnyone THEN Nobody ELSE c]]
             /\ IF op \in LockedOps THEN Take(r) ELSE UNCHANGED holders
    /\ UNCHANGED <<docs, sent, signed, stale>>

\* What each handler asks of the document d it fetched for its copayer c.
MayCreate(d)  == ~Exists(d)

\* hasMutableTxData(): it may be published again, whatever became of it.
MayPublish(d, x) == d.status = "temporary" \/ (Exists(d) /\ x \in Mutable)

MaySign(d, c) == c \notin Actors(d) /\ IsPending(d)

\* Mutant: a decided proposal is rejected all the same.
MayReject_Any(d, c) == c \notin Actors(d) /\ Exists(d)

\* Mutant: rejectTx does not look who voted.
MayReject_Again(d, c) == d.status = "pending"

MayReject(d, c) == c \notin Actors(d) /\ d.status = "pending"

MayBroadcast(d) == d.status = "accepted"

\* getRemainingDeleteLockTime: the creator need not wait while nobody else
\* has approved.
DeleteLockOver(d, c, x) == x \in Old \/ (d.creator = c /\ d.accepts \subseteq {c})

MayRemove(d, c, x) == IsPending(d) /\ DeleteLockOver(d, c, x)

Allowed(op, d, c, x) ==
    CASE op = "createTx"        -> MayCreate(d)
      [] op = "publishTx"       -> MayPublish(d, x)
      [] op = "removePendingTx" -> MayRemove(d, c, x)
      [] op = "signTx"          -> MaySign(d, c)
      [] op = "rejectTx"        -> MayReject(d, c)
      [] op = "broadcastTx"     -> MayBroadcast(d)

\* The fetch that starts a handler, and its checks.
Fetch(r) ==
    /\ At(r, "fetch")
    /\ LET op == call[r].op
           x  == call[r].txp
           d  == docs[x]
       IN call' = [call EXCEPT ![r] =
              IF ~Allowed(op, d, call[r].who, x) THEN Finished(r)
              ELSE [call[r] EXCEPT !.doc = d,
                                   !.pc = CASE op = "publishTx"   -> "utxos"
                                            [] op = "broadcastTx" -> "send"
                                            [] OTHER              -> "store"]]
    /\ UNCHANGED <<holders, docs, sent, signed, stale>>

-----------------------------------------------------------------------------
(* checkTxUTXOs, and the getPendingTxs it calls.                           *)

\* The explorer's UTXOs: it may not know yet of some transactions sent.
GetUtxos(r) ==
    /\ At(r, "utxos")
    /\ \E known \in SUBSET sent :
          call' = [call EXCEPT ![r].pc = "pending",
                               ![r].free = \A y \in known : /\ call[r].txp # y
                                                            /\ ~Clash(call[r].txp, y)]
    /\ UNCHANGED <<holders, docs, sent, signed, stale>>

\* fetchPendingTxs.  Of its snapshots only those of accepted proposals matter.
FetchPending(r) ==
    /\ At(r, "pending")
    /\ call' = [call EXCEPT ![r].pc = "settle",
                            ![r].snap = [x \in Txp |->
                                IF docs[x].status = "accepted" THEN docs[x] ELSE NoDoc],
                            ![r].list = {x \in Txp : IsPending(docs[x])}]
    /\ UNCHANGED <<holders, docs, sent, signed, stale>>

\* A write of d for x, fetched as seen, over whatever is there by now.
Write(x, seen, d) ==
    /\ docs[x] # seen => stale < MaxStale
    /\ stale' = IF docs[x] # seen THEN stale + 1 ELSE stale
    /\ docs' = [docs EXCEPT ![x] = d]

\* An accepted proposal that the explorer finds in the blockchain is stored
\* as broadcasted, and is off the list.
Settle(r) ==
    /\ At(r, "settle")
    /\ \E x \in call[r].list \cap sent :
          /\ call[r].snap[x].status = "accepted"
          /\ Write(x, call[r].snap[x], Broadcasted(call[r].snap[x]))
          /\ call' = [call EXCEPT ![r].list = @ \ {x}]
    /\ UNCHANGED <<holders, sent, signed>>

\* The inputs of those left on the list are locked.  A proposal that is
\* published already locks its own.
Settled(r) ==
    /\ At(r, "settle")
    /\ LET x == call[r].txp IN
       call' = [call EXCEPT ![r] =
                   IF call[r].op = "publishTx"
                   THEN [call[r] EXCEPT !.pc = "broadcasted", !.list = {},
                             !.free = @ /\ \A y \in call[r].list : x # y /\ ~Clash(x, y)]
                   ELSE Finished(r)]
    /\ UNCHANGED <<holders, docs, sent, signed, stale>>

\* fetchBroadcastedTxs: their inputs are spent, whatever the explorer says.
FetchBroadcasted(r) ==
    /\ At(r, "broadcasted")
    /\ LET x == call[r].txp IN
       call' = [call EXCEPT ![r] =
                   IF call[r].free /\ \A y \in Txp : docs[y].status = "broadcasted" =>
                                                        x # y /\ ~Clash(x, y)
                   THEN [call[r] EXCEPT !.pc = "store"]
                   ELSE Finished(r)]
    /\ UNCHANGED <<holders, docs, sent, signed, stale>>

-----------------------------------------------------------------------------
(* The write that ends a handler, and the network.                         *)

NewDoc(op, d, c) ==
    CASE op = "createTx"        -> Created(c)
      [] op = "publishTx"       -> Published(d)
      [] op = "removePendingTx" -> Removed
      [] op = "signTx"          -> Sign(d, c)
      [] op = "rejectTx"        -> Reject(d, c)
      [] op = "broadcastTx"     -> Broadcasted(d)

\* storeTx, or the deleteOne of removePendingTx.
Store(r) ==
    /\ At(r, "store")
    /\ LET x == call[r].txp
           c == call[r].who
           d == call[r].doc
       IN /\ Write(x, d, NewDoc(call[r].op, d, c))
          /\ signed' = IF call[r].op = "signTx" THEN [signed EXCEPT ![x] = @ \cup {c}]
                       ELSE signed
    /\ call' = [call EXCEPT ![r] = Finished(r)]
    /\ UNCHANGED <<holders, sent>>

\* The network takes a transaction unless it has one that spends an input of it.
Accepts(x) == \A y \in sent : ~Clash(x, y)

\* _broadcastRawTx answers.  When it fails, _checkTxInBlockchain decides:
\* the transaction may be there all the same.
Send(r) ==
    /\ At(r, "send")
    /\ LET x == call[r].txp IN
       \/ /\ Accepts(x)
          /\ sent' = sent \cup {x}
          /\ call' = [call EXCEPT ![r].pc = "store"]
       \/ /\ sent' = sent
          /\ call' = [call EXCEPT ![r] = Idle]
       \/ /\ Accepts(x)
          /\ sent' = sent \cup {x}
          /\ call' = [call EXCEPT ![r] = Idle]
    /\ UNCHANGED <<holders, docs, signed, stale>>

\* The copayers whose signatures suffice send the transaction by themselves.
ThirdPartySend(x) ==
    /\ Cardinality(signed[x]) >= Required
    /\ Accepts(x)
    /\ sent' = sent \cup {x}
    /\ UNCHANGED <<holders, docs, call, signed, stale>>

\* runLocked gives the lock back.
Leave(r) ==
    /\ At(r, "release")
    /\ Free(r)
    /\ call' = [call EXCEPT ![r] = Idle]
    /\ UNCHANGED <<docs, sent, signed, stale>>

\* The process that serves the request dies, or a command of it fails.
Perish(r) ==
    /\ ~At(r, "idle")
    /\ call' = [call EXCEPT ![r] = Idle]
    /\ IF r \in holders THEN Free(r) ELSE UNCHANGED holders
    /\ UNCHANGED <<docs, sent, signed, stale>>

Next ==
    \/ \E r \in Req :
          \/ Start(r) \/ Fetch(r)
          \/ GetUtxos(r) \/ FetchPending(r) \/ Settle(r) \/ Settled(r) \/ FetchBroadcasted(r)
          \/ Store(r) \/ Send(r) \/ Leave(r) \/ Perish(r)
    \/ \E x \in Txp : ThirdPartySend(x)

Spec == Init /\ [][Next]_vars

-----------------------------------------------------------------------------
(* Properties. *)

Doc  == [status : {"none", "removed", "temporary", "pending", "accepted", "rejected",
                   "broadcasted"},
         creator : Copayer \cup {Nobody}, accepts : SUBSET Copayer, rejects : SUBSET Copayer]
Docs == {d \in Doc : d.accepts \cap d.rejects = {}}
Call == [pc : {"idle", "fetch", "utxos", "pending", "settle", "broadcasted", "store",
               "send", "release"},
         op : Ops, who : Copayer \cup {Nobody}, txp : Txp \cup {NoTxp},
         doc : Doc, snap : [Txp -> Doc], list : SUBSET Txp, free : BOOLEAN]

\* Type invariant: the shapes of documents and requests.  A copayer has one
\* vote on a proposal.
TypeOK ==
    /\ holders \in SUBSET Req
    /\ docs \in [Txp -> Docs]
    /\ call \in [Req -> Call]
    /\ sent \in SUBSET Txp
    /\ signed \in [Txp -> SUBSET Copayer]
    /\ stale \in Nat

\* No transaction reaches the network without the signatures of walletM
\* copayers, however their requests and those of others interleave, and
\* whatever votes are overwritten.
SignedBeforeSent == \A x \in sent : Cardinality(signed[x]) >= Required

\* No vote is wasted: once every copayer has voted, a proposal is decided, and
\* stays so unless it may be published again.
EveryVoteDecides ==
    \A x \in Txp \ Mutable : Actors(docs[x]) = Copayer => docs[x].status # "pending"

\* Publishing a proposal locks its inputs (server.ts:3030): no other proposal
\* that spends one of them is pending, or broadcasted.
InputsLocked ==
    \A x, y \in Txp :
        IsPending(docs[x]) /\ Clash(x, y) =>
            ~IsPending(docs[y]) /\ docs[y].status # "broadcasted"

\* The mutex and the recheck of UTXOs are enough for it as long as no handler
\* writes over a change it has not seen.
InputsLockedUnlessRace == stale = 0 => InputsLocked

\* What a step that overwrites no unseen change may do to a proposal: it takes
\* back no copayer's vote, leaves a broadcasted one alone as long as nothing
\* was overwritten before either, and revives a rejected one only if it may
\* be published again.
Stands(x) ==
    /\ docs[x].status \in {"rejected", "broadcasted"} /\ x \notin Mutable => docs'[x] = docs[x]
    /\ docs[x].status = "broadcasted" /\ stale = 0 => docs'[x] = docs[x]
    /\ Exists(docs'[x]) => /\ docs[x].accepts \subseteq docs'[x].accepts
                           /\ docs[x].rejects \subseteq docs'[x].rejects

\* Decisions are final.
DecisionsStand == [][stale' = stale => \A x \in Txp : Stands(x)]_vars
=============================================================================
