------------------------------ MODULE ChainIndex ------------------------------
(***************************************************************************)
(* The UTXO indexer of bitcore-node: the single-threaded sync of           *)
(* modules/bitcoin/p2p.ts importing blocks with models/block.ts, the       *)
(* handlers of relayed transactions running beside it, and the mongo       *)
(* collections both write through models/transaction.ts.                   *)
(*                                                                         *)
(* One action is one database command or one synchronous piece of code     *)
(* between two awaits, so the writes of a block and those of mempool       *)
(* transactions interleave as they do on the event loop, and the process   *)
(* can crash between any two of them.                                      *)
(***************************************************************************)
EXTENDS ChainData

CONSTANTS
    Sync,         \* the block importer; the other workers are transactions
    Mempool,      \* the transactions peers relay
    FirstTip,     \* the best block of the network when the node first starts
    MaxLocators,  \* how many hashes getLocatorHashes returns (30 in the code)
    MaxCrashes,   \* bound: crashes of the process and failures of addBlock
    MaxLate       \* bound: headers replies delivered a second time

ASSUME IndexAssumption ==
    /\ Mempool \subseteq Tx
    /\ Sync \notin Tx
    /\ \A t \in Mempool : ~IsCoinbase(t)
    /\ FirstTip \in Block \ {Genesis}
    /\ MaxLocators \in Nat \ {0, 1}
    /\ MaxCrashes \in Nat
    /\ MaxLate \in Nat

VARIABLES
    blocks,      \* the blocks collection
    coins,       \* the coins collection
    txs,         \* the transactions collection
    syncedFlag,  \* state.initialSyncComplete in the database
    pc,          \* where sync() and the addBlock it calls are
    headers,     \* the headers still to import in this round
    cur,         \* the block being imported
    floor,       \* localTip.height in handleReorg
    deletes,     \* the collections handleReorg has still to delete from
    initialSyncComplete,  \* the flag in memory
    flagWrite,   \* the state update that follows the end of sync()
    job,         \* the batchImport of each worker
    invCache,    \* the transactions already received
    netTip,      \* the best block of the network
    tipNews,     \* its announcement: due, received, or received too late
    reply,       \* the headers a peer has answered to the request under way
    late,        \* headers replies that may arrive again
    lates,       \* how many did
    crashes      \* how many times the process crashed or addBlock failed

db   == <<blocks, coins, txs, syncedFlag>>
node == <<pc, headers, cur, floor, deletes, initialSyncComplete, flagWrite, job, invCache>>
env  == <<netTip, tipNews, reply, late, lates, crashes>>
vars == <<blocks, coins, txs, syncedFlag, pc, headers, cur, floor, deletes,
          initialSyncComplete, flagWrite, job, invCache, netTip, tipNews, reply, late, lates,
          crashes>>

-----------------------------------------------------------------------------
(* SpentHeightIndicators, and the height a missing document is given here. *)

PENDING     == -1
UNSPENT     == -2
CONFLICTING == -3
ABSENT      == -100

NoBlockDoc == [st |-> "absent", height |-> 0, next |-> NoBlock]
NoCoinDoc  == [mintHeight |-> ABSENT, spentHeight |-> UNSPENT, spentTxid |-> NoTx]
NoTxDoc    == [blockHeight |-> ABSENT, replacedByTxid |-> NoTx]
NoJob      == [phase |-> "idle", todo |-> {}, invalid |-> NoTx, by |-> NoTx, updates |-> {}]

Worker      == {Sync} \cup Mempool
Collections == {"blocks", "txs", "coins"}
Updates     == {"tx", "outputs", "inputs"}

BlockStored(b) == blocks[b].st # "absent"
Processed      == {b \in Block : blocks[b].st = "processed"}
CoinStored(c)  == coins[c].mintHeight # ABSENT

\* Mutant: the tip is looked for among unprocessed blocks too.
LocalTip_Unprocessed ==
    LET stored == {b \in Block : BlockStored(b)} IN
    IF stored = {} THEN NoBlock
    ELSE CHOOSE b \in stored : \A x \in stored : blocks[x].height <= blocks[b].height

\* getLocalTip: the processed block of the greatest height.
LocalTip ==
    IF Processed = {} THEN NoBlock
    ELSE CHOOSE b \in Processed : \A x \in Processed : blocks[x].height <= blocks[b].height

\* getLocatorHashes: the last MaxLocators processed blocks; when there are
\* fewer than two, a hash of zeros, which no block has.
Locators ==
    IF LocalTip = NoBlock \/ blocks[LocalTip].height = 0 THEN {}
    ELSE {b \in Processed : blocks[b].height > blocks[LocalTip].height - MaxLocators}

\* What a peer answers to getheaders: the blocks that follow, on its best
\* branch, the last locator it has there; those after Genesis if it has none.
Reply(locators, tip) ==
    LET known == (locators \cap Chain[tip]) \cup {Genesis}
        fork  == CHOOSE b \in known : \A x \in known : Height[x] <= Height[b]
    IN  Chain[tip] \ Chain[fork]

\* headers[0]: a reply is a path, so its heights order it.
Head(hs) == CHOOSE b \in hs : \A x \in hs : Height[b] <= Height[x]

\* The answer getHeaders resolves with: the reply to this request, or one a
\* peer sent to an earlier copy of a request (every peer gets it, and it is
\* resent every second) that arrives only now; a reply not waited for may then
\* answer a later request.
Answer(hs) ==
    /\ \/ hs = reply /\ UNCHANGED lates
       \/ lates < MaxLate /\ hs \in late /\ lates' = lates + 1
    /\ late' = IF lates < MaxLate THEN late \cup {reply} ELSE late
    /\ reply' = {}

\* getBlock: a block fetched passes through the peerblock handler too, which
\* remembers its transactions and that it has received the block.
Fetch(bs) ==
    /\ invCache' = invCache \cup UNION {TxsOf[b] : b \in bs}
    /\ tipNews' = IF tipNews = "due" /\ netTip \in bs THEN "received" ELSE tipNews

-----------------------------------------------------------------------------
Init ==
    /\ blocks = [b \in Block |-> NoBlockDoc]
    /\ coins = [c \in Coin |-> NoCoinDoc]
    /\ txs = [t \in Tx |-> NoTxDoc]
    /\ syncedFlag = FALSE
    /\ pc = "start"
    /\ headers = {}
    /\ cur = NoBlock
    /\ floor = 0
    /\ deletes = {}
    /\ initialSyncComplete = FALSE
    /\ flagWrite = FALSE
    /\ job = [w \in Worker |-> NoJob]
    /\ invCache = {}
    /\ netTip = FirstTip
    /\ tipNews = "received"
    /\ reply = {}
    /\ late = {}
    /\ lates = 0
    /\ crashes = 0

-----------------------------------------------------------------------------
(* sync() of modules/bitcoin/p2p.ts, with threads = 0. *)

\* peerblock: a peer delivers the network's best block.  An idle node starts a
\* sync; one that is syncing leaves the block to the headers it will still ask
\* for, and it asks for none after the reply that ends its sync.  The block is
\* in the inventory cache then: no peer's announcement of it is followed up.
Announce ==
    /\ tipNews = "due"
    /\ tipNews' = IF pc = "awaitHeaders" /\ netTip \notin Processed \cup reply
                  THEN "missed" ELSE "received"
    /\ invCache' = invCache \cup TxsOf[netTip]
    /\ pc' = IF pc = "idle" THEN "start" ELSE pc
    /\ UNCHANGED <<db, headers, cur, floor, deletes, initialSyncComplete, flagWrite, job,
                   netTip, reply, late, lates, crashes>>

\* The prologue of sync(): read the state and the tip.
StartSync ==
    /\ pc = "start"
    /\ initialSyncComplete' = syncedFlag
    /\ headers' = {}
    /\ pc' = IF LocalTip = NoBlock \/ blocks[LocalTip].height = 0 THEN "genesis" ELSE "headers"
    /\ UNCHANGED <<db, cur, floor, deletes, flagWrite, job, invCache, env>>

\* getHeadersForSync: ask for what follows the locators.  The peer answers from
\* the best branch of that moment; the answer is on its way from here on.
AskHeaders ==
    /\ \/ pc = "genesis" /\ pc' = "awaitGenesis"
       \/ pc = "headers" /\ pc' = "awaitHeaders"
    /\ reply' = Reply(Locators, netTip)
    /\ tipNews' = IF tipNews = "missed" THEN "received" ELSE tipNews
    /\ UNCHANGED <<db, headers, cur, floor, deletes, initialSyncComplete, flagWrite, job,
                   invCache, netTip, late, lates, crashes>>

\* handleGenesisBlock: fetch the first header's block, and import the one
\* before it.
HandleGenesis ==
    /\ pc = "awaitGenesis"
    /\ \E hs \in {reply} \cup late :
          /\ Answer(hs)
          /\ Fetch(IF hs = {} THEN {} ELSE {Head(hs)})
          /\ headers' = IF hs = {} THEN {} ELSE {Parent[Head(hs)]}
          /\ pc' = IF hs = {} THEN "headers" ELSE "next"
    /\ UNCHANGED <<db, cur, floor, deletes, initialSyncComplete, flagWrite, job, netTip, crashes>>

\* No more headers end the sync, whose state update follows.  An empty reply
\* that is not the one to this request ends it too, and a tip received during
\* the sync is then not imported.
GetHeaders ==
    /\ pc = "awaitHeaders"
    /\ \E hs \in {reply} \cup late :
          /\ Answer(hs)
          /\ tipNews' = IF hs = {} /\ reply # {} /\ tipNews = "received" THEN "missed"
                        ELSE tipNews
          /\ headers' = hs
          /\ pc' = IF hs = {} THEN "idle" ELSE "next"
          /\ flagWrite' = (flagWrite \/ hs = {})
    /\ UNCHANGED <<db, cur, floor, deletes, initialSyncComplete, job, invCache, netTip, crashes>>

\* The $addToSet of initialSyncComplete at the end of sync().
WriteSyncedFlag ==
    /\ flagWrite
    /\ flagWrite' = FALSE
    /\ syncedFlag' = TRUE
    /\ UNCHANGED <<blocks, coins, txs, pc, headers, cur, floor, deletes, initialSyncComplete,
                   job, invCache, env>>

-----------------------------------------------------------------------------
(* addBlock of models/block.ts: handleReorg, then processBlock. *)

\* Mutant: prevHash is compared in the other byte order, and never equal.
Extends_ByteOrder(b) == LocalTip = NoBlock \/ blocks[LocalTip].height = 0

\* Mutant: it is enough that the previous block is stored.
Extends_AnyStored(b) ==
    LocalTip = NoBlock \/ Parent[b] = NoBlock \/ BlockStored(Parent[b])

\* handleReorg's early returns: the block extends the tip, or there is
\* nothing below the tip to go back to.
Extends(b) ==
    \/ LocalTip = NoBlock
    \/ Parent[b] = LocalTip
    \/ blocks[LocalTip].height = 0

\* Mutant: the cut is always at the tip.
ReorgFloor_Tip(b) == blocks[LocalTip].height

\* Where handleReorg cuts: at the previous block when it is stored, at the
\* tip otherwise.  The cut block itself goes too.
ReorgFloor(b) ==
    IF Parent[b] # NoBlock /\ BlockStored(Parent[b]) THEN blocks[Parent[b]].height
    ELSE blocks[LocalTip].height

\* Mutant: a sync ends with its first headers.
EndRound_Once ==
    /\ pc = "next"
    /\ headers = {}
    /\ pc' = "idle"
    /\ flagWrite' = TRUE
    /\ UNCHANGED <<db, headers, cur, floor, deletes, initialSyncComplete, job, invCache, env>>

\* The loop of sync() is out of headers and asks for more.
EndRound ==
    /\ pc = "next"
    /\ headers = {}
    /\ pc' = "headers"
    /\ UNCHANGED <<db, headers, cur, floor, deletes, initialSyncComplete, flagWrite, job,
                   invCache, env>>

\* The next block arrives, and handleReorg decides what becomes of it.
NextBlock ==
    /\ pc = "next"
    /\ headers # {}
    /\ LET b == Head(headers) IN
       /\ headers' = headers \ {b}
       /\ cur' = b
       /\ Fetch({b})
       /\ IF Extends(b)
          THEN /\ pc' = "insert"
               /\ UNCHANGED <<floor, deletes>>
          ELSE /\ pc' = "reorg"
               /\ floor' = ReorgFloor(b)
               /\ deletes' = Collections
    /\ UNCHANGED <<db, initialSyncComplete, flagWrite, job, netTip, reply, late, lates, crashes>>

\* The three deleteMany handleReorg runs in parallel.
DeleteBlocks ==
    /\ pc = "reorg" /\ "blocks" \in deletes
    /\ blocks' = [b \in Block |-> IF BlockStored(b) /\ blocks[b].height >= floor
                                  THEN NoBlockDoc ELSE blocks[b]]
    /\ deletes' = deletes \ {"blocks"}
    /\ UNCHANGED <<coins, txs, syncedFlag, pc, headers, cur, floor, initialSyncComplete,
                   flagWrite, job, invCache, env>>

\* Mutant: $gte lost from the filter.
DeleteTxs_Exact ==
    /\ pc = "reorg" /\ "txs" \in deletes
    /\ txs' = [t \in Tx |-> IF txs[t].blockHeight = floor THEN NoTxDoc ELSE txs[t]]
    /\ deletes' = deletes \ {"txs"}
    /\ UNCHANGED <<blocks, coins, syncedFlag, pc, headers, cur, floor, initialSyncComplete,
                   flagWrite, job, invCache, env>>

DeleteTxs ==
    /\ pc = "reorg" /\ "txs" \in deletes
    /\ txs' = [t \in Tx |-> IF txs[t].blockHeight >= floor THEN NoTxDoc ELSE txs[t]]
    /\ deletes' = deletes \ {"txs"}
    /\ UNCHANGED <<blocks, coins, syncedFlag, pc, headers, cur, floor, initialSyncComplete,
                   flagWrite, job, invCache, env>>

\* Mutant: one height too many.
DeleteCoins_Below ==
    /\ pc = "reorg" /\ "coins" \in deletes
    /\ coins' = [c \in Coin |-> IF coins[c].mintHeight >= floor - 1 THEN NoCoinDoc ELSE coins[c]]
    /\ deletes' = deletes \ {"coins"}
    /\ UNCHANGED <<blocks, txs, syncedFlag, pc, headers, cur, floor, initialSyncComplete,
                   flagWrite, job, invCache, env>>

DeleteCoins ==
    /\ pc = "reorg" /\ "coins" \in deletes
    /\ coins' = [c \in Coin |-> IF coins[c].mintHeight >= floor THEN NoCoinDoc ELSE coins[c]]
    /\ deletes' = deletes \ {"coins"}
    /\ UNCHANGED <<blocks, txs, syncedFlag, pc, headers, cur, floor, initialSyncComplete,
                   flagWrite, job, invCache, env>>

\* Mutant: $gte lost from the filter.
UnspendCoins_Exact ==
    /\ pc = "reorg" /\ deletes = {}
    /\ coins' = [c \in Coin |-> IF CoinStored(c) /\ coins[c].spentHeight = floor
                                THEN [coins[c] EXCEPT !.spentHeight = UNSPENT, !.spentTxid = NoTx]
                                ELSE coins[c]]
    /\ pc' = "start"
    /\ UNCHANGED <<blocks, txs, syncedFlag, headers, cur, floor, deletes, initialSyncComplete,
                   flagWrite, job, invCache, env>>

\* Once they are done, the spends above the cut are undone; addBlock rejects
\* with 'reorg', and the catch of sync() starts it over.
UnspendCoins ==
    /\ pc = "reorg" /\ deletes = {}
    /\ coins' = [c \in Coin |-> IF CoinStored(c) /\ coins[c].spentHeight >= floor
                                THEN [coins[c] EXCEPT !.spentHeight = UNSPENT, !.spentTxid = NoTx]
                                ELSE coins[c]]
    /\ pc' = "start"
    /\ UNCHANGED <<blocks, txs, syncedFlag, headers, cur, floor, deletes, initialSyncComplete,
                   flagWrite, job, invCache, env>>

\* getBlockOp: previousBlock?.height + 1 || initialHeight || 0.
NewHeight(b) ==
    IF Parent[b] # NoBlock /\ BlockStored(Parent[b]) THEN blocks[Parent[b]].height + 1 ELSE 0

\* Mutant: the block is stored as processed at once.
InsertBlock_Processed ==
    /\ pc = "insert"
    /\ blocks' = [blocks EXCEPT ![cur] = [st |-> "processed", height |-> NewHeight(cur),
                                          next |-> NoBlock]]
    /\ pc' = "link"
    /\ UNCHANGED <<coins, txs, syncedFlag, headers, cur, floor, deletes, initialSyncComplete,
                   flagWrite, job, invCache, env>>

\* The upsert of the block, not yet processed.
InsertBlock ==
    /\ pc = "insert"
    /\ blocks' = [blocks EXCEPT ![cur] = [st |-> "unprocessed", height |-> NewHeight(cur),
                                          next |-> NoBlock]]
    /\ pc' = "link"
    /\ UNCHANGED <<coins, txs, syncedFlag, headers, cur, floor, deletes, initialSyncComplete,
                   flagWrite, job, invCache, env>>

\* Mutant: a previous block of height 0 is taken for none.
LinkPrevious_ZeroHeight ==
    /\ pc = "link"
    /\ blocks' = IF Parent[cur] # NoBlock /\ blocks[Parent[cur]].height # 0
                 THEN [blocks EXCEPT ![Parent[cur]].next = cur] ELSE blocks
    /\ job' = [job EXCEPT ![Sync] = [NoJob EXCEPT !.phase = "mint", !.todo = OutputsOf(TxsOf[cur])]]
    /\ pc' = "import"
    /\ UNCHANGED <<coins, txs, syncedFlag, headers, cur, floor, deletes, initialSyncComplete,
                   flagWrite, invCache, env>>

\* nextBlockHash of the previous block; batchImport then starts minting.
LinkPrevious ==
    /\ pc = "link"
    /\ blocks' = IF Parent[cur] # NoBlock /\ BlockStored(Parent[cur])
                 THEN [blocks EXCEPT ![Parent[cur]].next = cur] ELSE blocks
    /\ job' = [job EXCEPT ![Sync] = [NoJob EXCEPT !.phase = "mint", !.todo = OutputsOf(TxsOf[cur])]]
    /\ pc' = "import"
    /\ UNCHANGED <<coins, txs, syncedFlag, headers, cur, floor, deletes, initialSyncComplete,
                   flagWrite, invCache, env>>

\* The import is over: the block is processed.
MarkProcessed ==
    /\ pc = "import" /\ job[Sync].phase = "done"
    /\ blocks' = [blocks EXCEPT ![cur].st = "processed"]
    /\ job' = [job EXCEPT ![Sync] = NoJob]
    /\ pc' = "next"
    /\ UNCHANGED <<coins, txs, syncedFlag, headers, cur, floor, deletes, initialSyncComplete,
                   flagWrite, invCache, env>>

\* A command of addBlock fails, with those still running beside it: the catch
\* of sync() starts it over.  Inside batchImport, and for the block that
\* handleGenesisBlock imports, nothing catches the failure: the handler of
\* unhandled rejections stops the process, which is a Crash.
RejectBlock ==
    /\ crashes < MaxCrashes
    /\ cur # Genesis
    /\ \/ pc \in {"reorg", "insert", "link"}
       \/ pc = "import" /\ job[Sync].phase = "done"
    /\ crashes' = crashes + 1
    /\ pc' = "start"
    /\ deletes' = {}
    /\ job' = [job EXCEPT ![Sync] = NoJob]
    /\ UNCHANGED <<db, headers, cur, floor, initialSyncComplete, flagWrite, invCache, netTip,
                   tipNews, reply, late, lates>>

-----------------------------------------------------------------------------
(* batchImport of models/transaction.ts, for the transactions of a block   *)
(* (worker Sync) or for one relayed transaction (worker t).                *)

JobTxs(w)    == IF w = Sync THEN TxsOf[cur] ELSE {w}
JobHeight(w) == IF w = Sync THEN blocks[cur].height ELSE PENDING

\* processTransaction always passes initialSyncComplete: true.
Prunes(w) == w = Sync => initialSyncComplete

\* The phases in order, and the work each one starts with.
After(ph) == CASE ph = "mint" -> "prune" [] ph = "prune" -> "spend"
               [] ph = "spend" -> "tx" [] ph = "tx" -> "done"

Spenders(w) == {t \in JobTxs(w) : ~IsCoinbase(t)}
SpendOps(w) == UNION {{<<t, c>> : c \in Inputs[t]} : t \in Spenders(w)}

Work(w, ph) ==
    CASE ph = "prune" -> IF Prunes(w) THEN Spenders(w) ELSE {}
      [] ph = "spend" -> SpendOps(w)
      [] ph = "tx"    -> JobTxs(w)
      [] ph = "done"  -> {}

\* peertx: a transaction not in the cache is imported.  A peer relays one
\* that fits its best branch and whose parents it had.
Relayable(t) ==
    /\ t \notin BranchTxs(netTip)
    /\ \A u \in BranchTxs(netTip) : ~Conflict(t, u)
    /\ \A c \in Inputs[t] : Minter[c] \in BranchTxs(netTip) \cup invCache

ReceiveTx(t) ==
    /\ t \notin invCache
    /\ Relayable(t)
    /\ job[t].phase = "idle"
    /\ invCache' = invCache \cup {t}
    /\ job' = [job EXCEPT ![t] = [NoJob EXCEPT !.phase = "mint", !.todo = OutputsOf({t})]]
    /\ UNCHANGED <<db, pc, headers, cur, floor, deletes, initialSyncComplete, flagWrite, env>>

\* A phase is over when its stream finishes.
NextPhase(w) ==
    /\ job[w].phase \in {"mint", "prune", "spend", "tx"}
    /\ job[w].todo = {}
    /\ job' = LET ph == After(job[w].phase) IN
              [job EXCEPT ![w] = IF ph = "done" /\ w # Sync THEN NoJob
                                 ELSE [NoJob EXCEPT !.phase = ph, !.todo = Work(w, ph)]]
    /\ UNCHANGED <<db, pc, headers, cur, floor, deletes, initialSyncComplete, flagWrite,
                   invCache, env>>

Done(w, x) == [job EXCEPT ![w].todo = @ \ {x}]

\* A mint upsert: a block sets the mint height, a relayed transaction only
\* inserts what is missing (toMempoolSafeUpsert).
MintedCoin(c, h) ==
    IF ~CoinStored(c) THEN [mintHeight |-> h, spentHeight |-> UNSPENT, spentTxid |-> NoTx]
    ELSE IF h >= 0 THEN [coins[c] EXCEPT !.mintHeight = h]
    ELSE coins[c]

MintCoin(w, c) ==
    /\ coins' = [coins EXCEPT ![c] = MintedCoin(c, JobHeight(w))]
    /\ job' = Done(w, c)
    /\ UNCHANGED <<blocks, txs, syncedFlag, pc, headers, cur, floor, deletes,
                   initialSyncComplete, flagWrite, invCache, env>>

\* pruneMempool looks for a pending spend of the transaction's first input by
\* another transaction (seenMinedTxids passes over its other inputs).
PruneQuery(w, t) ==
    /\ job[w].updates = {}
    /\ LET in == coins[FirstInput[t]] IN
       IF CoinStored(FirstInput[t]) /\ in.spentHeight = PENDING /\ in.spentTxid # t
       THEN job' = [job EXCEPT ![w].invalid = in.spentTxid, ![w].by = t, ![w].updates = Updates]
       ELSE job' = Done(w, t)
    /\ UNCHANGED <<db, pc, headers, cur, floor, deletes, initialSyncComplete, flagWrite,
                   invCache, env>>

\* _invalidateTx with simple: true: three updateMany in parallel; the loop
\* goes on to the next transaction when all three are done.
AfterUpdate(w, u) ==
    IF job[w].updates = {u}
    THEN [job EXCEPT ![w] = [NoJob EXCEPT !.phase = "prune", !.todo = job[w].todo \ {job[w].by}]]
    ELSE [job EXCEPT ![w].updates = @ \ {u}]

InvalidateTx(w) ==
    /\ "tx" \in job[w].updates
    /\ txs' = IF txs[job[w].invalid].blockHeight = ABSENT THEN txs
              ELSE [txs EXCEPT ![job[w].invalid] =
                       [blockHeight |-> CONFLICTING, replacedByTxid |-> job[w].by]]
    /\ job' = AfterUpdate(w, "tx")
    /\ UNCHANGED <<blocks, coins, syncedFlag, pc, headers, cur, floor, deletes,
                   initialSyncComplete, flagWrite, invCache, env>>

InvalidateOutputs(w) ==
    /\ "outputs" \in job[w].updates
    /\ coins' = [c \in Coin |-> IF CoinStored(c) /\ Minter[c] = job[w].invalid
                                THEN [coins[c] EXCEPT !.mintHeight = CONFLICTING]
                                ELSE coins[c]]
    /\ job' = AfterUpdate(w, "outputs")
    /\ UNCHANGED <<blocks, txs, syncedFlag, pc, headers, cur, floor, deletes,
                   initialSyncComplete, flagWrite, invCache, env>>

ReleaseInputs(w) ==
    /\ "inputs" \in job[w].updates
    /\ coins' = [c \in Coin |-> IF /\ CoinStored(c)
                                   /\ coins[c].spentTxid = job[w].invalid
                                   /\ coins[c].spentHeight = PENDING
                                THEN [coins[c] EXCEPT !.spentHeight = UNSPENT, !.spentTxid = NoTx]
                                ELSE coins[c]]
    /\ job' = AfterUpdate(w, "inputs")
    /\ UNCHANGED <<blocks, txs, syncedFlag, pc, headers, cur, floor, deletes,
                   initialSyncComplete, flagWrite, invCache, env>>

\* Mutant: a pending spend is not replaced.
Spendable_Unspent(c) == CoinStored(c) /\ coins[c].spentHeight = UNSPENT

\* Mutant: a confirmed spend is replaced too.
Spendable_Always(c) == CoinStored(c)

\* A spend updates the coin unless a block has already spent it, and inserts nothing.
Spendable(c) == CoinStored(c) /\ coins[c].spentHeight < 0

SpendCoin(w, t, c) ==
    /\ coins' = IF Spendable(c)
                THEN [coins EXCEPT ![c].spentTxid = t, ![c].spentHeight = JobHeight(w)]
                ELSE coins
    /\ job' = Done(w, <<t, c>>)
    /\ UNCHANGED <<blocks, txs, syncedFlag, pc, headers, cur, floor, deletes,
                   initialSyncComplete, flagWrite, invCache, env>>

\* The upsert of a transaction: a block sets its height, a relayed
\* transaction only inserts it.
StoredTx(t, h) ==
    IF txs[t].blockHeight = ABSENT THEN [blockHeight |-> h, replacedByTxid |-> NoTx]
    ELSE IF h >= 0 THEN [txs[t] EXCEPT !.blockHeight = h]
    ELSE txs[t]

StoreTx(w, t) ==
    /\ txs' = [txs EXCEPT ![t] = StoredTx(t, JobHeight(w))]
    /\ job' = Done(w, t)
    /\ UNCHANGED <<blocks, coins, syncedFlag, pc, headers, cur, floor, deletes,
                   initialSyncComplete, flagWrite, invCache, env>>

ImportStep(w) ==
    \/ NextPhase(w)
    \/ job[w].phase = "mint"  /\ \E c \in job[w].todo : MintCoin(w, c)
    \/ job[w].phase = "prune" /\ \E t \in job[w].todo : PruneQuery(w, t)
    \/ InvalidateTx(w)
    \/ InvalidateOutputs(w)
    \/ ReleaseInputs(w)
    \/ job[w].phase = "spend" /\ \E op \in job[w].todo : SpendCoin(w, op[1], op[2])
    \/ job[w].phase = "tx"    /\ \E t \in job[w].todo : StoreTx(w, t)

-----------------------------------------------------------------------------
(* The surroundings: the network's best branch moves, the process crashes. *)

\* A branch with more work, extending the best one or forking from it: its tip
\* is higher than every block received so far, and is still to be announced.
NetworkAdvance ==
    /\ \E b \in Block :
          /\ Height[b] > Height[netTip]
          /\ netTip' = b
    /\ tipNews' = "due"
    /\ UNCHANGED <<db, node, reply, late, lates, crashes>>

\* The process dies and is started again: only the database is left.  Its first
\* sync will ask for what peers announced before, and not again.
Crash ==
    /\ crashes < MaxCrashes
    /\ crashes' = crashes + 1
    /\ pc' = "start"
    /\ headers' = {}
    /\ cur' = NoBlock
    /\ floor' = 0
    /\ deletes' = {}
    /\ initialSyncComplete' = FALSE
    /\ flagWrite' = FALSE
    /\ job' = [w \in Worker |-> NoJob]
    /\ invCache' = {}
    /\ tipNews' = IF tipNews = "missed" THEN "received" ELSE tipNews
    /\ reply' = {}
    /\ late' = {}
    /\ UNCHANGED <<db, netTip, lates>>

-----------------------------------------------------------------------------
SyncStep ==
    \/ StartSync \/ AskHeaders \/ HandleGenesis \/ GetHeaders \/ WriteSyncedFlag
    \/ EndRound \/ NextBlock \/ DeleteBlocks \/ DeleteTxs \/ DeleteCoins \/ UnspendCoins
    \/ InsertBlock \/ LinkPrevious \/ MarkProcessed
    \/ ImportStep(Sync)

Next ==
    \/ Announce
    \/ SyncStep
    \/ \E t \in Mempool : ReceiveTx(t) \/ ImportStep(t)
    \/ NetworkAdvance
    \/ RejectBlock
    \/ Crash

Spec == Init /\ [][Next]_vars

\* A running handler goes on (awaits return, a request is answered), and some
\* peer delivers a new best block once; nothing has it delivered again.  Nothing
\* makes the network advance, a peer relay a transaction, or the process crash.
Fairness ==
    /\ WF_vars(Announce)
    /\ WF_vars(SyncStep)
    /\ \A t \in Mempool : WF_vars(ImportStep(t))

FairSpec == Spec /\ Fairness
-----------------------------------------------------------------------------
(* Properties. *)

\* The shapes of the documents, the flags and the jobs.
HeightField == Nat \cup {PENDING, CONFLICTING, ABSENT}
BlockDoc == [st : {"absent", "unprocessed", "processed"}, height : Nat,
             next : Block \cup {NoBlock}]
CoinDoc  == [mintHeight : HeightField, spentHeight : Nat \cup {PENDING, UNSPENT},
             spentTxid : Tx \cup {NoTx}]
TxDoc    == [blockHeight : HeightField, replacedByTxid : Tx \cup {NoTx}]
JobDoc   == [phase : {"idle", "mint", "prune", "spend", "tx", "done"},
             todo : SUBSET (Coin \cup Tx \cup (Tx \X Coin)),
             invalid : Tx \cup {NoTx}, by : Tx \cup {NoTx}, updates : SUBSET Updates]

\* Type invariant: what the handlers write has these shapes.
TypeOK ==
    /\ blocks \in [Block -> BlockDoc]
    /\ coins \in [Coin -> CoinDoc]
    /\ txs \in [Tx -> TxDoc]
    /\ syncedFlag \in BOOLEAN
    /\ pc \in {"start", "genesis", "awaitGenesis", "headers", "awaitHeaders", "next", "reorg",
               "insert", "link", "import", "idle"}
    /\ headers \in SUBSET Block
    /\ cur \in Block \cup {NoBlock}
    /\ floor \in Nat
    /\ deletes \in SUBSET Collections
    /\ initialSyncComplete \in BOOLEAN
    /\ flagWrite \in BOOLEAN
    /\ job \in [Worker -> JobDoc]
    /\ invCache \in SUBSET Tx
    /\ netTip \in Block
    /\ tipNews \in {"due", "received", "missed"}
    /\ reply \in SUBSET Block
    /\ late \in SUBSET SUBSET Block
    /\ lates \in Nat
    /\ crashes \in Nat

\* The processed blocks are one branch, from Genesis to the local tip, each
\* at its height: addBlock and handleReorg never leave a gap, two blocks at
\* one height, or a block whose previous block is of another branch.
OneBranch ==
    /\ Processed # {} => Processed = Chain[LocalTip]
    /\ \A b \in Processed : blocks[b].height = Height[b]

\* nextBlockHash of a processed block names the processed block above it
\* (what validateLocatorHashes of models/baseBlock.ts checks), whatever crashed
\* before: a link a failed import left to a block that is then abandoned is
\* written again by the block that replaces it.
NextLinks ==
    \A b \in Processed \ {Genesis} : blocks[Parent[b]].next = b

\* While handleReorg is cutting, what lies at or above the cut is in pieces.
Settled(h) == pc = "reorg" => h < floor

StoredAt(t, h) == \E b \in Block : BlockStored(b) /\ blocks[b].height = h /\ t \in TxsOf[b]

\* No orphan confirmation: a coin says it is spent at a height only if the
\* block stored at that height holds the transaction it names, and that
\* transaction spends it.
SpendsSound ==
    \A c \in Coin :
        coins[c].spentHeight >= 0 /\ Settled(coins[c].spentHeight) =>
            /\ coins[c].spentTxid \in Tx
            /\ c \in Inputs[coins[c].spentTxid]
            /\ StoredAt(coins[c].spentTxid, coins[c].spentHeight)

\* The same of mint heights and of the heights of transactions.
MintsSound ==
    /\ \A c \in Coin :
          coins[c].mintHeight >= 0 /\ Settled(coins[c].mintHeight) =>
              StoredAt(Minter[c], coins[c].mintHeight)
    /\ \A t \in Tx :
          txs[t].blockHeight >= 0 /\ Settled(txs[t].blockHeight) =>
              StoredAt(t, txs[t].blockHeight)

\* Nothing a processed block spends is missed: whatever the mempool wrote
\* before or writes meanwhile, each of its inputs is spent by it at its height.
SpendsComplete ==
    \A b \in Processed : \A t \in TxsOf[b] : \A c \in Inputs[t] :
        Settled(blocks[b].height) =>
            /\ coins[c].spentTxid = t
            /\ coins[c].spentHeight = blocks[b].height

\* Nothing a processed block mints is missed.
MintsComplete ==
    \A b \in Processed : \A t \in TxsOf[b] :
        Settled(blocks[b].height) =>
            /\ txs[t].blockHeight = blocks[b].height
            /\ \A c \in OutputsOf({t}) : coins[c].mintHeight = blocks[b].height

\* The same over both branches as long as nothing was interrupted: the three
\* deletes of handleReorg (models/block.ts:172) are all or nothing.
MintsCompleteUnlessCrash == crashes = 0 => MintsComplete

\* What a crash or a failure interrupts, the import that follows completes:
\* no processed block lacks a mint or a spend, unless a late headers reply had
\* turned that import into a reorg.
CrashRepaired == lates = 0 => MintsComplete /\ SpendsComplete

\* A coin is marked conflicting only if its transaction can no longer confirm
\* (types/Coin.ts:40): no transaction of a processed block has such an output.
NoConfirmedConflict ==
    \A b \in Processed : \A c \in OutputsOf(TxsOf[b]) :
        Settled(blocks[b].height) => coins[c].mintHeight # CONFLICTING

\* Only handleReorg undoes a confirmed spend: no mempool write, and no later
\* block, ever takes a coin from the transaction a block spent it with.
ConfirmedSpendStands ==
    [][\A c \in Coin : coins[c].spentHeight >= 0 /\ coins'[c] # coins[c]
          => \/ pc = "reorg"
             \/ /\ coins'[c].spentHeight = coins[c].spentHeight
                /\ coins'[c].spentTxid = coins[c].spentTxid]_vars

\* Whatever branch the network ends on, the node ends idle with the initial sync
\* recorded, on the network's tip: it stays behind only when it received the tip
\* too late, after the reply that ended its sync was sent, or when an old empty
\* reply ended the sync that was to import it.  No crash, reorg, failed block or
\* announcement at any other moment leaves it behind.
SyncConverges ==
    <>[](pc = "idle" /\ syncedFlag /\ (LocalTip = netTip \/ tipNews = "missed"))
=============================================================================
