# A verification project for bitcore

This directory holds TLA+ models of the concurrent parts of bitcore, the TLC
configurations that check them, and TLAPS proofs about them. Paths are
relative to the repository; `node/` stands for
`packages/bitcore-node/src/` and `bws/` for
`packages/bitcore-wallet-service/src/lib/`.

## 1. The system

| component | state | operations | what is hard |
|---|---|---|---|
| **UTXO index** of bitcore-node (`node/models/{block,transaction,coin}.ts`) | the collections `blocks`, `transactions`, `coins` | `addBlock` (`handleReorg`, `processBlock`), `batchImport` (mint, prune, spend, tx), `_invalidateTx` | many commands per block and no transaction around them; relayed transactions use the same collections meanwhile; reorgs; crashes |
| **block sync** (`node/modules/bitcoin/p2p.ts`) | `isSyncing`, the invCache, the headers of a round | `sync`, `getHeaders`, `peerblock`, `peertx` | resent requests and late replies; one flag against concurrent syncs |
| **multi-thread sync** (`node/modules/bitcoin/sync.ts`) | header queue, buffer of blocks by height, the threads' jobs | fetch, buffer, process in order, retry, finish | out-of-order delivery, lost threads, errors that stall a batch, the hand-over to single-thread mode |
| **syncing-node election** (`node/services/p2p.ts`, `node/models/state.ts`) | the heartbeat in the database, timers | nominate, register, resign | two primaries, late registrations, stalled processes |
| mempool pruning (`node/services/pruning.ts`) | reads and writes the index | prune old, invalidate replaced | check-then-remove against block import |
| **wallet lock** of the wallet service (`bws/lock.ts`) | one document per wallet in `locks` | `acquire`, `runLocked`, `clearExpiredLock` | expiry, dead holders, deletes by key |
| **transaction proposals** (`bws/server.ts`, `bws/model/txproposal.ts`) | documents in `txs` | create, publish, sign, reject, broadcast, remove, list | whole-document writes without the lock; the network and the explorer disagree with the database |
| blockchain monitor (`bws/blockchainmonitor.ts`) | timers, subscriptions | record third-party broadcasts, confirmations | acts 20 s after it read |
| wallets, copayers, addresses (`bws/server.ts`) | wallet and address documents | join, createAddress, scan | the lock, the index counter |
| **threshold signatures** (`packages/bitcore-tss`, `bws/tss.ts`, `packages/bitcore-wallet-client/src/lib/{tsskey,tsssign}.ts`) | a session document with the messages of each round; the parties' snapshots | join, post a round, poll, store the key or the signature | no lock, only a version; lost replies and retries with fresh nonces; who joins, and in which order |
| p2p pool (`packages/bitcore-p2p/lib/{pool,peer}.js`) | connected peers, address list | connect, evict, reconnect | events of dead peers |
| libraries, clients, RPC adapters, front end | no shared state | | |

Components interact through the database and the network only. `peertx` and
`peerblock` events of the p2p pool call the UTXO index; the wallet service asks
the index, through its HTTP API, for UTXOs and broadcasts through it; the
copayers' clients call the wallet service, several processes of which share one
database; the parties of a threshold signature meet in it too. The nodes on one
database elect the one that syncs; its worker begins with the multi-thread sync
and goes on with the single-thread loop. Within a process JavaScript runs to the next `await` or callback:
interleavings happen between database commands, and there all of them can.

`PROJECT.json` lists every component with what is left out, and every hazard at
its line.

What makes each part correct:

* index: the processed blocks are one branch; a confirmed spend or mint is
  true of the stored blocks, and none of theirs is missing; sync reaches the
  network's tip;
* multi-thread sync: blocks are processed once, in order; a batch ends;
* election: one primary at a time, no takeover from one that keeps up, and there
  is one again after a crash;
* pruning: nothing confirmed is removed or marked;
* lock: mutual exclusion; a dead holder does not block the wallet;
* proposals: nothing is sent without m signatures; inputs of pending proposals
  are their own; decisions are final; votes decide;
* threshold sessions: all parties compute from the same messages, in lockstep,
  and end with one key or one signature.

## 2. The modules

```
ChainData  <-  ChainIndex  <-  ChainIndexInv  <-  MCChainIndex
    ^                               |   ^
    '-- BranchTip <--- refines -----'   '--  ChainIndexProofs

WalletMutex  <--- refines --- WalletLock  <-  MCWalletLock, WalletLockProofs
    ^
    '-- TxProposals  <-  MCTxProposals
            ^
            '-- TxProposalsProofs

TssRounds  <-  TssKeyGen  <-  TssKeyGenProofs
   ^  ^            '-- refines --> TssLockstep
   |  '------  TssSign  <-  TssSignProofs
   |               '-- refines --> TssLockstep
   '-- TssRoundsProofs  <-  TssKeyGenProofs, TssSignProofs

MultiThreadSync  <-  MultiThreadSyncProofs
SyncElection     <-  SyncElectionProofs
```

### ChainData, ChainIndex: the UTXO index and its sync

`ChainData` is the world: a finite tree of blocks (`Parent`, `Height`, `Chain`),
the transactions of each block, the coin each transaction mints and spends. Its
assumptions say that it is a tree and that a branch does not spend a coin twice,
which bitcoind has validated before the indexer gets the block.

`ChainIndex` is one bitcore-node process with `threads: 0`, its database and its
peers. An action is one database command or the code between two awaits:

| actions | code |
|---|---|
| `Announce` | `peerblock` with a new best block: an idle node starts a sync, one that is syncing does not |
| `StartSync`, `AskHeaders`, `HandleGenesis`, `GetHeaders`, `EndRound`, `WriteSyncedFlag` | `sync()` of `p2p.ts`, `getLocatorHashes`, `getHeaders` with its resent requests |
| `NextBlock` | `getBlock`, and whether `handleReorg` has to act |
| `DeleteBlocks`, `DeleteTxs`, `DeleteCoins`, `UnspendCoins` | `handleReorg`: three deletes at once, then the reset of spends |
| `InsertBlock`, `LinkPrevious`, `MarkProcessed`, `RejectBlock` | `processBlock` and the `catch` of `sync()` |
| `ReceiveTx` | `peertx`: a handler of its own for each relayed transaction |
| `NextPhase`, `MintCoin`, `PruneQuery`, `InvalidateTx`, `InvalidateOutputs`, `ReleaseInputs`, `SpendCoin`, `StoreTx` | `batchImport` phase by phase, for the block and for each relayed transaction; a `bulkWrite` is unordered, so its operations come one by one in any order |
| `NetworkAdvance` | the network finds a better branch |
| `Crash` | the process stops, or `unhandledRejection` stops it (`workers/p2p.ts:14`), and a new one starts on the same database |

A new best block is announced once: afterwards it is in the invCache, and no other
announcement of it is followed up (`p2p.ts:157-170`). `tipNews` says what became
of the announcement: `"due"`, `"received"` by a node that has it, fetched it, or
will still ask for headers, or `"missed"`: it came while the last reply of a sync,
which does not have it, was on its way, or an old empty reply ended the sync
that was to import it. The peer answers when it is asked (`AskHeaders` sets
`reply`), and the node takes the answer later, or a reply in `late`: one that
some peer sent to an earlier copy of a request, since every peer gets each
request and each is resent every second. At most `MaxLate` late replies are
taken, empty ones included.

`job[w]` is the `batchImport` that worker `w` runs; the worker `Sync` imports
blocks, the others are the relayed transactions. The heights -1, -2, -3 are those
of `SpentHeightIndicators`; a document that does not exist has the height
`ABSENT`.

Left out: `parentChain` imports, events, wallet tagging, fees, the block
prefetch (a block's transactions enter the invCache at `NextBlock`, by `Fetch`), batches
larger than one of the write streams, and a command of a rejected block that
still succeeds after the rejection. A failed write in a stream is a `Crash`,
because nothing handles its rejection.

`BranchTip` is what readers of the index may rely on: there is one branch, its
tip goes up to a child or down its own branch. `ChainIndexInv` holds the
inductive invariants, apart from the proofs so that TLC can check them.

### WalletMutex, WalletLock: the wallet lock

`WalletMutex` is a mutex: a set of holders with at most one member.
`WalletLock` is `lock.ts` over the `locks` collection: inserting the document
takes the lock, a failed insert may read an expired document (`SeeExpired`) and
delete it later by key (`ClearExpired`), the release deletes by key, a process
may die and leave its document. Time is abstracted to "live" and "expired".
`overruns` counts the documents that expired under a running request, and
`lateClears` the live documents that `ClearExpired` deleted.

### TxProposals: the proposals of one wallet

One wallet of a UTXO chain, several requests at a time. `Start` is a client's
call; `Fetch` a handler's read and its checks; `GetUtxos`, `FetchPending`,
`Settle`, `Settled`, `FetchBroadcasted` are `checkTxUTXOs` and the listing of
pending proposals, which by itself records broadcasts it discovers; `Store` is
the write that ends a handler; `Send` a broadcast, which may succeed although it
reports a failure; `ThirdPartySend` a copayer with enough signatures; `Perish`
the death of the process or a failing command. `createTx`, `publishTx` and
`removePendingTx` hold the mutex, the others do not; a request that waits for it
has done nothing, and starts when it has it. `doc` is the document a handler
fetched, `snap` the accepted ones that a listing fetched; `Write` counts in `stale`
the writes over a document that changed since it was fetched.

The proposals in `Mutable` were created with `refreshOnPublish` or `deferNonce`.
`publishTx` takes them again whatever became of them (`hasMutableTxData`,
`bws/server.ts:3052`) and sets their status back to pending with their votes kept
(`bws/server.ts:3086`), so that a rejected one is revived. A broadcasted one is
stopped by the check of inputs, which the explorer's record of its own
transaction fails. The properties say of each what they claim.

Left out: fee replacement (whose publish skips the check of inputs), the
nonces of account chains and the transaction data a republishing refreshes, threshold signatures, the
service's choice of inputs (a client's choice covers it), the backoff of
`_canCreateTx`, the blockchain monitor, signatures that do not verify, and the
24 h and 100 documents limits of `fetchBroadcastedTxs`. A request that dies under
the lock frees the mutex at once, where the code waits for the expiry that
`WalletLock` models.

### TssLockstep, TssRounds, TssKeyGen, TssSign: threshold-signature sessions

`TssLockstep` is what a session promises: `Size` parties take part, each sends one
message a round, and nobody is a round ahead of a party that takes part.

`TssRounds` is the document both session models keep (`bws/model/tsskeygen.ts`,
`tsssign.ts`): the messages of each round, `getCurrentRound` (`CurrentRound`), the
checks of `_pushMessage` (`Pushable`, `Pushed`) and `getMessagesForParty`
(`MessagesFor`). A message is its sender, the attempt that computed it and its
place in the array of its round. The cryptography of the DKLs library is
abstract: what a party computes from a round is the set of messages it saw, so
that two keys are equal exactly when the same messages went into them.

`TssKeyGen` and `TssSign` compose the clients and the server. There is no lock: a
request fetches the document, decides, and updates it if `__v` is still what it
fetched.

| actions | code |
|---|---|
| `Join`, `Start`, `NextRound`, `FinishKey`, `FinishSignature`, `TakeSignature` | one turn of `subscribe` of the clients (`tsskey.ts`, `tsssign.ts`) over the keygen and sign classes of bitcore-tss; `Post` computes a message that was not used before |
| `Authorized` | `authTssRequest`: the party's key is looked up in the first round, by place for key generation |
| `Fetch`, `InitSession`, `StoreParticipant`, `PushMessage`, `FetchAgain` | `processMessage` of `bws/tss.ts`, one database command each, with the loop over `MONGO_DOC_OUTDATED` |
| `FetchForKey`, `StoreKey`, `StoreSignature` | `storeKey`, `storeSignature` |
| `Succeed`, `Fail` | the reply, or the error after which the client goes back to its snapshot (`Restored`: `restoreSession`), or has not joined at all (`NotStarted`) |
| `LoseReply`, `LoseRequest` | the reply is lost while the handler goes on; the request or its server is lost |

`view[p]` is what party `p` computed each round from. `posts` holds the requests
the server works on; one whose client gave up has `live = FALSE` and may still
store its message.

`restoreSession` of a signer is given the raw key chain (`tsssign.ts:171`), where
`start` is given a decrypted copy (`tsssign.ts:126`). When the key is encrypted
its share is null there (`tsskey.ts:149`) and the class of bitcore-tss throws
(`sign.js:43`): for a party in `Encrypted` a failed post of a later round leaves
the round counted and the message never stored. Key generation restores without
the share, and is not affected.

Left out: passwords otherwise, backups of the client's state, the checks of signatures
and of the messages' contents, the join secret that the key-generation session
carries for the wallet, and notifications.

### MultiThreadSync: the two importers of a worker

A block is its height and `addBlock` is one step (`ChainIndex` has its commands).
When it fails, `handleReorg` may have taken the tip back any number of blocks
(`TakenBack`), but not the genesis block: `ChainIndex` has the fork from there. The
exchange of headers is two steps, the request with the answer of that moment
(`AskSingle`, `AskMulti`) and its arrival; `missed` says that a block was announced in
between, of which the node then knows nothing (`p2p.ts:157-170`).

| actions | code |
|---|---|
| `Announce`, `EnterMultiThread`, `Saved` | `peerblock`, `sync()` with `isSyncing` between its decision and `multiThreadSync.sync()`, the write of `initialSyncComplete` |
| `ReadState`, `AskSingle`, `SingleHeaders`, `SingleBlock` | single-thread mode (`p2p.ts:360-450`) |
| `MultiStart`, `AskMulti`, `NewBatch`, `FinishSync` | `sync()`, the request of `syncLoop`, a turn of `syncLoop`, `finishSync` with its INITIALSYNCDONE event |
| `Fetched`, `FetchFailed` | `onBlockFetched` of a thread |
| `Processed`, `ProcessFailed` | the loop of `processOrderedBlocks` after `processBlock` |
| `ThreadExit` | a worker thread told to shut down ends |
| `Start`, `Stop`, `Exit` | the process (`node/workers/p2p.ts`); an unhandled rejection stops it |

`job[t]` is the height a thread has, `queue` the next one to assign, `buffer` those
that wait, `processing` the one in `addBlock`, `rejected` that it failed. The model
follows a worker up to the moment its multi-thread sync is entered again after
its end (`Reentered`): `StaysSingle` shows that this happens, and what two
importers do to one index afterwards is not modelled.

### SyncElection: who is the syncing node

Each process reads the heartbeat in the state document (`Ask`, `Resume`:
`refreshSyncingNode` and `getSyncingNode`), and registers to write its own: at once
when it has the heartbeat or there is none, else after five minutes
(`registerSyncingNode`, `Delay`). `Nominate` is the compare-and-set of
`selfNominateSyncingNode`; `Resign` is `unregisterSyncingNode`; `Stop` and `Exit` the
end of a process, whose successor may have the same name, as in a container.
Time is counted in ticks of which `Expiry` are the five minutes. `Tick` waits for
the loops and timers of the processes, `Stall` does not: a stalled process has its
loop, its timers and its commands executed arbitrarily late. Instead of the
time that the compare-and-set compares, what was read carries `same`: whether the
stored heartbeat is still the one read.

Left out: the chains and networks of one process are separate elections, and
`P2pManager` only creates the workers.

## 3. What TLC checks

| run | instance | distinct states | properties |
|---|---|---|---|
| `ChainMempool` | 8 blocks in two branches forking above height 2, two relayed transactions in conflict, each mined by a branch; 2 locators | 5.1 million | `SpendsSound`, `MintsSound`, `SpendsComplete`, `ConfirmedSpendStands` |
| `ChainCrash` | one branch of 4 blocks, one relayed transaction, 2 crashes or failures, one headers reply, empty or not, delivered twice | 916,000 | `CrashRepaired`, `SyncConverges` |
| `ChainCrashReorg` | both branches, 2 locators, 2 crashes or failures | 336,000 | `OneBranch`, `IndexInv`, `NextLinks`, `MintsCompleteUnlessCrash`, `ImplementsBranchTip`, `SyncConverges` |
| `WalletLock` | 3 requests, one with a `waitTime`; 1 overrun, 1 late clear, 2 deaths | small | `Exclusive`, `ImplementsMutex`, `NeverStuck` |
| `Proposals` | 2 requests at a time, 2 proposals with one common input, one of which is mutable and the other past the waiting period of removal, 2-of-2 wallet, 1 stale write | 2.3 million | `TypeOK`, `SignedBeforeSent`, `EveryVoteDecides`, `InputsLockedUnlessRace`, `DecisionsStand` |
| `TssKeyGen` | 3 parties, 3 rounds, 2 attempts at a message, 1 request or reply lost | 397,000 | `TypeOK`, `SameMessages`, `SameKey`, `ImplementsLockstep`, `KeyGenEnds` |
| `TssSign` | 2 of 3 parties, all three trying, one with an encrypted key, 2 rounds, 1 request or reply lost | 234,000 | `TypeOK`, `SameMessages`, `OneSignature`, `ImplementsLockstep`, `SigningEnds` |
| `MultiThreadSync` | 3 threads, batches of 4 headers, heights 1 to 6, 2 faults | 430,000 | `TypeOK`, `InOrder`, `Accounted`, `BatchEnds`, `CatchesUp` |
| `SyncElection` | 2 processes, expiry of 2 ticks, a turn of each loop per tick, 2 stalls, 1 stop or crash | 505,000 | `TypeOK`, `OnePrimary`, `OneImporter`, `Renewed`, `TakesOver` |

Three more runs, `ConflictConfirmed`, `SharedInputs` and `StaysSingle`, show
properties that the code violates (below).

**Bounds.**

* *Index.* The code's 30 locators become 2, so that reorgs are deeper than the
  locators reach and everything is imported again from genesis. The two branches
  have the lengths 4 and 5 so that each can win; a conflict, a child of each
  side and a common coinbase are the smallest data where an orphan spend, a lost
  spend and a descendant exist. Two crashes are enough for a crash during the
  repair of the first.
* *Lock and proposals.* Two requests race, which is what every overwritten document
  needs; the wallet and the proposals are the smallest where votes, the common
  input and the waiting period matter.
* *Threshold sessions.* Three parties, so that two messages of a round compete for
  one version while a third party waits; three rounds of key generation, so that
  a party can be a round behind and a round ahead is conceivable. Signing has
  m < n, which is where joins race for the last place. One lost reply
  needs two attempts.
* *Multi-thread sync.* Three threads over batches of four give every order of
  delivery with a thread that gets a second block; two batches and a block
  announced during each phase fit below height 6. Two faults are a failure in
  the recovery of another one.
* *Election.* Two ticks distinguish a heartbeat that is new, old and expired, and
  each of the two processes can be behind once while the other is behind too.

`CHECK_DEADLOCK FALSE` is said where the system may stop: a node
on the network's last tip, proposals whose requests are all served, a session
that ended or whose party is stranded. `WalletLock` and `SyncElection` are checked
for deadlock.

**Fairness.**

* `ChainIndex`: a running handler goes on (the event loop, the database and the
  peers answer), and a new best block of the network is delivered once, at any
  time; nothing is said of later announcements, which the invCache drops. No
  crash, no relayed transaction and no advance of the network is forced.
  `SyncConverges` says that the node then ends idle, with the initial sync recorded,
  and on the network's tip unless it missed that one announcement. Nothing in the
  code brings it there before the next block or a restart (`tipNews`).
* `WalletLock`: time passes, tasks call back, the commands of waiting requests are
  executed. There is none for who gets the lock: the code retries every 50 ms and
  does not queue, so `NeverStuck` says that the lock becomes free again, not that
  everyone gets it.
* `TssKeyGen`, `TssSign`: every party joins and polls (`setInterval`), and the handler
  of a party's request goes on. `KeyGenEnds` and `SigningEnds` are claimed of the
  behaviours where no party is stranded by a lost reply, parties of a key
  generation join in the order of their ids, no signer is listed twice, and no
  signer with an encrypted key lost a post of a later round (`OutOfStep`).
  Each exclusion is a state the code can get into and not out of (see below); in
  all other behaviours, lost requests and races of versions included, the
  session ends.
* `MultiThreadSync`: the process is started again, its event loop goes on, threads
  answer, and a rejection stops the process. `FetchFailed` is not fair and is
  bounded, so that blocks can be fetched in the end. `CatchesUp` excludes the
  re-entry that `StaysSingle` shows, and lets the node stay behind only when a
  block was announced between the answer to its last request for headers and the
  arrival of that answer (`missed`).
* `SyncElection`: processes are started again, their loops and timers run, a process
  that stops resigns and ends, and time passes. Stalls and faults are bounded: they
  cease in the end, without which nobody need ever be the syncing node.
* `TxProposals` has safety properties only.

**Disagreements with the repository's own words.** Three runs show one each:

* `ConflictConfirmed`: `pruneMempool` reads that a coin is held by a relayed
  transaction and invalidates it later by txid only; if its block is imported
  in between, a confirmed transaction and its coins are marked conflicting.
* `SharedInputs`: a `signTx` whose fetch precedes a rejection stores the proposal
  as pending again, next to another one that was published with its inputs.
* `StaysSingle`: `sync()` decides on multi-thread mode, awaits, and calls
  `multiThreadSync.sync()` although the initial sync was completed meanwhile; the
  finished sync starts again beside the single-thread one. There are two ways in:
  `p2p.ts:330-357`, and reading the state before the flag's write (`p2p.ts:364-365`).

**Other observations,** made while modelling:

* Only the first spend operation of a mined transaction is compared with the
  mempool (`transaction.ts:641`); a conflict on another input is overwritten and its
  transaction stays pending. `FirstInput` models it.
* Until the first sync is complete `pruneMempool` returns at once
  (`transaction.ts:634`); what it would have marked stays pending.
* With two late headers replies the index is rolled back to nothing and then takes
  a block at height 0 without its previous block. With crashes one late reply is
  enough to break `OneBranch` for a while, so `OneBranch` is claimed for replies in
  order; `ChainCrash` shows that sync still converges with a late one, unless that
  one is empty and ends a sync that a new block started: the node then stays
  behind until the next block.
* A crash between the deletes of `handleReorg` (`block.ts:172-176`) leaves
  transactions, mints or spends that no later import repairs.
* Two requests read one expired lock (`lock.ts:57`); the second delete removes the
  lock somebody took after the first, and two requests hold it although neither
  ran longer than `lockTime`. `Exclusive` is claimed until such a clear.
* A party of a threshold session that misses the reply to a message that was
  stored is stranded: it computes the round again and is told that the message
  exists, or that the round is done (`tsskey.ts:547`, `tss.ts`).
* `authTssRequest.ts:37` takes place `partyId` of the first round of a key
  generation for the party's message, whose places are the order of arrival. Parties
  that join in another order cannot poll; nothing makes them join in order
  (`packages/bitcore-wallet-service/TSS.md:22` only says that the join code has the
  party's id).
* Joins of a signing session compare the version but do not count it up
  (`storage.ts:1871`): a party can be listed twice and use up a place, or more
  parties than m can be listed.
* A signer with an encrypted key cannot go back to its snapshot: after a failed post
  of a later round `restoreSession` throws inside the `catch` (`tsssign.ts:171, 237-241`),
  the comment of which is "Restore the session to the previous state". The client
  goes on a round ahead, its message is never stored, and the session never ends.
* A block announced while the last, empty reply of a sync is on its way starts no
  sync (`p2p.ts:167`), and later announcements of it are dropped (`p2p.ts:157`): the
  node stays behind until another block is found or it is restarted. `ChainCrash` and
  `MultiThreadSync` reach that state.
* `publishTx` revives a rejected proposal that was created with `refreshOnPublish` or
  `deferNonce`: it is pending again although enough copayers rejected it, nobody
  who voted can vote again, and its inputs are locked (`bws/server.ts:3052, 3086`).
* A sync that starts between the end of another and its write of
  `initialSyncComplete` imports without pruning (`p2p.ts:444-449`).
* `packages/bitcore-wallet-service/README.md:399` says that only the creator can
  delete a proposal, and only without other signatures or rejections;
  `getRemainingDeleteLockTime` (`bws/server.ts:3221`) lets any copayer delete after
  `DELETE_LOCKTIME`, and does not look at rejections.

## 4. What TLAPS proves

The theorems hold for every value of the constants that satisfies the named
assumptions: any finite block tree, mempool, wallet, number of requests,
parties, rounds, threads and processes, and any bounds.

**ChainIndexProofs.** All of it rests on `IndexInvHolds`: the invariant `IndexInv` of
`ChainIndexInv` is inductive under every value of the constants, and each theorem
about the index reads its property from it under the hypotheses that make the
conditional parts apply. The parts are:

* `TypeInv`: the shape of the documents, that a worker's remaining operations
  belong to its own transactions (`JobOK`), that headers are paths of the tree
  (`PathOK`), and that no block is stored higher than it is (`HeightsBounded`), so
  that among processed blocks one is highest and `getLocalTip` finds it.
* `TreeInv`, until a headers reply comes late: the processed blocks are a branch
  and have their heights, the headers still to import start at one of them or at the
  block under import (`CursorOK`), the links are those of the branch.
* `CutDone`, `OnlyCur`, `Onward`: what `handleReorg` deleted of the blocks stays deleted until it
  is over; without a crash the only unprocessed block is the one under import; on
  a tree with one branch nothing is ever cut.
* `AbsentUnspent`, `PendingKnown`, `NoneInvalid`: what the mempool may have
  written to a coin, and that nothing is invalidated unless transactions conflict.
* `DataInv`: every confirmed spend has its block (`SpendsSound`), every processed
  block below the cut has written its mints, spends and transactions
  (`BlocksWritten`), and for the block under import each of them is written or
  still to do (`ImportSoFar`). The last is what makes the others inductive: when the job is
  done nothing is left to do, so `MarkProcessed` may call the block processed; the
  import of another transaction changes neither, because on one branch no transaction is mined
  twice and no coin spent twice (`ValidBranches`).

| theorem | of `Spec` | why the hypotheses |
|---|---|---|
| `TypeCorrect`, `ConfirmedSpendsStand`, `IndexInvHolds` | always | |
| `OneBranchHolds`, `NextLinksHolds`, `Refinement` (to `BranchTip`) | `MaxLate = 0` | a late headers reply can roll the index back and start over at height 0 (section 3) |
| `SpendsSoundHolds`, `MintsSoundHolds`, `SpendsCompleteHolds` | `MaxLate = 0`, and `MaxCrashes = 0` or one branch (`Linear`) | a crash between the commands of `handleReorg` leaves what no later import looks for |
| `MintsCompleteUnlessCrashHolds` | `MaxLate = 0`, `NoRivals` | until the first crash; a relayed conflict can mark a confirmed mint conflicting (`ConflictConfirmed`), and then `BlocksWritten` says only "minted or marked" |
| `CrashRepairedHolds` | `Linear`, `NoRivals` | any number of crashes, failures and late replies; the property itself speaks of no late reply |

Each run satisfies the hypotheses of the theorems about its properties:
`ChainMempool` has no crash and no late reply, `ChainCrash` one branch and one
relayed transaction, `ChainCrashReorg` no relayed transaction and no late reply.

`CHOOSE` (in `LocalTip`, `Head` and `Reply`) is unfolded only next to a step that
proves a witness: `LocalTipFound`, `PathHead`, `HeadGenesis`, `ReplyPath`.

**WalletLockProofs.** `LockTypeCorrect`; `ExclusiveHolds`, inductive together with
the types because it says that a held lock has a live document; and
`MutexImplemented`: until the first overrun or late clear, `WalletLock` is
`WalletMutex`.

**TxProposalsProofs.** The inductive invariant has two
layers. Each document, and each one a handler holds, is consistent in itself
(`Shape`: its status agrees with its votes, unless it is pending because it was
published again; and its approvals are signatures that were accepted); since nobody
writes anything but a step from a document fetched, this survives every
overwriting. And each handler past its checks holds what it checked (`CallInv`).
From this follow `TypeCorrect`, `SignedBeforeSentHolds` and
`EveryVoteDecidesHolds`. `InputsLockedUnlessRaceHolds` adds that the handler
between the check of inputs and its write holds the mutex (`HoldInv`), and that as
long as `stale` is 0 the proposals its three reads looked at have since moved only
where they do not matter: a pending proposal may turn broadcasted after the second
read, and the third one finds it (`PubInv`). `DecisionsStandHolds` needs that too: what
stops a mutable proposal from being published again after its broadcast is that
its own transaction spends its inputs.

**TssRoundsProofs, TssKeyGenProofs, TssSignProofs.** The first has lemmas about the session document: a
push that `_pushMessage` allows keeps one message a sender and complete rounds
below (`RoundsOK`), and is a `Send` of `TssLockstep`. The second proves `KeyGenTypes`,
`KeyGenAgrees`, `KeyGenOneKey` and `KeyGenLockstep`, for any number of parties, rounds,
attempts and faults. While a request holds a snapshot of the version
stored now, it holds the rounds stored now (`SnapInv`), so what it decided on the
snapshot is right of the document (`DocInv`); this is the place where the update's
check of `__v` is needed. What the clients compute from is stored (`ViewInv`) and,
for the rounds they have passed, whole (`ClientInv`, `LiveInv`); `KeyInv` ties the stored
key to a party that has it.

The third proves `SignTypes`, `SignAgrees`, `SignOneSignature` and `SignLockstep` of the
signing session along the same lines. Two things differ. The M signers are not
known beforehand: the first round decides, and who sends later has sent in it
(`PriorInv`, `Nested`), so that a complete round has one message of each of the same
M. And a signer with an encrypted key may have gone on from a message that is not stored:
what a client computes from is stored, or is its own and the only one that can
still be stored (`Pending`), because such a signer sends a round once (`OnceInv`). A client
has taken in each round it passed whole (`Whole`), and a complete round no longer
changes; `SigInv` says that the stored signature is what a party that is done computed.

**MultiThreadSyncProofs.** `SyncTypes`, `SyncInOrder` and `SyncAccounted`, for any
number of threads, batch size and faults. The invariant has three parts besides
the types: until the initial sync was complete the single-thread loop is off
(`ModesInv`); between batches no thread, buffer or loop holds a block
(`QuietInv`); and within a batch (`BatchInv`) every height from `nextProcessHeight`
to the head of the queue is in exactly one place (`Whole`), and
`nextProcessHeight` follows the stored tip until a block fails, which keeps it
where no thread delivers it again. Five lemmas say what happens to `Whole` when
a block is delivered, assigned, taken, stored or failed; the actions cite them.

**SyncElectionProofs.** `ElectionTypes` and `ElectionOnePrimary`, for any number of
processes and any stalls. A process finds that it is the syncing node only
while the stored heartbeat has its name (`Held`): another's name is stored only by
a registration that saw this heartbeat, and such a registration is due only when the
heartbeat has expired (`Timed`). Since what the syncing node read of its heartbeat
is no younger than the stored one (`Aged`), it finds by then that it is not. `Read`
says the same of an answer on its way.

`ElectionOneImporter` and `ElectionRenewed` assume `Expiry > 1`: a heartbeat outlives a
tick, as five minutes do the half second of the loop (with `Expiry = 1` a
heartbeat expires before its owner's next turn, and TLC finds `Renewed` violated).
Their invariant is `KInv`. A process that holds itself for the syncing node is
importing, and one that is down imports nothing (`Knows`). While nothing stalled, a running
process that imports, or is about to, has its name in the stored heartbeat
and in every answer on its way, and before its turn in a tick the heartbeat is new or a
registration that saw it is due in this tick (`Kept`).

**Model-checked only.** Every safety invariant, action property and refinement that a
passing run checks is also a theorem. What stays with TLC is liveness, which needs
fairness and `ENABLED` and is out of the prover's reach: `SyncConverges`, `NeverStuck`, `KeyGenEnds`,
`SigningEnds`, `BatchEnds`, `CatchesUp`, `TakesOver`. The three properties that the code
violates (`NoConfirmedConflict`, `InputsLocked`, `StaysSingle`) have their
counterexamples in the runs.

## 5. Not modelled, and why

* **Pruning service** (`node/services/pruning.ts`): it works on old mempool
  transactions over the state of `ChainIndex`. The commands of its invalidation are
  those of `ChainIndex` (`InvalidateTx` and the following), where
  `ConflictConfirmed` shows what they do to a mined transaction. Its removal
  asks again, with each update, that what it changes is pending. A child relayed between its
  check and its removal is a hazard that no property covers.
* **Blockchain monitor** (`bws/blockchainmonitor.ts`): timers around one more
  writer of proposals that it read earlier, which `TxProposals` has in `signTx` and
  `rejectTx`.
* **Fork import, account chains' proposals**: `parentChain`, nonces
  and fee replacement; each is a variant of a handler that is modelled, with
  data of its own.
* **Wallets, copayers and addresses**: `joinWallet` and `createAddress` run whole
  under the lock of `WalletLock`.
* **bitcore-p2p**: connections and an address list without a decision that others
  rely on; duplicated and lost messages are in `ChainIndex`. Two places to
  look at when it is modelled: `_deprioritizeAddr` splices while it walks
  (`pool.js:266-278`), and the second disconnect event of a peer in
  `_removeConnectedPeer`.
* **Unique coins**: upserts by txid and index over an index that is not unique
  (`coin.ts:40`) can insert twice; `ChainIndex` has one document per coin.
* **Account chains' providers, RPC adapters, API, clients, notifications, front
  end**: input and output, or sequential calls.
* **bitcore-lib and its forks, crypto-wallet-core, bitcore-mnemonic**: scripts,
  encodings and cryptography; the domain is data that a model
  checker enumerates no better than a test.
