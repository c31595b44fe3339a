---------------------------- MODULE MultiThreadSync ----------------------------
(***************************************************************************)
(* The block sync of a UTXO chain in a P2P worker of bitcore-node, between *)
(* its two importers: UtxoMultiThreadSync (modules/bitcoin/sync.ts), whose *)
(* threads fetch the blocks of a batch of headers in any order while one   *)
(* loop processes them by height, and the single-thread loop of            *)
(* BitcoinP2PWorker.sync (p2p.ts) that takes over when the initial sync is *)
(* complete.  The worker may be stopped, or crash, and start again.        *)
(*                                                                         *)
(* A block is its height.  The genesis block is stored, and addBlock is    *)
(* one step (ChainIndex models it).  A request for headers and its reply   *)
(* are two, so that a block may be announced in between.                   *)
(***************************************************************************)
EXTENDS Integers, FiniteSets

CONSTANTS
    Thread,      \* the worker threads of a process
    NoThread,    \* nobody awaits the processing loop
    FirstTip,    \* height of the tip stored at first
    MaxHeaders,  \* headers in a reply of the network (2000)
    MaxHeight,   \* bound: height the network gets to
    MaxFaults    \* bound: failed fetches, failed blocks, stops and crashes

ASSUME SyncAssumption ==
    /\ IsFiniteSet(Thread) /\ Thread # {} /\ NoThread \notin Thread
    /\ FirstTip \in Nat /\ MaxHeight \in Nat
    /\ MaxHeaders \in Nat \ {0}
    /\ MaxFaults \in Nat

VARIABLES
    netTip,       \* height of the network
    tip,          \* height of the processed tip in the database
    savedDone,    \* state.initialSyncComplete in the database
    up,           \* "down", "running", or "stopping" after stop()
    \* BitcoinP2PWorker
    memDone,      \* initialSyncComplete in memory
    listening,    \* the once('INITIALSYNCDONE') handler has not run
    saving,       \* initialSyncComplete is on its way to the database
    entering,     \* sync() is before multiThreadSync.sync(), with isSyncing set
    single,       \* the single-thread loop: "off", "state", "headers", "asked" or "blocks"
    block,        \* the block it is at
    lastBlock,    \* the last one it has a header of
    \* UtxoMultiThreadSync
    mt,           \* "off" (syncing unset), "start", "headers", "asked" or "batch"
    threads,      \* threads in its list
    leaving,      \* they were told to shut down
    job,          \* the block each thread was given and did not deliver, or 0
    queue,        \* next block of headerQueue to be assigned
    target,       \* batchTargetHeight
    next,         \* nextProcessHeight
    current,      \* currentHeight
    buffer,       \* blockBuffer
    processing,   \* the block in processBlock, or 0: isProcessing unset
    owner,        \* whose onBlockFetched awaits processOrderedBlocks
    rejected,     \* it was rejected, and nobody handles that
    \* the network's answers
    reply,        \* how many headers the reply on its way holds
    missed,       \* a block was announced after the reply was sent
    faults

stored == <<netTip, tip, savedDone>>
worker == <<memDone, listening, saving, entering, single, block, lastBlock>>
pool == <<threads, leaving>>
answer == <<reply, missed>>
batch == <<job, queue, target, next, current, buffer, processing, owner, rejected>>
vars == <<netTip, tip, savedDone, up, memDone, listening, saving, entering, single, block,
          lastBlock, mt, threads, leaving, job, queue, target, next, current, buffer,
          processing, owner, rejected, reply, missed, faults>>

Init ==
    /\ netTip = FirstTip /\ tip = FirstTip /\ savedDone = FALSE
    /\ up = "down"
    /\ memDone = FALSE /\ listening = TRUE /\ saving = FALSE
    /\ entering = FALSE
    /\ single = "off" /\ block = 0 /\ lastBlock = 0
    /\ mt = "off"
    /\ threads = {} /\ leaving = FALSE
    /\ job = [t \in Thread |-> 0]
    /\ queue = 0 /\ target = 0 /\ next = 0 /\ current = 0
    /\ buffer = {} /\ processing = 0 /\ owner = NoThread /\ rejected = FALSE
    /\ reply = 0 /\ missed = FALSE
    /\ faults = 0

Fault == faults < MaxFaults /\ faults' = faults + 1

-----------------------------------------------------------------------------
(* BitcoinP2PWorker.                                                        *)

\* Mutant: in single-thread mode only the worker's start syncs.
Sync_AtStart ==
    IF entering \/ memDone THEN UNCHANGED <<entering, single>>
    ELSE entering' = TRUE /\ UNCHANGED single

\* sync(): nothing while isSyncing, else multi-thread or single-thread mode.
Sync ==
    IF entering \/ single # "off" THEN UNCHANGED <<entering, single>>
    ELSE IF ~memDone THEN entering' = TRUE /\ UNCHANGED single
    ELSE single' = "state" /\ UNCHANGED entering

\* The worker starts as the syncing node (refreshSyncingNode).
Start ==
    /\ up = "down"
    /\ up' = "running"
    /\ entering' = TRUE
    /\ UNCHANGED <<stored, memDone, listening, saving, single, block, lastBlock, mt, pool, batch,
                   answer, faults>>

\* peerblock: the network has a new block and a peer sends it, once: it stays in
\* the inventory cache.  While headers are asked for no sync starts, or the one
\* that starts finds the multi-thread sync running.
Announce ==
    /\ netTip < MaxHeight
    /\ netTip' = netTip + 1
    /\ IF up = "running" THEN Sync ELSE UNCHANGED <<entering, single>>
    /\ missed' = (missed \/ single = "asked" \/ mt = "asked")
    /\ UNCHANGED <<tip, savedDone, up, memDone, listening, saving, block, lastBlock, mt, pool,
                   batch, reply, faults>>

\* sync() got to multiThreadSync.sync(), which returns when it is syncing.
EnterMultiThread ==
    /\ up = "running" /\ entering
    /\ entering' = FALSE
    /\ mt' = IF mt = "off" THEN "start" ELSE mt
    /\ UNCHANGED <<stored, up, memDone, listening, saving, single, block, lastBlock, pool, batch,
                   answer, faults>>

\* The INITIALSYNCDONE handler, or the end of single-thread mode, has saved.
Saved ==
    /\ up # "down" /\ saving
    /\ saving' = FALSE
    /\ savedDone' = TRUE
    /\ UNCHANGED <<netTip, tip, up, memDone, listening, entering, single, block, lastBlock, mt,
                   pool, batch, answer, faults>>

\* Single-thread mode reads the state again.
ReadState ==
    /\ up # "down" /\ single = "state"
    /\ memDone' = savedDone
    /\ single' = "headers"
    /\ UNCHANGED <<stored, up, listening, saving, entering, block, lastBlock, mt, pool, batch,
                   answer, faults>>

Least(m, n) == IF m <= n THEN m ELSE n

\* A request for headers: the network answers with those that follow the tip.
Request ==
    /\ reply' = IF netTip <= tip THEN 0 ELSE Least(MaxHeaders, netTip - tip)
    /\ missed' = FALSE

\* The loop of sync() asks for headers.
AskSingle ==
    /\ up # "down" /\ single = "headers"
    /\ single' = "asked"
    /\ Request
    /\ UNCHANGED <<stored, up, memDone, listening, saving, entering, block, lastBlock, mt, pool,
                   batch, faults>>

\* The reply: no more headers end the sync, and isSyncing is unset.
SingleHeaders ==
    /\ up # "down" /\ single = "asked"
    /\ IF reply = 0
       THEN /\ single' = "off"
            /\ saving' = TRUE
            /\ UNCHANGED <<block, lastBlock>>
       ELSE /\ single' = "blocks"
            /\ block' = tip + 1
            /\ lastBlock' = tip + reply
            /\ UNCHANGED saving
    /\ UNCHANGED <<stored, up, memDone, listening, entering, mt, pool, batch, answer, faults>>

\* Mutant: the genesis block may be taken back as well.
TakenBack_Genesis == (0 - 1) .. tip

\* handleReorg takes the tip back below the block the branches fork from.  It
\* spares the genesis block here: a fork from that one is left to ChainIndex.
TakenBack == 0 .. tip

\* addBlock throws: the database fails it, or the network was reorganised.
AddBlockFails ==
    /\ Fault
    /\ tip' \in TakenBack

SingleBlock ==
    /\ up # "down" /\ single = "blocks"
    /\ \/ /\ block = tip + 1
          /\ tip' = block
          /\ IF block = lastBlock
             THEN single' = "headers" /\ block' = 0 /\ lastBlock' = 0
             ELSE block' = block + 1 /\ UNCHANGED <<single, lastBlock>>
          /\ UNCHANGED <<entering, faults>>
       \* isSyncing is unset, and sync() called again
       \/ /\ AddBlockFails
          /\ entering' = ~memDone
          /\ single' = IF memDone THEN "state" ELSE "off"
          /\ block' = 0 /\ lastBlock' = 0
    /\ UNCHANGED <<netTip, savedDone, up, memDone, listening, saving, mt, pool, batch, answer>>

-----------------------------------------------------------------------------
(* UtxoMultiThreadSync.                                                     *)

\* sync() up to its loop: the local tip, and new threads if there are none.
MultiStart ==
    /\ up = "running" /\ mt = "start"
    /\ mt' = "headers"
    /\ current' = tip
    /\ IF threads = {} THEN threads' = Thread /\ leaving' = FALSE ELSE UNCHANGED pool
    /\ UNCHANGED <<stored, up, worker, job, queue, target, next, buffer, processing, owner,
                   rejected, answer, faults>>

\* syncLoop asks for headers.
AskMulti ==
    /\ up = "running" /\ mt = "headers"
    /\ mt' = "asked"
    /\ Request
    /\ UNCHANGED <<stored, up, worker, pool, batch, faults>>

\* finishSync, when there are no more headers.
FinishSync ==
    /\ up = "running" /\ mt = "asked"
    /\ reply = 0
    /\ mt' = "off"
    /\ leaving' = TRUE
    /\ IF listening
       THEN memDone' = TRUE /\ saving' = TRUE /\ listening' = FALSE
       ELSE UNCHANGED <<memDone, saving, listening>>
    /\ UNCHANGED <<stored, up, entering, single, block, lastBlock, threads, batch, answer,
                   faults>>

\* assignNextBlock of every thread in the list: the first blocks of the queue.
Kicked(kicks, first, last) ==
    /\ \A t \in Thread \ threads : kicks[t] = job[t]
    /\ {kicks[t] : t \in threads} \ {0} = first .. Least(first + Cardinality(threads) - 1, last)
    /\ \A s, t \in threads : kicks[s] = kicks[t] => s = t \/ kicks[s] = 0

\* One turn of syncLoop: a batch of headers becomes the queue.
NewBatch ==
    /\ up = "running" /\ mt = "asked"
    /\ reply > 0
    /\ target' = tip + reply
    /\ next' = tip + 1
    /\ queue' = Least(tip + Cardinality(threads), target') + 1
    /\ \E kicks \in [Thread -> 0 .. target'] :
          Kicked(kicks, tip + 1, target') /\ job' = kicks
    /\ mt' = IF current >= target' THEN "headers" ELSE "batch"
    /\ UNCHANGED <<stored, up, worker, pool, current, buffer, processing, owner, rejected, answer,
                   faults>>

\* assignNextBlock
Assign(t) ==
    IF t \in Thread /\ queue <= target /\ up = "running"
    THEN job' = [job EXCEPT ![t] = queue] /\ queue' = queue + 1
    ELSE job' = [s \in Thread |-> IF s = t THEN 0 ELSE job[s]] /\ UNCHANGED queue

\* The loop of processOrderedBlocks looks for the next block; when it is not
\* there, the thread of the caller is given another one.
Turn(n, blocks, caller) ==
    IF n \in blocks /\ up = "running"
    THEN /\ processing' = n
         /\ buffer' = blocks \ {n}
         /\ owner' = caller
         /\ job' = [s \in Thread |-> IF s = caller THEN 0 ELSE job[s]]
         /\ UNCHANGED queue
    ELSE /\ processing' = 0
         /\ buffer' = blocks
         /\ owner' = NoThread
         /\ Assign(caller)

\* onBlockFetched with a block.
Fetched(t) ==
    /\ up = "running"
    /\ t \in threads /\ ~leaving /\ job[t] # 0
    /\ IF processing # 0
       THEN buffer' = buffer \cup {job[t]} /\ Assign(t) /\ UNCHANGED <<processing, owner>>
       ELSE Turn(next, buffer \cup {job[t]}, t)
    /\ UNCHANGED <<stored, up, worker, mt, pool, target, next, current, rejected, answer, faults>>

\* Mutant: the thread is left without a block.
Retried_Never(t) == job' = [job EXCEPT ![t] = 0] /\ UNCHANGED queue

\* Mutant: a thread that could not fetch its block goes on with the next.
Retried_Next(t) == Assign(t)

\* The thread gets the same block again.
Retried(t) == UNCHANGED <<job, queue>>

\* onBlockFetched with an error.
FetchFailed(t) ==
    /\ up = "running"
    /\ t \in threads /\ ~leaving /\ job[t] # 0
    /\ Fault
    /\ Retried(t)
    /\ UNCHANGED <<stored, up, worker, mt, pool, target, next, current, buffer, processing, owner,
                   rejected, answer>>

\* processBlock has stored the block.
Processed ==
    /\ up # "down"
    /\ processing # 0 /\ processing = tip + 1
    /\ tip' = processing
    /\ current' = next
    /\ next' = next + 1
    /\ mt' = IF mt = "batch" /\ current' >= target THEN "headers" ELSE mt
    /\ Turn(next', buffer, owner)
    /\ UNCHANGED <<netTip, savedDone, up, worker, pool, target, rejected, answer, faults>>

\* Mutant: the height counts as processed although its block failed.
AfterFailure_Next == next + 1

\* nextProcessHeight stays: the block that failed is no longer in the buffer.
AfterFailure == next

ProcessFailed ==
    /\ up # "down"
    /\ processing # 0
    /\ AddBlockFails
    /\ next' = AfterFailure
    /\ Turn(next', buffer, NoThread)
    /\ rejected' = TRUE
    /\ UNCHANGED <<netTip, savedDone, up, worker, mt, pool, target, current, answer>>

ThreadExit(t) ==
    /\ leaving /\ t \in threads
    /\ threads' = threads \ {t}
    /\ UNCHANGED <<stored, up, worker, mt, leaving, batch, answer, faults>>

-----------------------------------------------------------------------------
(* The process (workers/p2p.ts).                                            *)

\* stop(), by a signal or because a rejection was not handled.
Stop ==
    /\ up = "running"
    /\ (rejected /\ UNCHANGED faults) \/ Fault
    /\ up' = "stopping"
    /\ leaving' = TRUE
    /\ UNCHANGED <<stored, worker, mt, threads, batch, answer>>

\* The process ends, 30 s after stop() at the latest, or it crashes.
Exit ==
    /\ up # "down"
    /\ (up = "stopping" /\ UNCHANGED faults) \/ Fault
    /\ up' = "down"
    /\ memDone' = FALSE /\ listening' = TRUE /\ saving' = FALSE
    /\ entering' = FALSE
    /\ single' = "off" /\ block' = 0 /\ lastBlock' = 0
    /\ mt' = "off"
    /\ threads' = {} /\ leaving' = FALSE
    /\ job' = [t \in Thread |-> 0]
    /\ queue' = 0 /\ target' = 0 /\ next' = 0 /\ current' = 0
    /\ buffer' = {} /\ processing' = 0 /\ owner' = NoThread /\ rejected' = FALSE
    /\ reply' = 0 /\ missed' = FALSE
    /\ UNCHANGED stored

-----------------------------------------------------------------------------
P2P == EnterMultiThread \/ Saved \/ ReadState \/ AskSingle \/ SingleHeaders \/ SingleBlock

MultiThread == MultiStart \/ AskMulti \/ FinishSync \/ NewBatch \/ Processed \/ ProcessFailed

\* The multi-thread sync was entered again after its end: the model follows the
\* two importers no further.
Reentered == mt # "off" /\ ~listening

Next ==
    \/ Start \/ Stop \/ Exit
    \/ /\ ~Reentered
       /\ \/ Announce \/ P2P \/ MultiThread
          \/ \E t \in Thread : Fetched(t) \/ FetchFailed(t) \/ ThreadExit(t)

Spec == Init /\ [][Next]_vars

\* The process is started again, its event loop goes on, threads answer and
\* exit, and a rejection stops the process.
Fairness ==
    /\ WF_vars(Start) /\ WF_vars(~Reentered /\ P2P) /\ WF_vars(~Reentered /\ MultiThread)
    /\ WF_vars(rejected /\ Stop) /\ WF_vars(up = "stopping" /\ Exit)
    /\ \A t \in Thread : WF_vars(~Reentered /\ Fetched(t))

FairSpec == Spec /\ Fairness

-----------------------------------------------------------------------------
(* Properties. *)

Heights == 0 .. MaxHeight + MaxHeaders + 1

\* Type invariant.
TypeOK ==
    /\ netTip \in Nat /\ tip \in Nat /\ savedDone \in BOOLEAN
    /\ up \in {"down", "running", "stopping"}
    /\ memDone \in BOOLEAN /\ listening \in BOOLEAN /\ saving \in BOOLEAN
    /\ entering \in BOOLEAN
    /\ single \in {"off", "state", "headers", "asked", "blocks"}
    /\ block \in Nat /\ lastBlock \in Nat
    /\ mt \in {"off", "start", "headers", "asked", "batch"}
    /\ threads \in SUBSET Thread /\ leaving \in BOOLEAN
    /\ job \in [Thread -> Nat]
    /\ queue \in Nat /\ target \in Nat /\ next \in Nat /\ current \in Nat
    /\ buffer \in SUBSET Nat /\ processing \in Nat
    /\ owner \in Thread \cup {NoThread} /\ rejected \in BOOLEAN
    /\ reply \in Nat /\ missed \in BOOLEAN
    /\ faults \in Nat

\* Blocks reach the database by height: whatever order the threads deliver in
\* and whatever fails, the block the initial sync processes is the one that
\* follows the tip.
InOrder == processing # 0 /\ listening => processing = tip + 1

Given == {job[t] : t \in Thread} \ {0}

\* No block of a batch is lost or fetched twice: each one that is not stored
\* is in the queue, with exactly one thread, in the buffer, being processed or
\* the one that failed.
Accounted ==
    mt = "batch" /\ listening =>
        /\ next .. queue - 1 =
              Given \cup buffer \cup ({processing} \ {0}) \cup (IF rejected THEN {next} ELSE {})
        /\ Given \cap buffer = {} /\ processing \notin Given \cup buffer
        /\ rejected => next \notin Given \cup buffer
        /\ \A s, t \in Thread : job[s] = job[t] /\ job[s] # 0 => s = t

\* A batch of the initial sync ends, although fetches fail and blocks come in
\* any order.
BatchEnds == (mt = "batch" /\ listening) ~> mt # "batch"

\* Unless the multi-thread sync is entered again, the end of the initial sync is
\* recorded and what is announced is imported, whatever stops or fails, except a
\* block that arrives after the reply that ends a sync was sent: it waits for
\* the next one.
CatchesUp == []~Reentered => <>[](savedDone /\ (tip = netTip \/ missed))

\* "should use single-thread sync when initial sync is already complete"
\* (test/unit/modules/bitcoin/p2p.test.ts:271).
StaysSingle == [][~listening /\ mt = "off" => mt' = "off"]_vars
==============================================================================
