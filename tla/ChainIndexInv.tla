---------------------------- MODULE ChainIndexInv -----------------------------
(***************************************************************************)
(* The inductive invariants behind the theorems of ChainIndexProofs, in a  *)
(* module of their own so that TLC can check them too.  TypeInv holds      *)
(* whatever the bounds are; BranchInv holds until a headers reply answers  *)
(* another request than the outstanding one (lates = 0); what the blocks   *)
(* write to the coins and transactions is known as long as, besides, no    *)
(* crash can have left the writes of an abandoned branch (Whole).          *)
(***************************************************************************)
EXTENDS ChainIndex

\* The abstract index the tip of the processed blocks implements.
Index == INSTANCE BranchTip WITH tip <- LocalTip
ImplementsBranchTip == Index!Spec

\* A job's remaining work belongs to its transactions and phase, and the
\* importer of blocks has one only while it is importing.
PhaseWork(w, ph) ==
    CASE ph = "mint"  -> OutputsOf(JobTxs(w))
      [] ph = "prune" -> Spenders(w)
      [] ph = "spend" -> SpendOps(w)
      [] ph = "tx"    -> JobTxs(w)
      [] OTHER        -> {}

JobOK ==
    /\ \A w \in Worker :
          /\ job[w].todo \subseteq PhaseWork(w, job[w].phase)
          /\ job[w].updates # {} => job[w].phase = "prune" /\ job[w].invalid \in Tx
    /\ job[Sync].phase # "idle" => pc = "import"
    /\ pc \in {"insert", "link", "import", "reorg"} => cur \in Block

\* Headers come in paths: the branch of a block x above a block f of it.
\* handleGenesisBlock puts a single block in their place.
IsPath(hs) == \E x \in Block : \E f \in Chain[x] : hs = Chain[x] \ Chain[f]

PathOK ==
    /\ IsPath(headers) \/ headers = {Genesis}
    /\ IsPath(reply)
    /\ \A hs \in late : IsPath(hs)

\* A coin that is not unspent names its spender.
SpentNamed == \A c \in Coin : coins[c].spentHeight # UNSPENT => coins[c].spentTxid \in Tx

\* No block is stored higher than it is in the tree: heights are counted up
\* from a stored parent, or start over at 0.  So one is the greatest, and
\* getLocalTip finds a tip whenever a block is processed.
HeightsBounded == \A b \in Block : blocks[b].height <= Height[b]

TypeInv == TypeOK /\ JobOK /\ PathOK /\ SpentNamed /\ HeightsBounded

-----------------------------------------------------------------------------
\* Every stored block has its height, and the processed ones are a branch.
HeightsOK == \A b \in Block : BlockStored(b) => blocks[b].height = Height[b]

IsBranch == Processed = {} \/ \E t \in Block : Processed = Chain[t]

\* The headers left are the path from f, exclusive, to some block.
PathFrom(f) == \E x \in Block : f \in Chain[x] /\ headers = Chain[x] \ Chain[f]

\* The block being imported is Genesis, or extends the tip and is followed by
\* the headers left.
AtCursor ==
    \/ cur = Genesis /\ headers = {}
    \/ cur # Genesis /\ Processed = Chain[Parent[cur]] /\ PathFrom(cur)

CursorOK ==
    /\ pc \in {"genesis", "awaitGenesis"} => Processed \subseteq {Genesis}
    /\ pc \in {"headers", "awaitHeaders"} => Processed # {}
    /\ pc = "awaitGenesis" => \E x \in Block : reply = Chain[x] \ Chain[Genesis] /\ x # Genesis
    /\ pc = "awaitHeaders" =>
          \E x \in Block : \E f \in Processed \cap Chain[x] : reply = Chain[x] \ Chain[f]
    /\ pc = "next" =>
          \/ headers = {Genesis} /\ Processed \subseteq {Genesis}
          \/ \E f \in Processed : PathFrom(f)
    /\ pc = "insert" => AtCursor /\ (cur = Genesis => Processed \subseteq {Genesis})
    /\ pc \in {"link", "import"} =>
          AtCursor /\ BlockStored(cur) /\ (cur = Genesis => Processed = {})
    /\ pc = "reorg" /\ "blocks" \in deletes =>
          cur # Genesis /\ Parent[cur] \in Processed /\ floor = Height[Parent[cur]]

NetOK == netTip # Genesis

BranchInv == HeightsOK /\ IsBranch /\ CursorOK /\ NetOK
IInv == TypeInv /\ BranchInv

\* The block being imported is linked from the one before it.
Linked == pc = "import" /\ cur # Genesis => blocks[Parent[cur]].next = cur

TreeInv == lates = 0 => BranchInv /\ Linked /\ NextLinks

\* What handleReorg has deleted of the blocks stays deleted until it is over.
CutDone ==
    pc = "reorg" /\ "blocks" \notin deletes =>
        \A b \in Block : BlockStored(b) => blocks[b].height < floor

\* Only a crash leaves a block unprocessed that is not being imported.
OnlyCur ==
    crashes = 0 =>
        \A b \in Block : BlockStored(b) => b \in Processed \/ (b = cur /\ pc \in {"link", "import"})

-----------------------------------------------------------------------------
\* All blocks are on one branch.
Linear == \A a, b \in Block : a \in Chain[b] \/ b \in Chain[a]

\* On a single branch the node only follows the network: nothing is ever cut.
Onward ==
    Linear /\ lates = 0 =>
        /\ pc # "reorg"
        /\ Processed \cup headers \cup reply \subseteq Chain[netTip]
        /\ cur \in Chain[netTip] \cup {NoBlock}
        /\ pc = "next" =>
              \/ headers = {Genesis}
              \/ \E f \in Block : Processed = Chain[f] /\ PathFrom(f)
        /\ pc = "awaitHeaders" =>
              \E f, x \in Block : /\ Processed = Chain[f] /\ f \in Chain[x]
                                /\ reply = Chain[x] \ Chain[f]

\* No reply came late, and no crash can have left what a block wrote that is
\* then abandoned.
Whole == lates = 0 /\ (crashes = 0 \/ Linear)

-----------------------------------------------------------------------------
\* Only a mint stores a coin, and it stores it unspent.
AbsentUnspent == \A c \in Coin : ~CoinStored(c) => coins[c].spentHeight = UNSPENT

\* A pending spend is that of a relayed transaction.
PendingKnown ==
    \A c \in Coin : coins[c].spentHeight = PENDING =>
        coins[c].spentTxid \in Mempool /\ c \in Inputs[coins[c].spentTxid]

\* The relayed transactions conflict with each other and with the mined ones
\* in nothing: then none is ever invalidated.
NoRivals ==
    \A t \in Mempool : \A u \in Mempool \cup UNION {TxsOf[b] : b \in Block} : ~Conflict(t, u)

NoneInvalid == NoRivals => \A w \in Worker : job[w].updates = {}

\* What the import of b writes of its transaction t; a rival of the mempool
\* may mark the mint and the transaction conflicting.
Minted(b, c) ==
    \/ coins[c].mintHeight = Height[b]
    \/ ~NoRivals /\ coins[c].mintHeight = CONFLICTING

SpentBy(b, t, c) == coins[c].spentTxid = t /\ coins[c].spentHeight = Height[b]

Recorded(b, t) ==
    \/ txs[t].blockHeight = Height[b]
    \/ ~NoRivals /\ txs[t].blockHeight = CONFLICTING

Written(b, t) ==
    /\ \A c \in OutputsOf({t}) : Minted(b, c)
    /\ \A c \in Inputs[t] : SpentBy(b, t, c)
    /\ Recorded(b, t)

BlocksWritten ==
    \A b \in Processed : Settled(Height[b]) => \A t \in TxsOf[b] : Written(b, t)

\* What the import under way has not written yet is what its job has to do.
ToMint(c) == job[Sync].phase = "mint" /\ c \in job[Sync].todo

ToSpend(t, c) ==
    \/ job[Sync].phase \in {"mint", "prune"}
    \/ job[Sync].phase = "spend" /\ <<t, c>> \in job[Sync].todo

ToRecord(t) ==
    \/ job[Sync].phase \in {"mint", "prune", "spend"}
    \/ job[Sync].phase = "tx" /\ t \in job[Sync].todo

ImportSoFar ==
    pc = "import" =>
        \A t \in TxsOf[cur] :
            /\ \A c \in OutputsOf({t}) : Minted(cur, c) \/ ToMint(c)
            /\ \A c \in Inputs[t] : SpentBy(cur, t, c) \/ ToSpend(t, c)
            /\ Recorded(cur, t) \/ ToRecord(t)

DataInv == Whole => SpendsSound /\ BlocksWritten /\ ImportSoFar

IndexInv ==
    /\ TypeInv /\ TreeInv /\ CutDone /\ OnlyCur /\ Onward
    /\ AbsentUnspent /\ PendingKnown /\ NoneInvalid
    /\ DataInv
=============================================================================
