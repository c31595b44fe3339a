------------------------------ MODULE ChainData ------------------------------
(***************************************************************************)
(* The immutable data a UTXO chain is made of, as the indexer of           *)
(* bitcore-node sees it: a tree of blocks (forks included), the            *)
(* transactions of each block, and the coins (transaction outputs) each    *)
(* transaction mints and spends.  Hashes, scripts, values and fees are     *)
(* abstracted: a block, a transaction and a coin are their identities.     *)
(***************************************************************************)
EXTENDS Integers

CONSTANTS
    Block,       \* every block of every branch
    Genesis,     \* the root of the tree
    NoBlock,     \* '' in nextBlockHash, undefined for a missing document
    Parent,      \* header.prevHash
    Height,      \* the distance from Genesis
    Chain,       \* Chain[b]: b and its ancestors
    Tx,          \* every transaction
    NoTx,        \* '' or null in spentTxid and replacedByTxid
    TxsOf,       \* block.transactions
    Coin,        \* every output, (mintTxid, mintIndex)
    Minter,      \* mintTxid of a coin
    Inputs,      \* the coins a transaction spends; none for a coinbase
    FirstInput   \* tx.inputs[0] of a transaction that is no coinbase

ASSUME BlockTypes ==
    /\ Genesis \in Block
    /\ NoBlock \notin Block
    /\ Parent \in [Block -> Block \cup {NoBlock}]
    /\ Parent[Genesis] = NoBlock
    /\ Height \in [Block -> Nat]
    /\ Height[Genesis] = 0
    /\ Chain \in [Block -> SUBSET Block]

\* Chain is the ancestor relation of the tree and Height its depth.
ASSUME BlockTree ==
    /\ \A b \in Block \ {Genesis} :
          /\ Parent[b] \in Block
          /\ Height[b] = Height[Parent[b]] + 1
          /\ Chain[b] = Chain[Parent[b]] \cup {b}
    /\ Chain[Genesis] = {Genesis}
    /\ \A b \in Block : Genesis \in Chain[b]
    /\ \A b \in Block : \A a \in Chain[b] :
          /\ Chain[a] \subseteq Chain[b]
          /\ Height[a] <= Height[b]
          /\ \A c \in Chain[b] :
                /\ Height[a] <= Height[c] => a \in Chain[c]
                /\ Height[a] = Height[c] => a = c
          /\ a # b => \E c \in Chain[b] : c # Genesis /\ Parent[c] = a

\* The tree is finite: among any blocks one is highest.
ASSUME FiniteTree ==
    \A S \in SUBSET Block : S # {} => \E b \in S : \A x \in S : Height[x] <= Height[b]

ASSUME TxTypes ==
    /\ NoTx \notin Tx
    /\ TxsOf \in [Block -> SUBSET Tx]
    /\ Minter \in [Coin -> Tx]
    /\ Inputs \in [Tx -> SUBSET Coin]
    /\ FirstInput \in [{t \in Tx : Inputs[t] # {}} -> Coin]
    /\ \A t \in Tx : Inputs[t] # {} => FirstInput[t] \in Inputs[t]

\* Consensus: on one branch no transaction is mined twice, no coin is spent
\* twice, and a coin is spent at or above the block that mints it.
ASSUME ValidBranches ==
    \A b \in Block :
        /\ \A a, c \in Chain[b] : TxsOf[a] \cap TxsOf[c] # {} => a = c
        /\ \A t, u \in UNION {TxsOf[a] : a \in Chain[b]} :
              Inputs[t] \cap Inputs[u] # {} => t = u
        /\ \A a \in Chain[b] : \A t \in TxsOf[a] : \A i \in Inputs[t] :
              \E c \in Chain[a] : Minter[i] \in TxsOf[c]

-----------------------------------------------------------------------------

\* isCoinbase(): a coinbase spends no coin of the index.
IsCoinbase(t) == Inputs[t] = {}

\* The outputs of the transactions ts.
OutputsOf(ts) == {c \in Coin : Minter[c] \in ts}

\* The transactions of the branch that ends in b.
BranchTxs(b) == UNION {TxsOf[a] : a \in Chain[b]}

\* Two transactions that spend a common coin: at most one can confirm.
Conflict(t, u) == t # u /\ Inputs[t] \cap Inputs[u] # {}
=============================================================================
