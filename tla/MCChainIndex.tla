----------------------------- MODULE MCChainIndex -----------------------------
(***************************************************************************)
(* Instances of ChainIndex for TLC.  Two branches fork above a2:           *)
(*                                                                         *)
(*     g -- a1 -- a2 -- a3 -- a4       a3 mines t1, a4 its child t3        *)
(*                  \                                                      *)
(*                   b3 -- b4 -- b5    b3 mines t2, which conflicts with   *)
(*                                     t1; b5 mines t4, a child of t2      *)
(*                                                                         *)
(* a1 mines the coinbase cb, whose coin c0 t1 and t2 both spend.           *)
(***************************************************************************)
EXTENDS ChainIndexInv, TLC

CONSTANTS g, a1, a2, a3, a4, b3, b4, b5, cb, t1, t2, t3, t4, c0, d1, d2, d3

AllParent == (g :> NoBlock) @@ (a1 :> g) @@ (a2 :> a1) @@ (a3 :> a2) @@ (a4 :> a3)
            @@ (b3 :> a2) @@ (b4 :> b3) @@ (b5 :> b4)
AllHeight == (g :> 0) @@ (a1 :> 1) @@ (a2 :> 2) @@ (a3 :> 3) @@ (a4 :> 4)
            @@ (b3 :> 3) @@ (b4 :> 4) @@ (b5 :> 5)
MCTrunk  == {g, a1, a2}
AllChain == (g :> {g}) @@ (a1 :> {g, a1}) @@ (a2 :> MCTrunk)
            @@ (a3 :> MCTrunk \cup {a3}) @@ (a4 :> MCTrunk \cup {a3, a4})
            @@ (b3 :> MCTrunk \cup {b3}) @@ (b4 :> MCTrunk \cup {b3, b4})
            @@ (b5 :> MCTrunk \cup {b3, b4, b5})
AllTxsOf == (g :> {}) @@ (a1 :> {cb}) @@ (a2 :> {}) @@ (a3 :> {t1}) @@ (a4 :> {t3})
            @@ (b3 :> {t2}) @@ (b4 :> {}) @@ (b5 :> {t4})
AllMinter == (c0 :> cb) @@ (d1 :> t1) @@ (d2 :> t2) @@ (d3 :> t3)
AllInputs == (cb :> {}) @@ (t1 :> {c0}) @@ (t2 :> {c0}) @@ (t3 :> {d1}) @@ (t4 :> {d2})
AllFirstInput == (t1 :> c0) @@ (t2 :> c0) @@ (t3 :> d1) @@ (t4 :> d2)

\* A run may keep only the lower blocks of the tree.
MCParent == [b \in Block |-> AllParent[b]]
MCHeight == [b \in Block |-> AllHeight[b]]
MCChain  == [b \in Block |-> AllChain[b]]
MCTxsOf  == [b \in Block |-> AllTxsOf[b]]
MCMinter == [c \in Coin |-> AllMinter[c]]
MCInputs == [t \in Tx |-> AllInputs[t]]
MCFirstInput == [t \in Tx \ {cb} |-> AllFirstInput[t]]
=============================================================================
