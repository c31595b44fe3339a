---------------------------- MODULE MCTxProposals ----------------------------
(* Instances of TxProposals for TLC: two proposals that spend one output. *)
EXTENDS TxProposals, TLC

CONSTANTS r1, r2, c1, c2, p, q, u

MCInputsOf == (p :> {u}) @@ (q :> {u})

\* Requests are alike, and so are copayers and proposals, unless only some of
\* the proposals may be published again.
AlikeSymmetry == Permutations(Req) \cup Permutations(Copayer)
Symmetry == AlikeSymmetry \cup Permutations(Txp)
=============================================================================
