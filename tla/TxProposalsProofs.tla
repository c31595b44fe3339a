-------------------------- MODULE TxProposalsProofs --------------------------
(***************************************************************************)
(* Theorems of TxProposals, for every wallet, set of requests and bound.   *)
(*                                                                         *)
(* The argument is about one document at a time, wherever it is: in the    *)
(* collection or in the snapshot of a handler.  Its status agrees with its *)
(* votes (Shape), its approvals were all accepted once (signed), and a     *)
(* handler that writes one back has checked it (CallInv).  So stale writes *)
(* lose votes and revive proposals, but make no document wrong in itself.  *)
(***************************************************************************)
EXTENDS TxProposals, FiniteSetTheorems, TLAPS

\* A document's status is the one its votes entail, unless it is pending
\* because it was published again.
Shape(d, x) ==
    /\ d.status = "accepted" => IsAccepted(d)
    /\ d.status = "pending" /\ x \notin Mutable => ~IsAccepted(d) /\ ~IsRejected(d)
    /\ d.status \in {"none", "removed", "temporary"} => Actors(d) = {}

Good(d, x) == d \in Docs /\ Shape(d, x) /\ d.accepts \subseteq signed[x]

\* Which handler is at which step, and what it has checked by then.
CallInv(c) ==
    /\ c.op # "getPendingTxs" => c.txp \in Txp
    /\ c.op \notin {"getPendingTxs"} \cup ByAnyone => c.who \in Copayer
    /\ c.pc \in {"fetch", "store"} => c.op # "getPendingTxs"
    /\ c.pc \in {"idle", "release"} => c.op = "getPendingTxs"
    /\ c.pc \in {"utxos", "broadcasted"} => c.op = "publishTx"
    /\ c.pc \in {"pending", "settle"} => c.op \in {"publishTx", "getPendingTxs"}
    /\ c.pc = "send" => c.op = "broadcastTx"
    /\ c.pc # "fetch" /\ c.op # "getPendingTxs" => Allowed(c.op, c.doc, c.who, c.txp)

\* The documents it holds are good ones.
Holds(c) ==
    /\ \A x \in Txp : Good(c.snap[x], x)
    /\ c.pc # "fetch" /\ c.op # "getPendingTxs" => c.txp \in Txp /\ Good(c.doc, c.txp)

CallOK(c) == c \in Call /\ Holds(c) /\ CallInv(c)

DocsInv  == \A x \in Txp : Good(docs[x], x)
CallsInv == \A r \in Req : CallOK(call[r])

IInv == TypeOK /\ DocsInv /\ CallsInv /\ SignedBeforeSent

-----------------------------------------------------------------------------
(* Votes and their cardinalities. *)

LEMMA VotesFinite ==
    ASSUME NEW S \in SUBSET Copayer
    PROVE  IsFiniteSet(S) /\ Cardinality(S) \in Nat
  BY FS_Subset, FS_CardinalityType, WalletAssumption

LEMMA OneMore ==
    ASSUME NEW S \in SUBSET Copayer, NEW c
    PROVE  Cardinality(S \cup {c}) >= Cardinality(S)
<1>1. Cardinality(S) \in Nat /\ IsFiniteSet(S)
  BY VotesFinite
<1>2. QED
  BY <1>1, FS_AddElement

LEMMA Bounds ==
    /\ Required \in Nat /\ Required >= 1
    /\ RequiredRejections \in Nat /\ RequiredRejections >= 1
    /\ Required + RequiredRejections <= Cardinality(Copayer) + 1
<1>1. Cardinality(Copayer) \in Nat
  BY FS_CardinalityType, WalletAssumption
<1>2. QED
  BY <1>1, WalletAssumption DEF RequiredRejections

LEMMA NoVotes ==
    ASSUME NEW d, Actors(d) = {}
    PROVE  ~IsAccepted(d) /\ ~IsRejected(d)
<1>1. d.accepts = {} /\ d.rejects = {}
  BY DEF Actors
<1>2. Cardinality({}) = 0
  BY FS_EmptySet
<1>3. QED
  BY <1>1, <1>2, Bounds DEF IsAccepted, IsRejected

\* _updateStatus makes the status of a voted document right, and votes stay.
LEMMA UpdatedShape ==
    ASSUME NEW f \in Docs, NEW x,
           f.status = "pending" \/ (f.status = "accepted" /\ IsAccepted(f))
    PROVE  /\ Updated(f) \in Docs /\ Shape(Updated(f), x)
           /\ Updated(f).accepts = f.accepts /\ Updated(f).rejects = f.rejects
<1>1. ASSUME NEW s \in {"rejected", "accepted"}
      PROVE  /\ [f EXCEPT !.status = s] \in Docs
             /\ [f EXCEPT !.status = s].status = s
             /\ [f EXCEPT !.status = s].accepts = f.accepts
             /\ [f EXCEPT !.status = s].rejects = f.rejects
  BY DEF Docs, Doc
<1>2. CASE f.status = "accepted"
  BY <1>2 DEF Updated, Shape
<1>3. CASE f.status = "pending" /\ IsRejected(f)
  BY <1>1, <1>3 DEF Updated, Shape
<1>4. CASE f.status = "pending" /\ ~IsRejected(f) /\ IsAccepted(f)
  BY <1>1, <1>4 DEF Updated, Shape, IsAccepted
<1>5. CASE f.status = "pending" /\ ~IsRejected(f) /\ ~IsAccepted(f)
  BY <1>5 DEF Updated, Shape
<1>6. QED
  BY <1>2, <1>3, <1>4, <1>5

LEMMA SignGood ==
    ASSUME NEW d \in Docs, NEW x, Shape(d, x), NEW c \in Copayer, MaySign(d, c)
    PROVE  /\ Sign(d, c) \in Docs /\ Shape(Sign(d, c), x)
           /\ Sign(d, c).accepts = d.accepts \cup {c}
           /\ Sign(d, c).rejects = d.rejects
<1> DEFINE f == [d EXCEPT !.accepts = @ \cup {c}]
<1>1. /\ f \in Docs /\ f.accepts = d.accepts \cup {c}
      /\ f.rejects = d.rejects /\ f.status = d.status
  BY DEF Docs, Doc, MaySign, Actors
<1>2. d.status = "accepted" => IsAccepted(f)
  <2>1. d.status = "accepted" => Cardinality(d.accepts) >= Required
    BY DEF Shape, IsAccepted
  <2>2. /\ Cardinality(f.accepts) >= Cardinality(d.accepts)
        /\ Cardinality(f.accepts) \in Nat /\ Cardinality(d.accepts) \in Nat
    <3>1. d.accepts \in SUBSET Copayer /\ d.accepts \cup {c} \in SUBSET Copayer
      BY DEF Docs, Doc
    <3>2. QED
      BY <1>1, <3>1, OneMore, VotesFinite
  <2>3. QED
    BY <2>1, <2>2, Bounds DEF IsAccepted
<1>3. Sign(d, c) = Updated(f)
  BY DEF Sign
<1> HIDE DEF f
<1>4. f.status = "pending" \/ (f.status = "accepted" /\ IsAccepted(f))
  BY <1>1, <1>2 DEF MaySign, IsPending
<1>5. QED
  BY <1>1, <1>3, <1>4, UpdatedShape

LEMMA RejectGood ==
    ASSUME NEW d \in Docs, NEW x, NEW c \in Copayer, MayReject(d, c)
    PROVE  /\ Reject(d, c) \in Docs /\ Shape(Reject(d, c), x)
           /\ Reject(d, c).accepts = d.accepts
           /\ Reject(d, c).rejects = d.rejects \cup {c}
<1> DEFINE f == [d EXCEPT !.rejects = @ \cup {c}]
<1>1. /\ f \in Docs /\ f.rejects = d.rejects \cup {c}
      /\ f.accepts = d.accepts /\ f.status = "pending"
  BY DEF Docs, Doc, MayReject, Actors
<1>2. Reject(d, c) = Updated(f)
  BY DEF Reject
<1> HIDE DEF f
<1>3. QED
  BY <1>1, <1>2, UpdatedShape

\* What a handler writes is a good document, when what it fetched was one.
LEMMA NewDocGood ==
    ASSUME NEW d \in Docs, NEW x, Shape(d, x), NEW op \in Ops \ {"getPendingTxs"}, NEW c,
           op \notin ByAnyone => c \in Copayer,
           Allowed(op, d, c, x)
    PROVE  /\ NewDoc(op, d, c) \in Docs /\ Shape(NewDoc(op, d, c), x)
           /\ NewDoc(op, d, c).accepts \subseteq
                 d.accepts \cup (IF op = "signTx" THEN {c} ELSE {})
<1>1. CASE op = "createTx"
  <2>1. /\ NewDoc(op, d, c) = [status |-> "temporary", creator |-> c,
                               accepts |-> {}, rejects |-> {}]
        /\ c \in Copayer
    BY <1>1 DEF NewDoc, Created, Published, Broadcasted, NoDoc, ByAnyone
  <2>2. QED
    BY <1>1, <2>1 DEF Docs, Doc, Shape, Actors
<1>2. CASE op = "publishTx"
  <2>1. /\ NewDoc(op, d, c) = [d EXCEPT !.status = "pending"]
        /\ d.status = "temporary" \/ x \in Mutable
    BY <1>2 DEF NewDoc, Created, Published, Broadcasted, Allowed, MayPublish
  <2>2. /\ NewDoc(op, d, c) \in Docs /\ NewDoc(op, d, c).status = "pending"
        /\ NewDoc(op, d, c).accepts = d.accepts /\ NewDoc(op, d, c).rejects = d.rejects
    BY <2>1 DEF Docs, Doc
  <2>3. x \notin Mutable => Actors(NewDoc(op, d, c)) = {}
    BY <2>1, <2>2 DEF Shape, Actors
  <2>4. QED
    BY <2>2, <2>3, NoVotes DEF Shape
<1>3. CASE op = "removePendingTx"
  <2>1. NewDoc(op, d, c) = [status |-> "removed", creator |-> Nobody,
                            accepts |-> {}, rejects |-> {}]
    BY <1>3 DEF NewDoc, Created, Published, Broadcasted, Removed, NoDoc
  <2>2. QED
    BY <1>3, <2>1 DEF Docs, Doc, Shape, Actors
<1>4. CASE op = "signTx"
  <2>1. NewDoc(op, d, c) = Sign(d, c) /\ MaySign(d, c) /\ c \in Copayer
    BY <1>4 DEF NewDoc, Created, Published, Broadcasted, Allowed, ByAnyone
  <2>2. QED
    BY <1>4, <2>1, SignGood
<1>5. CASE op = "rejectTx"
  <2>1. NewDoc(op, d, c) = Reject(d, c) /\ MayReject(d, c) /\ c \in Copayer
    BY <1>5 DEF NewDoc, Created, Published, Broadcasted, Allowed, ByAnyone
  <2>2. QED
    BY <1>5, <2>1, RejectGood
<1>6. CASE op = "broadcastTx"
  <2>1. NewDoc(op, d, c) = [d EXCEPT !.status = "broadcasted"]
    BY <1>6 DEF NewDoc, Created, Published, Broadcasted
  <2>2. QED
    BY <1>6, <2>1 DEF Docs, Doc, Shape
<1>7. QED
  BY <1>1, <1>2, <1>3, <1>4, <1>5, <1>6 DEF Ops

-----------------------------------------------------------------------------
(* The invariant, action by action.                                        *)

LEMMA NoDocGood ==
    ASSUME TypeOK, NEW x \in Txp
    PROVE  Good(NoDoc, x)
  BY DEF TypeOK, Good, NoDoc, Docs, Doc, Shape, Actors

LEMMA FinishedOK ==
    ASSUME TypeOK, NEW r \in Req
    PROVE  CallOK(Finished(r)) /\ CallOK(Idle)
<1>1. \A x \in Txp : Good(NoDoc, x)
  BY NoDocGood
<1>2. NoDoc \in Doc
  BY DEF NoDoc, Doc
<1>3. CallOK(Idle)
  BY <1>1, <1>2 DEF Idle, CallOK, Holds, CallInv, Call, Ops
<1>4. CallOK([Idle EXCEPT !.pc = "release"])
  BY <1>1, <1>2 DEF Idle, CallOK, Holds, CallInv, Call, Ops
<1>5. QED
  BY <1>3, <1>4 DEF Finished

\* A step that changes one call only, and the mutex.
LEMMA CallStep ==
    ASSUME IInv, NEW r \in Req, NEW c, CallOK(c),
           call' = [call EXCEPT ![r] = c], holders' \in SUBSET Req,
           UNCHANGED <<docs, sent, signed, stale>>
    PROVE  IInv'
<1>1. \A d, x : Good(d, x)' <=> Good(d, x)
  BY DEF Good
<1>2. TypeOK'
  BY DEF IInv, TypeOK, CallOK, Holds
<1>3. DocsInv' /\ SignedBeforeSent'
  BY <1>1 DEF IInv, DocsInv, SignedBeforeSent
<1>4. CallsInv'
  <2> SUFFICES ASSUME NEW s \in Req PROVE CallOK(call[s])'
    BY DEF CallsInv
  <2>1. CallOK(call'[s])
    BY DEF IInv, TypeOK, CallsInv
  <2>2. QED
    BY <1>1, <2>1 DEF CallOK, Holds
<1>5. QED
  BY <1>2, <1>3, <1>4 DEF IInv

LEMMA StartStep == ASSUME IInv, NEW r \in Req, Start(r) PROVE IInv'
<1>1. TypeOK /\ CallOK(call[r]) /\ call[r] \in Call
  BY DEF IInv, CallsInv, CallOK, Holds
<1>2. \A x \in Txp : Good(NoDoc, x)
  BY <1>1, NoDocGood
<1>3. NoDoc \in Doc
  BY DEF NoDoc, Doc
<1>4. holders' \in SUBSET Req
  BY <1>1 DEF Start, Take, TypeOK
\* getPendingTxs
<1>5. CASE call' = [call EXCEPT ![r].pc = "pending"]
  <2> DEFINE c == [call[r] EXCEPT !.pc = "pending"]
  <2>1. CallOK(c)
    BY <1>1 DEF Start, At, CallOK, Holds, CallInv, Call
  <2>2. QED
    BY <1>4, <1>5, <2>1, CallStep DEF Start
\* any other
<1>6. ASSUME NEW op \in Ops \ {"getPendingTxs"}, NEW p \in Copayer, NEW x \in Txp,
             call' = [call EXCEPT ![r] =
                        [Idle EXCEPT !.pc = "fetch", !.op = op, !.txp = x,
                                     !.who = IF op \in ByAnyone THEN Nobody ELSE p]]
      PROVE  IInv'
  <2> DEFINE c == [Idle EXCEPT !.pc = "fetch", !.op = op, !.txp = x,
                               !.who = IF op \in ByAnyone THEN Nobody ELSE p]
  <2>1. CallOK(c)
    BY <1>2, <1>3 DEF Idle, CallOK, Holds, CallInv, Call, Ops
  <2>2. QED
    BY <1>4, <1>6, <2>1, CallStep DEF Start
<1>7. QED
  BY <1>5, <1>6 DEF Start

LEMMA FetchStep == ASSUME IInv, NEW r \in Req, Fetch(r) PROVE IInv'
<1> DEFINE op == call[r].op
           x  == call[r].txp
           pc == CASE op = "publishTx"   -> "utxos"
                   [] op = "broadcastTx" -> "send"
                   [] OTHER              -> "store"
           c  == [call[r] EXCEPT !.doc = docs[x], !.pc = pc]
<1>1. TypeOK /\ CallOK(call[r]) /\ holders' \in SUBSET Req /\ x \in Txp /\ op # "getPendingTxs"
  BY DEF IInv, CallsInv, CallOK, Holds, CallInv, Fetch, At, TypeOK
<1>2. Allowed(op, docs[x], call[r].who, x) => CallOK(c)
  <2> SUFFICES ASSUME Allowed(op, docs[x], call[r].who, x) PROVE CallOK(c)
    OBVIOUS
  <2>1. Good(docs[x], x) /\ docs[x] \in Doc
    BY <1>1 DEF IInv, DocsInv, Good, Docs
  <2>2. /\ c.op = op /\ c.txp = x /\ c.who = call[r].who /\ c.pc = pc
        /\ c.doc = docs[x] /\ c.snap = call[r].snap
        /\ c \in Call
    BY <1>1, <2>1 DEF CallOK, Holds, Call
  <2> HIDE DEF c
  <2>3. Holds(c)
    BY <1>1, <2>1, <2>2 DEF CallOK, Holds
  <2>4. CallInv(c)
    BY <1>1, <2>1, <2>2 DEF CallOK, Holds, CallInv
  <2>5. QED
    BY <2>2, <2>3, <2>4 DEF CallOK
<1>3. CallOK(Finished(r))
  BY <1>1, FinishedOK
<1>4. QED
  BY <1>1, <1>2, <1>3, CallStep DEF Fetch

LEMMA GetUtxosForm ==
    ASSUME TypeOK, NEW r \in Req, GetUtxos(r)
    PROVE  \E free \in BOOLEAN :
              call' = [call EXCEPT ![r] = [call[r] EXCEPT !.pc = "pending", !.free = free]]
<1>1. PICK known \in SUBSET sent :
          call' = [call EXCEPT ![r].pc = "pending",
                               ![r].free = \A y \in known : /\ call[r].txp # y
                                                            /\ ~Clash(call[r].txp, y)]
  BY DEF GetUtxos
<1>2. (\A y \in known : call[r].txp # y /\ ~Clash(call[r].txp, y)) \in BOOLEAN
  OBVIOUS
<1>3. QED
  BY <1>1, <1>2 DEF TypeOK

LEMMA GetUtxosStep == ASSUME IInv, NEW r \in Req, GetUtxos(r) PROVE IInv'
<1>1. TypeOK /\ CallOK(call[r]) /\ holders' \in SUBSET Req /\ call[r].pc = "utxos"
  BY DEF IInv, CallsInv, GetUtxos, At, TypeOK
<1>2. PICK free \in BOOLEAN :
          call' = [call EXCEPT ![r] = [call[r] EXCEPT !.pc = "pending", !.free = free]]
  BY <1>1, GetUtxosForm
<1>3. CallOK([call[r] EXCEPT !.pc = "pending", !.free = free])
  BY <1>1 DEF CallOK, Holds, CallInv, Call
<1>4. QED
  BY <1>1, <1>2, <1>3, CallStep DEF GetUtxos

LEMMA FetchPendingStep == ASSUME IInv, NEW r \in Req, FetchPending(r) PROVE IInv'
<1> DEFINE snap == [x \in Txp |-> IF docs[x].status = "accepted" THEN docs[x] ELSE NoDoc]
           list == {x \in Txp : IsPending(docs[x])}
           c == [call[r] EXCEPT !.pc = "settle", !.snap = snap, !.list = list]
<1>1. TypeOK /\ CallOK(call[r]) /\ holders' \in SUBSET Req /\ call[r].pc = "pending"
  BY DEF IInv, CallsInv, FetchPending, At, TypeOK
<1>2. /\ snap \in [Txp -> Doc] /\ \A x \in Txp : Good(snap[x], x)
      /\ list \in SUBSET Txp
  BY <1>1, NoDocGood DEF IInv, DocsInv, Good, Docs
<1>3. call' = [call EXCEPT ![r] = c]
  BY <1>1 DEF FetchPending, TypeOK
<1> HIDE DEF snap, list
<1>4. CallOK(c)
  BY <1>1, <1>2 DEF CallOK, Holds, CallInv, Call
<1>5. QED
  BY <1>1, <1>3, <1>4, CallStep DEF FetchPending

LEMMA SettledStep == ASSUME IInv, NEW r \in Req, Settled(r) PROVE IInv'
<1>1. TypeOK /\ CallOK(call[r]) /\ holders' \in SUBSET Req /\ call[r].pc = "settle"
  BY DEF IInv, CallsInv, Settled, At, TypeOK
<1> DEFINE x == call[r].txp
           free == call[r].free /\ \A y \in call[r].list : x # y /\ ~Clash(x, y)
           c == [call[r] EXCEPT !.pc = "broadcasted", !.list = {}, !.free = free]
<1>2. free \in BOOLEAN
  OBVIOUS
<1>3. call' = [call EXCEPT ![r] = IF call[r].op = "publishTx" THEN c ELSE Finished(r)]
  BY DEF Settled
<1> HIDE DEF free
<1>4. call[r].op = "publishTx" => CallOK(c)
  BY <1>1, <1>2 DEF CallOK, Holds, CallInv, Call
<1>5. QED
  BY <1>1, <1>3, <1>4, FinishedOK, CallStep DEF Settled

LEMMA FetchBroadcastedStep == ASSUME IInv, NEW r \in Req, FetchBroadcasted(r) PROVE IInv'
<1>1. TypeOK /\ CallOK(call[r]) /\ holders' \in SUBSET Req /\ call[r].pc = "broadcasted"
  BY DEF IInv, CallsInv, FetchBroadcasted, At, TypeOK
<1>2. CallOK([call[r] EXCEPT !.pc = "store"])
  BY <1>1 DEF CallOK, Holds, CallInv, Call
<1>3. QED
  BY <1>1, <1>2, FinishedOK, CallStep DEF FetchBroadcasted

LEMMA LeaveStep == ASSUME IInv, NEW r \in Req, Leave(r) \/ Perish(r) PROVE IInv'
<1>1. TypeOK /\ holders' \in SUBSET Req
  BY DEF IInv, TypeOK, Leave, Perish, Free
<1>2. QED
  BY <1>1, FinishedOK, CallStep DEF Leave, Perish

\* A step that writes one document, after which nothing more than before is
\* held to be signed, or more of it.
LEMMA WriteStep ==
    ASSUME IInv, NEW r \in Req, NEW c, CallOK(c), NEW x \in Txp, NEW d,
           NEW e, Write(x, e, d), d \in Docs, Shape(d, x), d.accepts \subseteq signed'[x],
           call' = [call EXCEPT ![r] = c],
           signed' \in [Txp -> SUBSET Copayer],
           \A y \in Txp : signed[y] \subseteq signed'[y],
           UNCHANGED <<holders, sent>>
    PROVE  IInv'
<1>1. ASSUME NEW f, NEW y \in Txp, Good(f, y) PROVE Good(f, y)'
  BY <1>1 DEF Good
<1>2. TypeOK /\ stale' \in Nat /\ docs' = [docs EXCEPT ![x] = d]
  BY DEF IInv, TypeOK, Write
<1>3. TypeOK'
  BY <1>2 DEF TypeOK, CallOK, Holds
<1>4. DocsInv'
  <2> SUFFICES ASSUME NEW y \in Txp PROVE Good(docs[y], y)'
    BY DEF DocsInv
  <2>1. Good(d, x)'
    BY DEF Good
  <2>2. Good(docs[y], y)'  \/ y = x
    <3>1. y # x => docs'[y] = docs[y] /\ Good(docs[y], y)
      BY <1>2 DEF IInv, TypeOK, DocsInv
    <3>2. QED
      BY <3>1 DEF Good
  <2>3. docs'[x] = d
    BY <1>2 DEF TypeOK
  <2>4. QED
    BY <2>1, <2>2, <2>3 DEF Good
<1>5. CallsInv'
  <2> SUFFICES ASSUME NEW s \in Req PROVE CallOK(call[s])'
    BY DEF CallsInv
  <2>1. CallOK(call'[s])
    BY <1>2 DEF IInv, TypeOK, CallsInv
  <2>2. QED
    BY <1>1, <2>1 DEF CallOK, Holds
<1>6. SignedBeforeSent'
  <2> SUFFICES ASSUME NEW y \in sent PROVE Cardinality(signed'[y]) >= Required
    BY DEF SignedBeforeSent
  <2>1. /\ y \in Txp /\ signed[y] \subseteq signed'[y] /\ signed'[y] \in SUBSET Copayer
        /\ Cardinality(signed[y]) >= Required
    BY <1>2 DEF IInv, TypeOK, SignedBeforeSent
  <2>2. Cardinality(signed[y]) <= Cardinality(signed'[y])
    BY <2>1, VotesFinite, FS_Subset
  <2>3. Cardinality(signed[y]) \in Nat /\ Cardinality(signed'[y]) \in Nat
    BY <2>1, VotesFinite
  <2>4. QED
    BY <2>1, <2>2, <2>3, Bounds
<1>7. QED
  BY <1>3, <1>4, <1>5, <1>6 DEF IInv

LEMMA SettleStep == ASSUME IInv, NEW r \in Req, Settle(r) PROVE IInv'
<1>1. TypeOK /\ CallOK(call[r]) /\ call[r].pc = "settle"
  BY DEF IInv, CallsInv, Settle, Broadcasted, At
<1>2. PICK x \in call[r].list \cap sent :
          /\ Write(x, call[r].snap[x], [call[r].snap[x] EXCEPT !.status = "broadcasted"])
          /\ call' = [call EXCEPT ![r].list = @ \ {x}]
  BY DEF Settle, Broadcasted
<1>3. x \in Txp /\ Good(call[r].snap[x], x)
  BY <1>1 DEF CallOK, Holds, TypeOK
<1> DEFINE d == [call[r].snap[x] EXCEPT !.status = "broadcasted"]
<1>4. d \in Docs /\ Shape(d, x) /\ d.accepts \subseteq signed[x]
  BY <1>3 DEF Good, Docs, Doc, Shape
<1>5. CallOK([call[r] EXCEPT !.list = @ \ {x}])
  BY <1>1 DEF CallOK, Holds, CallInv, Call
<1> HIDE DEF d
<1>6. signed' = signed /\ UNCHANGED <<holders, sent>>
  BY DEF Settle, Broadcasted
<1>7. QED
  BY <1>1, <1>2, <1>3, <1>4, <1>5, <1>6, WriteStep DEF d, TypeOK

LEMMA StoreStep == ASSUME IInv, NEW r \in Req, Store(r) PROVE IInv'
<1> DEFINE op == call[r].op
           x  == call[r].txp
           c  == call[r].who
           d  == call[r].doc
           n  == NewDoc(op, d, c)
<1>1. /\ TypeOK /\ CallOK(call[r]) /\ x \in Txp /\ op \in Ops \ {"getPendingTxs"}
      /\ op \notin ByAnyone => c \in Copayer
      /\ Allowed(op, d, c, x)
      /\ Good(d, x)
  BY DEF IInv, CallsInv, CallOK, Holds, CallInv, Call, Store, At
<1>2. d \in Docs /\ Shape(d, x) /\ d.accepts \subseteq signed[x]
  BY <1>1 DEF Good
<1>3. /\ n \in Docs /\ Shape(n, x)
      /\ n.accepts \subseteq d.accepts \cup (IF op = "signTx" THEN {c} ELSE {})
  BY <1>1, <1>2, NewDocGood
<1>4. /\ Write(x, d, n) /\ call' = [call EXCEPT ![r] = Finished(r)]
      /\ signed' = IF op = "signTx" THEN [signed EXCEPT ![x] = @ \cup {c}] ELSE signed
      /\ UNCHANGED <<holders, sent>>
  BY DEF Store
<1>5. op = "signTx" => c \in Copayer
  BY <1>1 DEF ByAnyone
<1> HIDE DEF n, d, c, x, op
<1>6. /\ signed' \in [Txp -> SUBSET Copayer]
      /\ \A y \in Txp : signed[y] \subseteq signed'[y]
      /\ n.accepts \subseteq signed'[x]
  BY <1>1, <1>2, <1>3, <1>4, <1>5 DEF TypeOK
<1>7. QED
  BY <1>1, <1>3, <1>4, <1>6, FinishedOK, WriteStep

\* A step that sends a transaction and changes one call at most.
LEMMA SentStep ==
    ASSUME IInv, NEW r \in Req, NEW c, CallOK(c), NEW x \in Txp,
           Cardinality(signed[x]) >= Required,
           call' = [call EXCEPT ![r] = c] \/ call' = call,
           sent' \in {sent, sent \cup {x}},
           UNCHANGED <<holders, docs, signed, stale>>
    PROVE  IInv'
<1>1. \A e, y : Good(e, y)' <=> Good(e, y)
  BY DEF Good
<1>2. TypeOK'
  BY DEF IInv, TypeOK, CallOK, Holds
<1>3. DocsInv' /\ SignedBeforeSent'
  BY <1>1 DEF IInv, DocsInv, SignedBeforeSent
<1>4. CallsInv'
  <2> SUFFICES ASSUME NEW s \in Req PROVE CallOK(call[s])'
    BY DEF CallsInv
  <2>1. CallOK(call'[s])
    BY DEF IInv, TypeOK, CallsInv
  <2>2. QED
    BY <1>1, <2>1 DEF CallOK, Holds
<1>5. QED
  BY <1>2, <1>3, <1>4 DEF IInv

LEMMA SendStep == ASSUME IInv, NEW r \in Req, Send(r) PROVE IInv'
<1> DEFINE x == call[r].txp
           d == call[r].doc
<1>1. /\ TypeOK /\ CallOK(call[r]) /\ x \in Txp /\ call[r].pc = "send"
      /\ call[r].op = "broadcastTx"
      /\ Allowed(call[r].op, d, call[r].who, x)
  BY DEF IInv, CallsInv, CallOK, Holds, CallInv, Send, At
<1>2. d \in Docs /\ Shape(d, x) /\ d.accepts \subseteq signed[x] /\ d.status = "accepted"
  BY <1>1 DEF CallOK, Holds, Good, Allowed, MayBroadcast
<1>3. Cardinality(signed[x]) >= Required
  <2>1. /\ d.accepts \in SUBSET Copayer /\ signed[x] \in SUBSET Copayer
        /\ Cardinality(d.accepts) >= Required
    BY <1>1, <1>2 DEF TypeOK, Docs, Doc, Shape, IsAccepted
  <2>2. Cardinality(d.accepts) <= Cardinality(signed[x])
    BY <1>2, <2>1, VotesFinite, FS_Subset
  <2>3. Cardinality(d.accepts) \in Nat /\ Cardinality(signed[x]) \in Nat
    BY <2>1, VotesFinite
  <2>4. QED
    BY <2>1, <2>2, <2>3, Bounds
<1>4. CallOK([call[r] EXCEPT !.pc = "store"])
  BY <1>1 DEF CallOK, Holds, CallInv, Call
<1>5. CallOK(Idle)
  BY <1>1, FinishedOK
<1>6. UNCHANGED <<holders, docs, signed, stale>> /\ sent' \in {sent, sent \cup {x}}
  BY DEF Send
<1>7. \/ call' = [call EXCEPT ![r] = [call[r] EXCEPT !.pc = "store"]]
      \/ call' = [call EXCEPT ![r] = Idle]
  BY DEF Send
<1> HIDE DEF x
<1>8. QED
  BY <1>1, <1>3, <1>4, <1>5, <1>6, <1>7, SentStep

LEMMA ThirdPartySendStep == ASSUME IInv, NEW x \in Txp, ThirdPartySend(x) PROVE IInv'
<1>1. \A e, y : Good(e, y)' <=> Good(e, y)
  BY DEF Good, ThirdPartySend
<1>2. TypeOK'
  BY DEF IInv, TypeOK, ThirdPartySend
<1>3. DocsInv' /\ SignedBeforeSent' /\ CallsInv'
  BY <1>1 DEF IInv, DocsInv, SignedBeforeSent, CallsInv, CallOK, Holds, ThirdPartySend
<1>4. QED
  BY <1>2, <1>3 DEF IInv

LEMMA InitIInv == Init => IInv
<1> SUFFICES ASSUME Init PROVE IInv
  OBVIOUS
<1>1. TypeOK
  <2>1. NoDoc \in Docs /\ Idle \in Call
    BY DEF NoDoc, Docs, Doc, Idle, Call, Ops
  <2>2. QED
    BY <2>1, WalletAssumption DEF Init, MutexInit, TypeOK
<1>2. DocsInv
  BY <1>1, NoDocGood DEF Init, DocsInv
<1>3. CallsInv
  BY <1>1, FinishedOK DEF Init, CallsInv
<1>4. SignedBeforeSent
  BY DEF Init, SignedBeforeSent
<1>5. QED
  BY <1>1, <1>2, <1>3, <1>4 DEF IInv

LEMMA NextIInv == IInv /\ [Next]_vars => IInv'
<1> SUFFICES ASSUME IInv, [Next]_vars PROVE IInv'
  OBVIOUS
<1>1. CASE UNCHANGED vars
  <2>1. \A e, y : Good(e, y)' <=> Good(e, y)
    BY <1>1 DEF Good, vars
  <2>2. QED
    BY <1>1, <2>1 DEF vars, IInv, TypeOK, DocsInv, CallsInv, CallOK, Holds, SignedBeforeSent
<1>2. ASSUME NEW r \in Req,
             \/ Start(r) \/ Fetch(r)
             \/ GetUtxos(r) \/ FetchPending(r) \/ Settle(r) \/ Settled(r) \/ FetchBroadcasted(r)
             \/ Store(r) \/ Send(r) \/ Leave(r) \/ Perish(r)
      PROVE  IInv'
  BY <1>2, StartStep, FetchStep, GetUtxosStep, FetchPendingStep, SettleStep,
     SettledStep, FetchBroadcastedStep, StoreStep, SendStep, LeaveStep
<1>3. ASSUME NEW x \in Txp, ThirdPartySend(x) PROVE IInv'
  BY <1>3, ThirdPartySendStep
<1>4. QED
  BY <1>1, <1>2, <1>3 DEF Next

-----------------------------------------------------------------------------
(* Theorems.                                                               *)

\* The invariant above: documents and snapshots are good, and every handler
\* past its checks has made them on the document it will write back.
THEOREM IInvHolds == Spec => []IInv
  BY InitIInv, NextIInv, PTL DEF Spec

\* Documents and requests keep their shape, and a copayer has one vote,
\* whatever is overwritten.
THEOREM TypeCorrect == Spec => []TypeOK
<1>1. IInv => TypeOK
  BY DEF IInv
<1>2. QED
  BY <1>1, IInvHolds, PTL

\* Nothing is sent without walletM accepted signatures.
THEOREM SignedBeforeSentHolds == Spec => []SignedBeforeSent
<1>1. IInv => SignedBeforeSent
  BY DEF IInv
<1>2. QED
  BY <1>1, IInvHolds, PTL

\* No pending proposal has every copayer's vote, unless it may be published
\* again.
THEOREM EveryVoteDecidesHolds == Spec => []EveryVoteDecides
<1>1. IInv => EveryVoteDecides
  <2> SUFFICES ASSUME IInv, NEW x \in Txp \ Mutable, Actors(docs[x]) = Copayer,
                      docs[x].status = "pending"
               PROVE  FALSE
    BY DEF EveryVoteDecides
  <2> DEFINE a == docs[x].accepts
             b == docs[x].rejects
  <2>1. /\ a \in SUBSET Copayer /\ b \in SUBSET Copayer /\ a \cap b = {} /\ a \cup b = Copayer
        /\ ~(Cardinality(a) >= Required) /\ ~(Cardinality(b) >= RequiredRejections)
    BY DEF IInv, DocsInv, Good, Docs, Doc, Shape, Actors, IsAccepted, IsRejected
  <2> HIDE DEF a, b
  <2>2. /\ IsFiniteSet(a) /\ IsFiniteSet(b)
        /\ Cardinality(a) \in Nat /\ Cardinality(b) \in Nat
    BY <2>1, VotesFinite
  <2>3. Cardinality(Copayer) = Cardinality(a) + Cardinality(b)
    <3>1. Cardinality(a \cup b) = Cardinality(a) + Cardinality(b) - Cardinality(a \cap b)
      BY <2>2, FS_Union
    <3>2. Cardinality(a \cap b) = 0
      BY <2>1, FS_EmptySet
    <3>3. Cardinality(a \cup b) = Cardinality(Copayer)
      BY <2>1
    <3>4. QED
      BY <2>2, <3>1, <3>2, <3>3
  <2>4. QED
    BY <2>1, <2>2, <2>3, Bounds
<1>2. QED
  BY <1>1, IInvHolds, PTL

-----------------------------------------------------------------------------
(***************************************************************************)
(* InputsLockedUnlessRace and DecisionsStand.  While publishTx looks for   *)
(* proposals that share an input of its own, no other proposal gets        *)
(* published, for the mutex is taken; and no other write that has seen     *)
(* what it overwrites makes a proposal pending again, or takes back that   *)
(* it was broadcasted.  So what publishTx found still holds when it        *)
(* writes; nor does it write over a broadcasted proposal.                  *)
(***************************************************************************)

\* The mutex is held by at most one, and by whoever is past its lock.
HoldInv ==
    /\ \A r, s \in holders : r = s
    /\ \A r \in Req :
          call[r].op \in LockedOps \/ call[r].pc = "release" => r \in holders

\* What a publishTx has found out about the proposals that share its inputs,
\* its own included.
PubInv(c) ==
    c.op = "publishTx" =>
       /\ \A y \in Txp : Clash(c.txp, y) =>
             /\ c.pc = "settle" /\ IsPending(docs[y]) => y \in c.list
             /\ c.pc = "broadcasted" /\ c.free => ~IsPending(docs[y])
             /\ c.pc = "store" => ~IsPending(docs[y]) /\ docs[y].status # "broadcasted"
       /\ c.doc.status = "broadcasted" => c.pc # "store" /\ docs[c.txp].status = "broadcasted"

NoneShared == InputsLocked /\ \A r \in Req : PubInv(call[r])

LInv == IInv /\ HoldInv /\ (stale = 0 => NoneShared)

-----------------------------------------------------------------------------
\* A request that a step changes takes or keeps what HoldInv asks of it.
LEMMA HoldStep == IInv /\ HoldInv /\ [Next]_vars => HoldInv'
<1> SUFFICES ASSUME IInv, HoldInv, [Next]_vars PROVE HoldInv'
  OBVIOUS
<1>1. call \in [Req -> Call] /\ holders \in SUBSET Req
  BY DEF IInv, TypeOK
<1>2. CASE UNCHANGED vars
  BY <1>2 DEF vars, HoldInv
<1>3. ASSUME NEW r \in Req, NEW c, call' = [call EXCEPT ![r] = c],
             \/ holders' = holders
             \/ holders = {} /\ holders' = {r}
             \/ holders' = holders \ {r},
             c.op \in LockedOps \/ c.pc = "release" => r \in holders'
      PROVE  HoldInv'
  BY <1>1, <1>3 DEF HoldInv
<1>4. ASSUME NEW r \in Req
      PROVE  /\ Finished(r).pc = "release" => call[r].op \in LockedOps
             /\ Finished(r).op = "getPendingTxs"
             /\ Idle.pc = "idle" /\ Idle.op = "getPendingTxs"
  BY DEF Finished, Idle, Locked
<1>5. "getPendingTxs" \notin LockedOps /\ "broadcastTx" \notin LockedOps
  BY DEF LockedOps
<1>6. ASSUME NEW r \in Req, Start(r) PROVE HoldInv'
  <2>1. ASSUME call' = [call EXCEPT ![r].pc = "pending"], holders' = holders PROVE HoldInv'
    <3>1. call[r].op = "getPendingTxs"
      BY <1>6 DEF Start, At, IInv, CallsInv, CallOK, Holds, CallInv
    <3>2. call' = [call EXCEPT ![r] = [call[r] EXCEPT !.pc = "pending"]]
      BY <1>1, <2>1
    <3>3. /\ [call[r] EXCEPT !.pc = "pending"].op = "getPendingTxs"
          /\ [call[r] EXCEPT !.pc = "pending"].pc = "pending"
      BY <1>1, <3>1 DEF Call
    <3>4. QED
      BY <1>3, <1>5, <2>1, <3>2, <3>3
  <2>2. ASSUME NEW op \in Ops \ {"getPendingTxs"}, NEW p \in Copayer, NEW x \in Txp,
               call' = [call EXCEPT ![r] =
                          [Idle EXCEPT !.pc = "fetch", !.op = op, !.txp = x,
                                       !.who = IF op \in ByAnyone THEN Nobody ELSE p]],
               IF op \in LockedOps THEN Take(r) ELSE UNCHANGED holders
        PROVE  HoldInv'
    <3> DEFINE c == [Idle EXCEPT !.pc = "fetch", !.op = op, !.txp = x,
                                 !.who = IF op \in ByAnyone THEN Nobody ELSE p]
    <3>1. c.op = op /\ c.pc = "fetch"
      BY DEF Idle
    <3> HIDE DEF c
    <3>2. call' = [call EXCEPT ![r] = c]
      BY <2>2 DEF c
    <3>3. QED
      BY <1>3, <2>2, <3>1, <3>2 DEF Take
  <2>3. QED
    BY <1>6, <2>1, <2>2 DEF Start
\* A handler past the lock that goes on, or finishes.
<1>8. ASSUME NEW r \in Req, NEW c, holders' = holders,
             call[r].pc # "idle",
             \/ c = Finished(r) \/ c = Idle
             \/ c.op = call[r].op /\ c.pc # "release",
             call' = [call EXCEPT ![r] = c]
      PROVE  HoldInv'
  BY <1>3, <1>4, <1>5, <1>8 DEF HoldInv
<1>9. ASSUME NEW r \in Req, Leave(r) \/ Perish(r) PROVE HoldInv'
  BY <1>3, <1>4, <1>5, <1>9 DEF Leave, Perish, Free
<1>10. ASSUME NEW x \in Txp, ThirdPartySend(x) PROVE HoldInv'
  BY <1>10 DEF ThirdPartySend, HoldInv
<1>11. ASSUME NEW r \in Req,
              \/ Fetch(r) \/ GetUtxos(r) \/ FetchPending(r) \/ Settle(r) \/ Settled(r)
              \/ FetchBroadcasted(r) \/ Store(r) \/ Send(r)
       PROVE  HoldInv'
  <2> DEFINE Goes == /\ holders' = holders
                     /\ call[r].pc \notin {"idle", "release"}
                     /\ \/ call' = [call EXCEPT ![r] = Finished(r)]
                        \/ call' = [call EXCEPT ![r] = Idle]
                        \/ /\ call' = [call EXCEPT ![r] = call'[r]]
                           /\ call'[r].op = call[r].op /\ call'[r].pc # "release"
  <2>1. ASSUME Fetch(r) PROVE Goes
    <3> DEFINE op == call[r].op
               x  == call[r].txp
               pc == CASE op = "publishTx"   -> "utxos"
                       [] op = "broadcastTx" -> "send"
                       [] OTHER              -> "store"
               c  == [call[r] EXCEPT !.doc = docs[x], !.pc = pc]
    <3>1. c.op = op /\ c.pc = pc /\ pc # "release"
      BY <1>1 DEF Call
    <3>2. /\ holders' = holders /\ call[r].pc = "fetch"
          /\ \/ call' = [call EXCEPT ![r] = Finished(r)]
             \/ call' = [call EXCEPT ![r] = c]
      BY <2>1 DEF Fetch, At
    <3> HIDE DEF c, pc
    <3>3. call' = [call EXCEPT ![r] = c] => call'[r] = c /\ call' = [call EXCEPT ![r] = call'[r]]
      BY <1>1
    <3>4. QED
      BY <3>1, <3>2, <3>3
  <2>2. ASSUME GetUtxos(r) PROVE Goes
    <3>1. PICK free \in BOOLEAN :
              call' = [call EXCEPT ![r] = [call[r] EXCEPT !.pc = "pending", !.free = free]]
      BY <2>2, GetUtxosForm DEF IInv
    <3> DEFINE c == [call[r] EXCEPT !.pc = "pending", !.free = free]
    <3>2. c.op = call[r].op /\ c.pc = "pending"
      BY <1>1 DEF Call
    <3>3. holders' = holders /\ call[r].pc = "utxos" /\ call' = [call EXCEPT ![r] = c]
      BY <2>2, <3>1 DEF GetUtxos, At
    <3> HIDE DEF c
    <3>4. QED
      BY <1>1, <3>2, <3>3
  <2>3. ASSUME FetchPending(r) PROVE Goes
    BY <1>1, <2>3 DEF FetchPending, At, Call
  <2>4. ASSUME Settle(r) PROVE Goes
    BY <1>1, <2>4 DEF Settle, Broadcasted, At, Call
  <2>5. ASSUME Settled(r) PROVE Goes
    BY <1>1, <2>5 DEF Settled, At, Call
  <2>6. ASSUME FetchBroadcasted(r) PROVE Goes
    BY <1>1, <2>6 DEF FetchBroadcasted, At, Call
  <2>7. ASSUME Store(r) PROVE Goes
    BY <1>1, <2>7 DEF Store, At, Call
  <2>8. ASSUME Send(r) PROVE Goes
    BY <1>1, <2>8 DEF Send, At, Call
  <2>9. Goes
    BY <1>11, <2>1, <2>2, <2>3, <2>4, <2>5, <2>6, <2>7, <2>8
  <2>10. QED
    BY <1>8, <2>9
<1>12. QED
  BY <1>2, <1>6, <1>9, <1>10, <1>11 DEF Next

-----------------------------------------------------------------------------
\* A write makes no proposal pending that was not, and only one that was
\* pending becomes broadcasted, and stays so.
Calm ==
    \A y \in Txp :
       /\ IsPending(docs'[y]) => IsPending(docs[y])
       /\ docs[y].status = "broadcasted" => docs'[y].status = "broadcasted"
       /\ docs'[y].status = "broadcasted" => docs[y].status = "broadcasted" \/ IsPending(docs[y])

\* The pending proposals of a wallet keep their inputs over a calm step, and
\* so does what a publishTx that the step leaves alone has found out.
LEMMA CalmStep ==
    ASSUME IInv, NoneShared, Calm
    PROVE  InputsLocked' /\ \A r \in Req : PubInv(call[r])' \/ call'[r] # call[r]
<1>1. InputsLocked'
  BY DEF NoneShared, Calm, InputsLocked
<1>2. ASSUME NEW r \in Req, call'[r] = call[r] PROVE PubInv(call[r])'
  <2>1. call[r].op = "publishTx" => call[r].txp \in Txp
    BY DEF IInv, CallsInv, CallOK, Holds, CallInv
  <2>2. QED
    BY <1>2, <2>1 DEF NoneShared, Calm, PubInv
<1>3. QED
  BY <1>1, <1>2

\* Every write that overwrites no unseen change is calm, except that of
\* publishTx.
LEMMA WriteCalm ==
    ASSUME IInv, NEW x \in Txp, NEW e, NEW d, Write(x, e, d), stale' = stale,
           e.status # "broadcasted",
           IsPending(d) => IsPending(e),
           d.status = "broadcasted" => IsPending(e)
    PROVE  Calm
<1>1. stale \in Nat /\ docs \in [Txp -> Docs]
  BY DEF IInv, TypeOK
<1>2. docs[x] = e /\ docs' = [docs EXCEPT ![x] = d]
  BY <1>1 DEF Write
<1>3. docs'[x] = d /\ \A y \in Txp \ {x} : docs'[y] = docs[y]
  BY <1>1, <1>2
<1>4. QED
  BY <1>2, <1>3 DEF Calm

LEMMA StoreCalm ==
    ASSUME IInv, NEW r \in Req, Store(r), stale' = stale, call[r].op # "publishTx"
    PROVE  Calm
<1> DEFINE op == call[r].op
           x  == call[r].txp
           c  == call[r].who
           d  == call[r].doc
           n  == NewDoc(op, d, c)
<1>1. /\ x \in Txp /\ op \in Ops \ {"getPendingTxs", "publishTx"}
      /\ op \notin ByAnyone => c \in Copayer
      /\ Allowed(op, d, c, x)
      /\ d \in Docs /\ Write(x, d, n)
  BY DEF IInv, CallsInv, CallOK, Holds, CallInv, Call, Store, At, Good
<1>2. /\ d.status # "broadcasted"
      /\ IsPending(n) => IsPending(d)
      /\ n.status = "broadcasted" => IsPending(d)
  <2> HIDE DEF d, c, op, x
  <2>1. CASE op = "createTx"
    BY <1>1, <2>1 DEF NewDoc, Created, Published, Broadcasted, NoDoc, IsPending, Allowed, MayCreate,
                      Exists
  <2>2. CASE op = "removePendingTx"
    BY <1>1, <2>2 DEF NewDoc, Created, Published, Broadcasted, Removed, NoDoc, IsPending, Allowed,
                      MayRemove
  <2>3. CASE op = "signTx"
    BY <1>1, <2>3 DEF NewDoc, Created, Published, Broadcasted, Allowed, MaySign, Sign,
                      IsPending
  <2>4. CASE op = "rejectTx"
    BY <1>1, <2>4 DEF NewDoc, Created, Published, Broadcasted, Allowed, MayReject, Reject,
                      IsPending
  <2>5. CASE op = "broadcastTx"
    BY <1>1, <2>5 DEF NewDoc, Created, Published, Broadcasted, Allowed, MayBroadcast,
                      IsPending, Docs, Doc
  <2>6. QED
    BY <1>1, <2>1, <2>2, <2>3, <2>4, <2>5 DEF Ops
<1> HIDE DEF n
<1>3. QED
  BY <1>1, <1>2, WriteCalm

\* A step that writes no document changes one call, for which the find of the
\* step is enough.
LEMMA FindStep ==
    ASSUME IInv, NoneShared, NEW r \in Req, NEW c, call \in [Req -> Call],
           call' = [call EXCEPT ![r] = c], docs' = docs, PubInv(c)
    PROVE  NoneShared'
<1>1. Calm
  BY DEF Calm
<1>2. ASSUME NEW s \in Req PROVE PubInv(call[s])'
  <2>1. CASE s # r
    BY <1>1, <2>1, CalmStep
  <2>2. CASE s = r
    BY <2>2 DEF PubInv
  <2>3. QED
    BY <2>1, <2>2
<1>3. QED
  BY <1>1, <1>2, CalmStep DEF NoneShared

LEMMA FinishedPub ==
    ASSUME NEW r \in Req PROVE PubInv(Finished(r)) /\ PubInv(Idle)
  BY DEF PubInv, Finished, Idle, NoDoc

LEMMA StartFind == ASSUME IInv, NoneShared, NEW r \in Req, Start(r) PROVE NoneShared'
<1>1. call \in [Req -> Call] /\ docs' = docs
  BY DEF IInv, TypeOK, Start
<1>2. CASE call' = [call EXCEPT ![r].pc = "pending"]
  <2> DEFINE c == [call[r] EXCEPT !.pc = "pending"]
  <2>1. c.op = "getPendingTxs"
    BY <1>1 DEF IInv, CallsInv, CallOK, Holds, CallInv, Start, At, Call
  <2>2. PubInv(c)
    BY <2>1 DEF PubInv
  <2>3. QED
    BY <1>1, <1>2, <2>2, FindStep
<1>3. ASSUME NEW op \in Ops \ {"getPendingTxs"}, NEW p \in Copayer, NEW x \in Txp,
             call' = [call EXCEPT ![r] =
                        [Idle EXCEPT !.pc = "fetch", !.op = op, !.txp = x,
                                     !.who = IF op \in ByAnyone THEN Nobody ELSE p]]
      PROVE  NoneShared'
  <2> DEFINE c == [Idle EXCEPT !.pc = "fetch", !.op = op, !.txp = x,
                               !.who = IF op \in ByAnyone THEN Nobody ELSE p]
  <2>1. c.pc = "fetch" /\ c.doc = NoDoc
    BY DEF Idle
  <2>2. PubInv(c)
    BY <2>1 DEF PubInv, NoDoc
  <2>3. QED
    BY <1>1, <1>3, <2>2, FindStep
<1>4. QED
  BY <1>2, <1>3 DEF Start

LEMMA FetchFind ==
    ASSUME IInv, NoneShared, NEW r \in Req, Fetch(r) \/ GetUtxos(r) PROVE NoneShared'
<1>1. call \in [Req -> Call] /\ call[r] \in Call /\ docs' = docs
  BY DEF IInv, TypeOK, Fetch, GetUtxos
<1>3. CASE Fetch(r)
  <2> DEFINE op == call[r].op
             pc == CASE op = "publishTx"   -> "utxos"
                     [] op = "broadcastTx" -> "send"
                     [] OTHER              -> "store"
             c  == [call[r] EXCEPT !.doc = docs[call[r].txp], !.pc = pc]
  <2>1. c.op = op /\ c.pc = pc /\ c.txp = call[r].txp /\ c.doc = docs[c.txp]
    BY <1>1 DEF Call
  <2>2. PubInv(c)
    BY <2>1 DEF PubInv
  <2>3. \/ call' = [call EXCEPT ![r] = Finished(r)]
        \/ call' = [call EXCEPT ![r] = c]
    BY <1>3 DEF Fetch
  <2> HIDE DEF c
  <2>4. QED
    BY <1>1, <2>2, <2>3, FinishedPub, FindStep
<1>4. CASE GetUtxos(r)
  <2>1. PICK free \in BOOLEAN :
            call' = [call EXCEPT ![r] = [call[r] EXCEPT !.pc = "pending", !.free = free]]
    BY <1>4, GetUtxosForm DEF IInv
  <2>2. PubInv([call[r] EXCEPT !.pc = "pending", !.free = free])
    BY <1>1 DEF NoneShared, PubInv, Call
  <2>3. QED
    BY <1>1, <2>1, <2>2, FindStep
<1>5. QED
  BY <1>3, <1>4

\* All the proposals pending now are on the list.
LEMMA FetchPendingFind ==
    ASSUME IInv, NoneShared, NEW r \in Req, FetchPending(r) PROVE NoneShared'
<1> DEFINE snap == [x \in Txp |-> IF docs[x].status = "accepted" THEN docs[x] ELSE NoDoc]
           list == {x \in Txp : IsPending(docs[x])}
           c == [call[r] EXCEPT !.pc = "settle", !.snap = snap, !.list = list]
<1>1. call \in [Req -> Call] /\ call[r] \in Call /\ docs' = docs
  BY DEF IInv, TypeOK, FetchPending
<1>2. call' = [call EXCEPT ![r] = c]
  BY <1>1 DEF FetchPending
<1> HIDE DEF snap
<1>3. /\ c.pc = "settle" /\ c.list = list
      /\ c.op = call[r].op /\ c.txp = call[r].txp /\ c.doc = call[r].doc
  BY <1>1 DEF Call
<1>4. PubInv(c)
  BY <1>3 DEF NoneShared, PubInv
<1> HIDE DEF c
<1>5. QED
  BY <1>1, <1>2, <1>4, FindStep

\* None of those left on the list shares an input.
LEMMA SettledFind ==
    ASSUME IInv, NoneShared, NEW r \in Req, Settled(r) PROVE NoneShared'
<1> DEFINE x == call[r].txp
           free == call[r].free /\ \A y \in call[r].list : x # y /\ ~Clash(x, y)
           c == [call[r] EXCEPT !.pc = "broadcasted", !.list = {}, !.free = free]
<1>1. call \in [Req -> Call] /\ call[r] \in Call /\ docs' = docs /\ call[r].pc = "settle"
  BY DEF IInv, TypeOK, Settled, At
<1>2. call' = [call EXCEPT ![r] = IF call[r].op = "publishTx" THEN c ELSE Finished(r)]
  BY DEF Settled
<1>3. /\ c.pc = "broadcasted" /\ c.free = free /\ c.txp = x /\ c.op = call[r].op
      /\ c.doc = call[r].doc
  BY <1>1 DEF Call
<1>4. ASSUME c.op = "publishTx", NEW y \in Txp, Clash(x, y), free PROVE ~IsPending(docs[y])
  BY <1>1, <1>3, <1>4 DEF NoneShared, PubInv
<1> HIDE DEF c, free
<1>5. PubInv(c)
  BY <1>3, <1>4 DEF NoneShared, PubInv
<1>6. QED
  BY <1>1, <1>2, <1>5, FinishedPub, FindStep

\* Nor does one that was broadcasted.
LEMMA FetchBroadcastedFind ==
    ASSUME IInv, NoneShared, NEW r \in Req, FetchBroadcasted(r) PROVE NoneShared'
<1> DEFINE c == [call[r] EXCEPT !.pc = "store"]
<1>1. /\ call \in [Req -> Call] /\ call[r] \in Call /\ docs' = docs
      /\ call[r].pc = "broadcasted"
  BY DEF IInv, TypeOK, FetchBroadcasted, At
<1>2. /\ c.pc = "store" /\ c.txp = call[r].txp /\ c.op = call[r].op /\ c.doc = call[r].doc
      /\ c.op = "publishTx" => c.txp \in Txp
  BY <1>1 DEF Call, IInv, CallsInv, CallOK, Holds, CallInv
<1>3. CASE call' = [call EXCEPT ![r] = Finished(r)]
  BY <1>1, <1>3, FinishedPub, FindStep
<1>4. CASE /\ call[r].free
           /\ \A y \in Txp : docs[y].status = "broadcasted" =>
                                  call[r].txp # y /\ ~Clash(call[r].txp, y)
           /\ call' = [call EXCEPT ![r] = c]
  <2>1. PubInv(call[r])
    BY DEF NoneShared
  <2>2. PubInv(c)
    BY <1>1, <1>2, <1>4, <2>1 DEF PubInv
  <2>3. QED
    BY <1>1, <1>4, <2>2, FindStep
<1>5. QED
  BY <1>3, <1>4 DEF FetchBroadcasted

\* What a publishTx settles is broadcasted from then on.
LEMMA SettleFind ==
    ASSUME IInv, NoneShared, NEW r \in Req, Settle(r), stale' = stale PROVE NoneShared'
<1>1. /\ call \in [Req -> Call] /\ call[r] \in Call /\ call[r].pc = "settle"
      /\ docs \in [Txp -> Docs] /\ stale \in Nat
  BY DEF IInv, TypeOK, Settle, Broadcasted, At
<1>2. PICK x \in call[r].list \cap sent :
          /\ call[r].snap[x].status = "accepted"
          /\ Write(x, call[r].snap[x], [call[r].snap[x] EXCEPT !.status = "broadcasted"])
          /\ call' = [call EXCEPT ![r].list = @ \ {x}]
  BY DEF Settle, Broadcasted
<1>3. x \in Txp /\ call[r].snap[x] \in Docs
  BY <1>2 DEF IInv, TypeOK, CallsInv, CallOK, Holds, Good
<1> DEFINE d == [call[r].snap[x] EXCEPT !.status = "broadcasted"]
           c == [call[r] EXCEPT !.list = @ \ {x}]
<1>4. d.status = "broadcasted"
  BY <1>3 DEF Docs, Doc
<1>5. docs'[x] = d
  BY <1>1, <1>2, <1>3 DEF Write
<1>6. /\ c.list = call[r].list \ {x} /\ c.pc = "settle" /\ c.txp = call[r].txp
      /\ c.op = call[r].op /\ c.doc = call[r].doc
      /\ c.op = "publishTx" => c.txp \in Txp
  BY <1>1 DEF Call, IInv, CallsInv, CallOK, Holds, CallInv
<1>7. call' = [call EXCEPT ![r] = c]
  BY <1>1, <1>2
<1> HIDE DEF d, c
<1>8. Calm
  BY <1>2, <1>3, <1>4, WriteCalm DEF IsPending, d
<1>9. PubInv(call[r])'
  <2>1. call'[r] = c
    BY <1>1, <1>7
  <2>2. /\ call'[r].list = call[r].list \ {x} /\ call'[r].pc = "settle"
        /\ call'[r].txp = call[r].txp /\ call'[r].op = call[r].op
        /\ call'[r].doc = call[r].doc /\ (call[r].op = "publishTx" => call[r].txp \in Txp)
    BY <1>6, <2>1
  <2>3. ~IsPending(docs'[x])
    BY <1>4, <1>5 DEF IsPending
  <2>4. PubInv(call[r])
    BY DEF NoneShared
  <2>5. QED
    BY <1>1, <1>8, <2>2, <2>3, <2>4 DEF PubInv, Calm
<1>10. ASSUME NEW s \in Req PROVE PubInv(call[s])'
  BY <1>1, <1>7, <1>8, <1>9, CalmStep
<1>11. QED
  BY <1>8, <1>10, CalmStep DEF NoneShared

LEMMA StoreFind ==
    ASSUME IInv, HoldInv, NoneShared, NEW r \in Req, Store(r), stale' = stale PROVE NoneShared'
<1>1. /\ call \in [Req -> Call] /\ call[r] \in Call /\ call[r].pc = "store"
      /\ docs \in [Txp -> Docs] /\ stale \in Nat
      /\ call' = [call EXCEPT ![r] = Finished(r)]
  BY DEF IInv, TypeOK, Store, At
<1>2. PubInv(call[r])'
  <2>1. call'[r] = Finished(r) /\ Finished(r).op = "getPendingTxs"
    BY <1>1 DEF Finished, Idle
  <2>2. QED
    BY <2>1 DEF PubInv
<1>3. CASE call[r].op # "publishTx"
  <2>1. Calm
    BY <1>3, StoreCalm
  <2>2. ASSUME NEW s \in Req PROVE PubInv(call[s])'
    BY <1>1, <1>2, <2>1, CalmStep
  <2>3. QED
    BY <2>1, <2>2, CalmStep DEF NoneShared
\* What is published shares no input with one pending or broadcasted, and no
\* other publishTx is under way.
<1>4. CASE call[r].op = "publishTx"
  <2> DEFINE x == call[r].txp
             d == call[r].doc
             n == [d EXCEPT !.status = "pending"]
  <2>1. /\ x \in Txp /\ d \in Docs /\ Write(x, d, n)
    BY <1>1, <1>4 DEF IInv, CallsInv, CallOK, Holds, CallInv, Good, Store, NewDoc, Created,
                      Published, Broadcasted
  <2>2. docs' = [docs EXCEPT ![x] = n]
    BY <2>1 DEF Write
  <2>3. n.status = "pending" /\ docs'[x] = n /\ \A y \in Txp \ {x} : docs'[y] = docs[y]
    BY <1>1, <2>1, <2>2 DEF Docs, Doc
  <2>4. \A y \in Txp : Clash(x, y) => ~IsPending(docs[y]) /\ docs[y].status # "broadcasted"
    BY <1>1, <1>4 DEF NoneShared, PubInv
  <2> HIDE DEF n, d, x
  <2>5. InputsLocked'
    <3> SUFFICES ASSUME NEW y \in Txp, NEW z \in Txp, IsPending(docs'[y]), Clash(y, z)
                 PROVE  ~IsPending(docs'[z]) /\ docs'[z].status # "broadcasted"
      BY DEF InputsLocked
    <3>1. y # z /\ Clash(z, y)
      BY DEF Clash
    <3>2. CASE y = x
      BY <2>3, <2>4, <3>1, <3>2
    <3>3. CASE z = x
      BY <2>3, <2>4, <3>1, <3>3 DEF IsPending
    <3>4. CASE y # x /\ z # x
      BY <2>3, <3>4 DEF NoneShared, InputsLocked
    <3>5. QED
      BY <3>2, <3>3, <3>4
  <2>6. ASSUME NEW s \in Req \ {r} PROVE PubInv(call[s])'
    <3>1. call'[s] = call[s]
      BY <1>1
    <3>2. r \in holders
      BY <1>1, <1>4 DEF HoldInv, LockedOps
    <3>3. call[s].op # "publishTx"
      BY <3>2 DEF HoldInv, LockedOps
    <3>4. QED
      BY <3>1, <3>3 DEF PubInv
  <2>7. QED
    BY <1>2, <2>5, <2>6 DEF NoneShared
<1>5. QED
  BY <1>3, <1>4

LEMMA SendFind ==
    ASSUME IInv, NoneShared, NEW r \in Req, Send(r) \/ Leave(r) \/ Perish(r) PROVE NoneShared'
<1>1. call \in [Req -> Call] /\ call[r] \in Call /\ docs' = docs
  BY DEF IInv, TypeOK, Send, Leave, Perish
<1>2. Send(r) => PubInv([call[r] EXCEPT !.pc = "store"])
  BY <1>1 DEF Send, At, IInv, CallsInv, CallOK, Holds, CallInv, PubInv, Call
<1>3. \/ call' = [call EXCEPT ![r] = Idle]
      \/ Send(r) /\ call' = [call EXCEPT ![r] = [call[r] EXCEPT !.pc = "store"]]
  BY DEF Send, Leave, Perish
<1>4. QED
  BY <1>1, <1>2, <1>3, FinishedPub, FindStep

LEMMA InitLInv == Init => LInv
<1> SUFFICES ASSUME Init PROVE LInv
  OBVIOUS
<1>1. IInv
  BY InitIInv
<1>2. HoldInv
  BY DEF Init, MutexInit, HoldInv, Idle, LockedOps
<1>3. InputsLocked
  BY DEF Init, InputsLocked, IsPending, NoDoc
<1>4. \A r \in Req : PubInv(call[r])
  BY DEF Init, PubInv, Idle
<1>5. QED
  BY <1>1, <1>2, <1>3, <1>4 DEF LInv, NoneShared

LEMMA NextLInv == LInv /\ [Next]_vars => LInv'
<1> SUFFICES ASSUME LInv, [Next]_vars PROVE LInv'
  OBVIOUS
<1>1. IInv' /\ HoldInv'
  BY NextIInv, HoldStep DEF LInv
<1>2. ASSUME stale' = 0 PROVE NoneShared'
  <2>1. CASE UNCHANGED vars
    <3>1. NoneShared
      BY <1>2, <2>1 DEF LInv, vars
    <3>2. QED
      BY <2>1, <3>1, CalmStep DEF vars, Calm, NoneShared, LInv
  <2>2. CASE Next
    <3>1. stale \in Nat /\ IInv /\ HoldInv
      BY DEF LInv, IInv, TypeOK
    <3>2. stale' = stale
      <4>1. ASSUME NEW r \in Req, Settle(r) \/ Store(r) PROVE stale' \in {stale, stale + 1}
        BY <4>1 DEF Settle, Broadcasted, Store, Write
      <4>2. stale' \in {stale, stale + 1}
        BY <2>2, <4>1 DEF Next, Start, Fetch, GetUtxos, FetchPending, Settled,
           FetchBroadcasted, Send, Leave, Perish, ThirdPartySend
      <4>3. QED
        BY <1>2, <3>1, <4>2
    <3>3. NoneShared
      BY <1>2, <3>2 DEF LInv
    <3>4. ASSUME NEW r \in Req,
                 \/ Start(r) \/ Fetch(r)
                 \/ GetUtxos(r) \/ FetchPending(r) \/ Settle(r) \/ Settled(r)
                 \/ FetchBroadcasted(r) \/ Store(r) \/ Send(r) \/ Leave(r) \/ Perish(r)
          PROVE  NoneShared'
      BY <3>1, <3>2, <3>3, <3>4, StartFind, FetchFind, FetchPendingFind, SettleFind,
         SettledFind, FetchBroadcastedFind, StoreFind, SendFind
    <3>5. ASSUME NEW x \in Txp, ThirdPartySend(x) PROVE NoneShared'
      BY <3>1, <3>3, <3>5, CalmStep DEF ThirdPartySend, Calm, NoneShared
    <3>6. QED
      BY <2>2, <3>4, <3>5 DEF Next
  <2>3. QED
    BY <2>1, <2>2
<1>3. QED
  BY <1>1, <1>2 DEF LInv

\* As long as no handler writes over a change it has not seen, a proposal that
\* is pending has its inputs to itself: none that shares one is pending too, or
\* broadcasted.
THEOREM InputsLockedUnlessRaceHolds == Spec => []InputsLockedUnlessRace
<1>1. LInv => InputsLockedUnlessRace
  BY DEF LInv, NoneShared, InputsLockedUnlessRace
<1>2. QED
  BY <1>1, InitLInv, NextLInv, PTL DEF Spec

-----------------------------------------------------------------------------
\* A write over no unseen change leaves decided proposals and votes alone.
LEMMA WriteStands ==
    ASSUME IInv, NEW x \in Txp, NEW e, NEW d, Write(x, e, d), stale' = stale,
           e.status \in {"rejected", "broadcasted"} => x \in Mutable,
           e.status = "broadcasted" => stale # 0,
           Exists(d) => e.accepts \subseteq d.accepts /\ e.rejects \subseteq d.rejects
    PROVE  \A y \in Txp : Stands(y)
<1>1. stale \in Nat /\ docs \in [Txp -> Docs]
  BY DEF IInv, TypeOK
<1>2. docs[x] = e /\ docs' = [docs EXCEPT ![x] = d]
  BY <1>1 DEF Write
<1>3. docs'[x] = d /\ \A y \in Txp \ {x} : docs'[y] = docs[y]
  BY <1>1, <1>2
<1>4. QED
  BY <1>2, <1>3 DEF Stands

LEMMA StoreStands ==
    ASSUME LInv, NEW r \in Req, At(r, "store")
    PROVE  LET x == call[r].txp
               d == call[r].doc
               n == NewDoc(call[r].op, d, call[r].who)
           IN /\ x \in Txp /\ d.status \in {"rejected", "broadcasted"} => x \in Mutable
              /\ d.status = "broadcasted" => stale # 0
              /\ Exists(n) => d.accepts \subseteq n.accepts /\ d.rejects \subseteq n.rejects
<1> DEFINE op == call[r].op
           x  == call[r].txp
           c  == call[r].who
           d  == call[r].doc
           n  == NewDoc(op, d, c)
<1>1. /\ x \in Txp /\ op \in Ops \ {"getPendingTxs"}
      /\ op \notin ByAnyone => c \in Copayer
      /\ Allowed(op, d, c, x)
      /\ d \in Docs /\ Shape(d, x)
  BY DEF LInv, IInv, CallsInv, CallOK, Holds, CallInv, Call, At, Good
<1>p. op = "publishTx" /\ d.status = "broadcasted" => stale # 0
  BY DEF LInv, NoneShared, PubInv, At
<1> HIDE DEF op, x, c, d
<1>2. CASE op = "createTx"
  <2>1. Actors(d) = {} /\ d.status \in {"none", "removed"}
    BY <1>1, <1>2 DEF Allowed, MayCreate, Exists, Shape, Docs, Doc
  <2>2. QED
    BY <1>1, <2>1 DEF Actors, op, x, c, d
<1>3. CASE op = "publishTx"
  <2>1. n.accepts = d.accepts /\ n.rejects = d.rejects
    BY <1>1, <1>3 DEF NewDoc, Created, Published, Broadcasted, Docs, Doc
  <2>2. d.status = "temporary" \/ x \in Mutable
    BY <1>1, <1>3 DEF Allowed, MayPublish
  <2>3. QED
    BY <1>1, <1>3, <1>p, <2>1, <2>2 DEF op, x, c, d
<1>4. CASE op = "removePendingTx"
  <2>1. n = Removed /\ ~Exists(n)
    BY <1>4 DEF NewDoc, Created, Published, Broadcasted, Removed, NoDoc, Exists
  <2>2. d.status \notin {"rejected", "broadcasted"}
    BY <1>1, <1>4 DEF Allowed, MayRemove, IsPending
  <2>3. QED
    BY <1>1, <2>1, <2>2 DEF op, x, c, d
<1>5. CASE op = "signTx"
  <2>1. n = Sign(d, c) /\ MaySign(d, c) /\ c \in Copayer
    BY <1>1, <1>5 DEF NewDoc, Created, Published, Broadcasted, Allowed, ByAnyone
  <2>2. d.status \notin {"rejected", "broadcasted"}
    BY <2>1 DEF MaySign, IsPending
  <2>3. d.accepts \subseteq n.accepts /\ d.rejects \subseteq n.rejects
    BY <1>1, <2>1, SignGood
  <2>4. QED
    BY <1>1, <2>2, <2>3 DEF op, x, c, d
<1>6. CASE op = "rejectTx"
  <2>1. n = Reject(d, c) /\ MayReject(d, c) /\ c \in Copayer
    BY <1>1, <1>6 DEF NewDoc, Created, Published, Broadcasted, Allowed, ByAnyone
  <2>2. d.status \notin {"rejected", "broadcasted"}
    BY <2>1 DEF MayReject
  <2>3. d.accepts \subseteq n.accepts /\ d.rejects \subseteq n.rejects
    BY <1>1, <2>1, RejectGood
  <2>4. QED
    BY <1>1, <2>2, <2>3 DEF op, x, c, d
<1>7. CASE op = "broadcastTx"
  BY <1>1, <1>7 DEF Allowed, MayBroadcast, NewDoc, Created, Published, Broadcasted, Docs, Doc,
                    op, x, c, d
<1>8. QED
  BY <1>1, <1>2, <1>3, <1>4, <1>5, <1>6, <1>7 DEF Ops

\* A handler that overwrites no unseen change takes back no decision and no
\* copayer's vote, but for a proposal that may be published again: a rejected
\* one is revived, a broadcasted one is not.
THEOREM DecisionsStandHolds == Spec => DecisionsStand
<1>1. LInv /\ [Next]_vars => [stale' = stale => \A x \in Txp : Stands(x)]_vars
  <2> SUFFICES ASSUME LInv, Next, stale' = stale, NEW x \in Txp PROVE Stands(x)
    OBVIOUS
  <2>i. IInv
    BY DEF LInv
  <2>1. CASE docs' = docs
    BY <2>1 DEF Stands
  <2>2. ASSUME NEW r \in Req, Settle(r) PROVE Stands(x)
    <3>1. PICK y \in call[r].list \cap sent :
              /\ call[r].snap[y].status = "accepted"
              /\ Write(y, call[r].snap[y], [call[r].snap[y] EXCEPT !.status = "broadcasted"])
      BY <2>2 DEF Settle, Broadcasted
    <3>2. y \in Txp /\ call[r].snap[y] \in Docs
      BY <2>i, <3>1 DEF IInv, TypeOK, CallsInv, CallOK, Holds, Good
    <3> DEFINE d == call[r].snap[y]
               n == [d EXCEPT !.status = "broadcasted"]
    <3>3. d.accepts = n.accepts /\ d.rejects = n.rejects
      BY <3>2 DEF Docs, Doc
    <3>4. QED
      BY <2>i, <3>1, <3>2, <3>3, WriteStands
  <2>3. ASSUME NEW r \in Req, Store(r) PROVE Stands(x)
    <3> DEFINE y == call[r].txp
               d == call[r].doc
               n == NewDoc(call[r].op, d, call[r].who)
    <3>1. At(r, "store") /\ Write(y, d, n)
      BY <2>3 DEF Store
    <3>2. /\ y \in Txp /\ d.status \in {"rejected", "broadcasted"} => y \in Mutable
          /\ d.status = "broadcasted" => stale # 0
          /\ Exists(n) => d.accepts \subseteq n.accepts /\ d.rejects \subseteq n.rejects
      BY <3>1, StoreStands
    <3>3. y \in Txp
      BY <2>i, <3>1 DEF IInv, CallsInv, CallOK, Holds, CallInv, At
    <3> HIDE DEF y, d, n
    <3>4. QED
      BY <2>i, <3>1, <3>2, <3>3, WriteStands
  <2>4. QED
    BY <2>1, <2>2, <2>3 DEF Next, Start, Fetch, GetUtxos, FetchPending, Settled,
       FetchBroadcasted, Send, Leave, Perish, ThirdPartySend
<1>2. QED
  BY <1>1, InitLInv, NextLInv, PTL DEF Spec, DecisionsStand
=============================================================================
