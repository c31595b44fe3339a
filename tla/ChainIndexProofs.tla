--------------------------- MODULE ChainIndexProofs ---------------------------
(***************************************************************************)
(* Theorems about ChainIndex, for every tree of blocks, every set of       *)
(* transactions and every bound.                                           *)
(***************************************************************************)
EXTENDS ChainIndexInv, TLAPS, WellFoundedInduction

-----------------------------------------------------------------------------
(* Facts about the tree. *)

\* A block is on its own branch, and branches are made of blocks.
LEMMA ChainMember == \A b \in Block : b \in Chain[b] /\ Chain[b] \subseteq Block
<1> SUFFICES ASSUME NEW b \in Block PROVE b \in Chain[b] /\ Chain[b] \subseteq Block
  OBVIOUS
<1>1. CASE b = Genesis  BY <1>1, BlockTypes, BlockTree
<1>2. CASE b # Genesis
  <2>1. Chain[b] = Chain[Parent[b]] \cup {b}  BY <1>2, BlockTree
  <2> QED BY <2>1, BlockTypes
<1> QED BY <1>1, <1>2

\* Heights are natural numbers.
LEMMA HeightType == \A b \in Block : Height[b] \in Nat
BY BlockTypes

\* A block is above everything on its branch, and on a branch the blocks up
\* to a height are the branch of the block at that height.
LEMMA ChainOrder ==
    ASSUME NEW b \in Block, NEW a \in Chain[b]
    PROVE  /\ a \in Block
           /\ Height[a] <= Height[b]
           /\ Chain[a] = {c \in Chain[b] : Height[c] <= Height[a]}
<1>1. a \in Block  BY BlockTypes
<1>2. Chain[a] \subseteq Chain[b] /\ Height[a] <= Height[b]  BY BlockTree
<1>3. \A c \in Chain[a] : Height[c] <= Height[a]  BY <1>1, BlockTree
<1>4. \A c \in Chain[b] : Height[c] <= Height[a] => c \in Chain[a]  BY BlockTree
<1> QED BY <1>1, <1>2, <1>3, <1>4

\* The branch of a block is that of its parent and the block itself, one higher.
LEMMA ParentChain ==
    ASSUME NEW b \in Block, b # Genesis
    PROVE  /\ Parent[b] \in Block
           /\ Height[b] = Height[Parent[b]] + 1
           /\ Chain[b] = Chain[Parent[b]] \cup {b}
           /\ b \notin Chain[Parent[b]]
<1>1. /\ Parent[b] \in Block /\ Height[b] = Height[Parent[b]] + 1
      /\ Chain[b] = Chain[Parent[b]] \cup {b}
  BY BlockTree
<1>2. \A a \in Chain[Parent[b]] : Height[a] <= Height[Parent[b]]  BY <1>1, BlockTree
<1> QED BY <1>1, <1>2, HeightType

\* The path from f to x starts with the child of f on the way to x.
LEMMA PathHead ==
    ASSUME NEW x \in Block, NEW f \in Chain[x], f # x,
           NEW hs, hs = Chain[x] \ Chain[f]
    PROVE  /\ hs # {}
           /\ Head(hs) \in hs
           /\ Head(hs) # Genesis
           /\ Parent[Head(hs)] = f
           /\ Head(hs) \in Chain[x]
           /\ hs \ {Head(hs)} = Chain[x] \ Chain[Head(hs)]
<1>1. PICK c \in Chain[x] : c # Genesis /\ Parent[c] = f  BY BlockTree
<1>2. c \in Block /\ f \in Block  BY ChainOrder
<1>3. Height[c] = Height[f] + 1 /\ Chain[c] = Chain[f] \cup {c} /\ c \notin Chain[f]
  BY <1>1, <1>2, ParentChain
<1>4. c \in hs  BY <1>1, <1>3
<1>5. \A y \in hs : Height[c] <= Height[y] /\ (Height[y] <= Height[c] => y = c)
  <2> SUFFICES ASSUME NEW y \in hs
               PROVE  Height[c] <= Height[y] /\ (Height[y] <= Height[c] => y = c)
    OBVIOUS
  <2>1. y \in Chain[x] /\ y \in Block  BY ChainMember
  <2>2. ~(Height[y] <= Height[f])  BY <2>1, ChainOrder
  <2>3. Height[c] <= Height[y]  BY <2>1, <2>2, <1>2, <1>3, HeightType
  <2>4. Height[y] <= Height[c] => Height[y] = Height[c]  BY <2>1, <2>3, <1>2, HeightType
  <2> QED BY <2>1, <2>3, <2>4, <1>1, BlockTree
<1>6. Head(hs) = c
  <2>1. \A y \in hs : (\A z \in hs : Height[y] <= Height[z]) => y = c  BY <1>4, <1>5
  <2>2. \A z \in hs : Height[c] <= Height[z]  BY <1>5
  <2> QED BY <2>1, <2>2, <1>4, Zenon DEF Head
<1> QED BY <1>1, <1>3, <1>4, <1>6

\* The parent of the first header is the block the path starts from, alone a
\* path too unless it is Genesis.
LEMMA SingletonPath ==
    ASSUME NEW hs, IsPath(hs), hs # {}
    PROVE  /\ Head(hs) \in hs
           /\ Head(hs) \in Block
           /\ Parent[Head(hs)] \in Block
           /\ IsPath({Parent[Head(hs)]}) \/ Parent[Head(hs)] = Genesis
           /\ IsPath(hs \ {Head(hs)})
<1>1. PICK x \in Block : \E f \in Chain[x] : hs = Chain[x] \ Chain[f]  BY DEF IsPath
<1>2. PICK f \in Chain[x] : hs = Chain[x] \ Chain[f]  BY <1>1
<1>3. f # x  BY <1>2
<1>4. /\ Head(hs) \in hs
      /\ Head(hs) \in Chain[x]
      /\ Parent[Head(hs)] = f
      /\ hs \ {Head(hs)} = Chain[x] \ Chain[Head(hs)]
  BY <1>2, <1>3, PathHead
<1>5. Head(hs) \in Block /\ f \in Block  BY <1>4, ChainOrder
<1>6. IsPath({f}) \/ f = Genesis
  <2> SUFFICES ASSUME f # Genesis PROVE IsPath({f})
    OBVIOUS
  <2>1. /\ Parent[f] \in Block
        /\ Chain[f] = Chain[Parent[f]] \cup {f}
        /\ f \notin Chain[Parent[f]]
    BY <1>5, ParentChain
  <2>2. Parent[f] \in Chain[f] /\ {f} = Chain[f] \ Chain[Parent[f]]  BY <2>1, ChainMember
  <2> QED BY <2>2, <1>5 DEF IsPath
<1>7. IsPath(hs \ {Head(hs)})  BY <1>4 DEF IsPath
<1> QED BY <1>4, <1>5, <1>6, <1>7

\* A path is made of blocks.
LEMMA PathBlocks == ASSUME NEW hs, IsPath(hs) PROVE hs \subseteq Block
BY ChainMember DEF IsPath

\* Genesis alone is its own first header.
LEMMA HeadGenesis == Head({Genesis}) = Genesis
<1>1. \E b \in {Genesis} : \A x \in {Genesis} : Height[b] <= Height[x]
  BY BlockTypes
<1> QED BY <1>1, Zenon DEF Head

\* The header taken from a list of headers, and the list it leaves.
LEMMA HeadOfHeaders ==
    ASSUME PathOK, headers # {}
    PROVE  Head(headers) \in Block /\ IsPath(headers \ {Head(headers)})
<1>1. CASE IsPath(headers)  BY <1>1, SingletonPath
<1>2. CASE headers = {Genesis}
  <2>1. Head(headers) = Genesis  BY <1>2, HeadGenesis
  <2>2. IsPath({})
    BY BlockTypes, ChainMember DEF IsPath
  <2> QED BY <1>2, <2>1, <2>2, BlockTypes
<1> QED BY <1>1, <1>2 DEF PathOK

\* A reply to getheaders is the path that follows a locator, or Genesis.
LEMMA ReplyPath ==
    ASSUME NEW L \in SUBSET Block, NEW tip \in Block
    PROVE  \E f \in Chain[tip] : /\ f \in L \cup {Genesis}
                                 /\ Reply(L, tip) = Chain[tip] \ Chain[f]
<1> DEFINE known == (L \cap Chain[tip]) \cup {Genesis}
<1>1. known \in SUBSET Block /\ known # {}  BY BlockTypes
<1>2. \E b \in known : \A x \in known : Height[x] <= Height[b]  BY <1>1, FiniteTree
<1> DEFINE f == CHOOSE b \in known : \A x \in known : Height[x] <= Height[b]
<1>3. f \in known  BY <1>2, Zenon
<1>4. Reply(L, tip) = Chain[tip] \ Chain[f]  BY Zenon DEF Reply
<1>5. f \in Chain[tip] /\ f \in L \cup {Genesis}  BY <1>3, BlockTree
<1> HIDE DEF f
<1> QED BY <1>4, <1>5

\* So it has the shape PathOK asks of the headers.
LEMMA ReplyIsPath ==
    ASSUME NEW L \in SUBSET Block, NEW tip \in Block
    PROVE  IsPath(Reply(L, tip))
BY ReplyPath DEF IsPath

\* Bounded heights have a greatest one.
LEMMA GreatestExists ==
    ASSUME NEW S, S # {}, NEW h, \A x \in S : h[x] \in Nat,
           NEW m \in Nat, \A x \in S : h[x] <= m
    PROVE  \E x \in S : \A y \in S : h[y] <= h[x]
<1> DEFINE gaps == {m - h[x] : x \in S}
<1>1. gaps \subseteq Nat /\ gaps # {}  OBVIOUS
<1>2. PICK d \in gaps : \A e \in gaps : <<e, d>> \notin OpToRel(<, Nat)
  BY <1>1, WFMin, NatLessThanWellFounded, Zenon
<1>3. \A e \in gaps : ~(e < d)
  <2> SUFFICES ASSUME NEW e \in gaps, e < d PROVE FALSE
    OBVIOUS
  <2>1. e \in Nat /\ d \in Nat  BY <1>1
  <2>2. <<e, d>> \in OpToRel(<, Nat)  BY <2>1, Zenon DEF OpToRel
  <2> QED BY <1>2, <2>2, Zenon
<1>4. PICK x \in S : d = m - h[x]  OBVIOUS
<1>5. \A y \in S : ~(m - h[y] < m - h[x])  BY <1>3, <1>4
<1> QED BY <1>5

\* So getLocalTip finds a tip: the choice it makes is among the processed
\* blocks of the greatest height, and there is one.
LEMMA LocalTipFound ==
    ASSUME TypeInv, Processed # {}
    PROVE  /\ LocalTip \in Processed
           /\ \A x \in Processed : blocks[x].height <= blocks[LocalTip].height
<1>1. Processed \subseteq Block  BY DEF Processed
<1>2. PICK m \in Processed : \A x \in Processed : Height[x] <= Height[m]
  BY <1>1, FiniteTree
<1>3. Height[m] \in Nat /\ \A x \in Processed : Height[x] \in Nat
  BY <1>1, HeightType
<1>4. \A x \in Processed : blocks[x].height \in Nat
  BY <1>1 DEF TypeInv, TypeOK, BlockDoc
<1>5. \A x \in Processed : blocks[x].height <= Height[m]
  <2> SUFFICES ASSUME NEW x \in Processed PROVE blocks[x].height <= Height[m]
    OBVIOUS
  <2>1. blocks[x].height <= Height[x]  BY <1>1 DEF TypeInv, HeightsBounded
  <2> QED BY <1>2, <1>3, <1>4, <2>1
<1>6. \E b \in Processed : \A x \in Processed : blocks[x].height <= blocks[b].height
  <2> DEFINE h == [x \in Processed |-> blocks[x].height]
  <2>1. \A x \in Processed : h[x] = blocks[x].height  OBVIOUS
  <2>2. \A x \in Processed : h[x] \in Nat /\ h[x] <= Height[m]  BY <1>4, <1>5, <2>1
  <2> HIDE DEF h
  <2>3. \E b \in Processed : \A x \in Processed : h[x] <= h[b]
    BY <2>2, <1>3, GreatestExists
  <2> QED BY <2>1, <2>3
<1> QED BY <1>6, Zenon DEF LocalTip

-----------------------------------------------------------------------------
(* Type correctness. *)

\* An empty database and a node about to sync have the types.
LEMMA InitType == Init => TypeInv
<1> SUFFICES ASSUME Init PROVE TypeInv
  OBVIOUS
<1>1. TypeOK
  BY BlockTypes, IndexAssumption
  DEF Init, TypeOK, BlockDoc, CoinDoc, TxDoc, JobDoc, NoBlockDoc, NoCoinDoc, NoTxDoc, NoJob,
      HeightField, ABSENT, UNSPENT, Collections, Updates
<1>2. JobOK  BY DEF Init, JobOK, PhaseWork, NoJob, Worker
<1>3. PathOK
  <2>1. IsPath({})  BY BlockTypes, ChainMember DEF IsPath
  <2> QED BY <2>1 DEF Init, PathOK
<1>4. SpentNamed  BY DEF Init, SpentNamed, NoCoinDoc
<1>5. HeightsBounded
  <2>1. NoBlockDoc.height = 0  BY DEF NoBlockDoc
  <2>2. \A b \in Block : blocks[b].height = 0  BY <2>1 DEF Init
  <2>3. ASSUME NEW b \in Block PROVE 0 <= Height[b]
    <3>1. Height[b] \in Nat  BY HeightType
    <3> QED BY <3>1
  <2> QED BY <2>2, <2>3, Zenon DEF HeightsBounded
<1> QED BY <1>1, <1>2, <1>3, <1>4, <1>5 DEF TypeInv

\* Deletions and insertions keep every block no higher than it is.
LEMMA HeightsBoundedStep ==
    ASSUME TypeInv,
           \/ Announce \/ StartSync \/ AskHeaders \/ HandleGenesis \/ GetHeaders \/ WriteSyncedFlag
           \/ EndRound \/ NextBlock \/ DeleteBlocks \/ DeleteTxs \/ DeleteCoins
           \/ UnspendCoins \/ InsertBlock \/ LinkPrevious \/ MarkProcessed
    PROVE  HeightsBounded'
<1>1. blocks \in [Block -> BlockDoc] /\ HeightsBounded  BY DEF TypeInv, TypeOK
<1>2. \A b \in Block : Height[b] \in Nat /\ blocks[b].height \in Nat
  BY <1>1, HeightType DEF BlockDoc
<1>3. ASSUME \A b \in Block : blocks'[b].height = blocks[b].height
      PROVE  HeightsBounded'
  BY <1>1, <1>3 DEF HeightsBounded
<1>4. CASE DeleteBlocks
  <2>1. \A b \in Block : blocks'[b] = blocks[b] \/ blocks'[b] = NoBlockDoc
    BY <1>4 DEF DeleteBlocks
  <2>2. NoBlockDoc.height = 0  BY DEF NoBlockDoc
  <2>3. \A b \in Block : blocks'[b].height <= Height[b]
    BY <1>1, <1>2, <2>1, <2>2 DEF HeightsBounded
  <2> QED BY <2>3 DEF HeightsBounded
<1>5. CASE InsertBlock
  <2>1. cur \in Block  BY <1>5 DEF InsertBlock, TypeInv, JobOK
  <2>2. NewHeight(cur) <= Height[cur]
    <3>1. CASE Parent[cur] # NoBlock /\ BlockStored(Parent[cur])
      <4>1. cur # Genesis  BY <3>1, BlockTypes
      <4>2. Parent[cur] \in Block /\ Height[cur] = Height[Parent[cur]] + 1
        BY <2>1, <4>1, ParentChain
      <4>3. blocks[Parent[cur]].height <= Height[Parent[cur]]
        BY <1>1, <4>2 DEF HeightsBounded
      <4>4. NewHeight(cur) = blocks[Parent[cur]].height + 1  BY <3>1 DEF NewHeight
      <4> QED BY <1>2, <4>2, <4>3, <4>4
    <3>2. CASE ~(Parent[cur] # NoBlock /\ BlockStored(Parent[cur]))
      BY <1>2, <2>1, <3>2 DEF NewHeight
    <3> QED BY <3>1, <3>2
  <2>3. blocks'[cur].height = NewHeight(cur) /\ \A b \in Block \ {cur} : blocks'[b] = blocks[b]
    BY <1>1, <1>5, <2>1 DEF InsertBlock
  <2>4. \A b \in Block : blocks'[b].height <= Height[b]
    BY <1>1, <2>2, <2>3 DEF HeightsBounded
  <2> QED BY <2>4 DEF HeightsBounded
<1>6. CASE LinkPrevious
  <2>1. \A p \in Block : [blocks[p] EXCEPT !.next = cur].height = blocks[p].height
    BY <1>1 DEF BlockDoc
  <2>2. \A b \in Block : blocks'[b] = blocks[b] \/ blocks'[b] = [blocks[b] EXCEPT !.next = cur]
    BY <1>1, <1>6 DEF LinkPrevious
  <2> QED BY <1>3, <2>1, <2>2
<1>7. CASE MarkProcessed
  <2>1. cur \in Block  BY <1>7 DEF MarkProcessed, TypeInv, JobOK
  <2>2. \A b \in Block :
           blocks'[b] = blocks[b] \/ blocks'[b] = [blocks[b] EXCEPT !.st = "processed"]
    BY <1>1, <1>7, <2>1 DEF MarkProcessed
  <2>3. \A b \in Block : [blocks[b] EXCEPT !.st = "processed"].height = blocks[b].height
    BY <1>1 DEF BlockDoc
  <2> QED BY <1>3, <2>2, <2>3
<1>8. CASE UNCHANGED blocks  BY <1>3, <1>8
<1> QED
  BY <1>4, <1>5, <1>6, <1>7, <1>8 DEF Announce, StartSync, AskHeaders, HandleGenesis,
     GetHeaders,
     WriteSyncedFlag, EndRound, NextBlock, DeleteTxs, DeleteCoins, UnspendCoins, db

\* The steps of sync() and addBlock keep the types.
LEMMA SyncType ==
    ASSUME TypeInv,
           \/ Announce \/ StartSync \/ AskHeaders \/ HandleGenesis \/ GetHeaders \/ WriteSyncedFlag
           \/ EndRound \/ NextBlock \/ DeleteBlocks \/ DeleteTxs \/ DeleteCoins
           \/ UnspendCoins \/ InsertBlock \/ LinkPrevious \/ MarkProcessed
    PROVE  TypeInv'
<1>00. HeightsBounded'  BY HeightsBoundedStep
<1> USE DEF TypeInv
<1>01. SpentNamed'
  <2>1. CASE DeleteCoins
    BY <2>1 DEF DeleteCoins, SpentNamed, NoCoinDoc
  <2>2. CASE UnspendCoins
    BY <2>2 DEF UnspendCoins, SpentNamed, TypeOK, CoinDoc
  <2>3. CASE UNCHANGED coins
    BY <2>3 DEF SpentNamed
  <2> QED
    BY <2>1, <2>2, <2>3
    DEF Announce, StartSync, AskHeaders, HandleGenesis, GetHeaders, WriteSyncedFlag,
       EndRound, NextBlock, DeleteBlocks, DeleteTxs, InsertBlock, LinkPrevious, MarkProcessed, db
<1>0. SpentNamed' /\ HeightsBounded'  BY <1>00, <1>01
<1>1. ASSUME UNCHANGED <<job, cur, headers, reply, late>>, pc # "import",
             pc' \in {"insert", "link", "import", "reorg"} => cur \in Block
      PROVE  JobOK' /\ PathOK'
  BY <1>1 DEF JobOK, PathOK, PhaseWork, SpendOps, Spenders, JobTxs
<1>2. CASE Announce
  <2>1. invCache' \in SUBSET Tx
    <3>1. TxsOf[netTip] \in SUBSET Tx  BY TxTypes DEF TypeOK
    <3> QED BY <3>1, <1>2 DEF Announce, TypeOK
  <2>2. TypeOK'  BY <2>1, <1>2 DEF TypeOK, Announce, db
  <2>3. CASE pc = "idle"
    BY <1>0, <2>2, <2>3, <1>2, <1>1 DEF Announce
  <2>4. CASE pc # "idle"
    <3>1. UNCHANGED <<blocks, job, cur, pc, headers, reply, late>>
      BY <1>2, <2>4 DEF Announce, db
    <3>2. JobOK' /\ PathOK'
      BY <3>1 DEF JobOK, PathOK, PhaseWork, SpendOps, Spenders, JobTxs
    <3> QED BY <1>0, <2>2, <3>2
  <2> QED BY <2>3, <2>4
<1>3. CASE WriteSyncedFlag
  <2>1. TypeOK'  BY <1>3 DEF TypeOK, WriteSyncedFlag, env
  <2>2. JobOK' /\ PathOK'
    BY <1>3 DEF WriteSyncedFlag, env, JobOK, PathOK, PhaseWork, SpendOps, Spenders, JobTxs
  <2> QED BY <1>0, <2>1, <2>2
<1>4. CASE EndRound
  <2>1. TypeOK'  BY <1>4 DEF TypeOK, EndRound, db, env
  <2> QED BY <1>0, <2>1, <1>4, <1>1 DEF EndRound, env
<1>5. CASE UnspendCoins
  <2>1. TypeOK'
    BY <1>5 DEF TypeOK, UnspendCoins, env, CoinDoc, UNSPENT, PENDING
  <2> QED BY <1>0, <2>1, <1>5, <1>1 DEF UnspendCoins, env
<1>6. CASE DeleteBlocks
  <2>1. TypeOK'
    BY <1>6, BlockTypes DEF TypeOK, DeleteBlocks, env, BlockDoc, NoBlockDoc
  <2> QED BY <1>0, <2>1, <1>6, <1>1 DEF DeleteBlocks, env, JobOK
<1>7. CASE DeleteTxs
  <2>1. TypeOK'
    BY <1>7 DEF TypeOK, DeleteTxs, env, TxDoc, NoTxDoc, HeightField
  <2> QED BY <1>0, <2>1, <1>7, <1>1 DEF DeleteTxs, env, JobOK
<1>8. CASE DeleteCoins
  <2>1. TypeOK'
    BY <1>8 DEF TypeOK, DeleteCoins, env, CoinDoc, NoCoinDoc, HeightField, UNSPENT
  <2> QED BY <1>0, <2>1, <1>8, <1>1 DEF DeleteCoins, env, JobOK
<1>9. CASE InsertBlock
  <2>1. NewHeight(cur) \in Nat
    <3>1. cur \in Block  BY <1>9 DEF InsertBlock, JobOK
    <3>2. CASE Parent[cur] # NoBlock /\ BlockStored(Parent[cur])
      <4>1. Parent[cur] \in Block  BY <3>1, <3>2, BlockTypes
      <4>2. blocks[Parent[cur]].height \in Nat  BY <4>1 DEF TypeOK, BlockDoc
      <4> QED BY <3>2, <4>2 DEF NewHeight
    <3>3. CASE ~(Parent[cur] # NoBlock /\ BlockStored(Parent[cur]))
      BY <3>3 DEF NewHeight
    <3> QED BY <3>2, <3>3
  <2>2. TypeOK'
    BY <2>1, <1>9 DEF TypeOK, InsertBlock, env, BlockDoc
  <2> QED BY <1>0, <2>2, <1>9, <1>1 DEF InsertBlock, env, JobOK
<1>10. CASE StartSync
  <2>1. TypeOK'  BY <1>10 DEF TypeOK, StartSync, db, env
  <2>2. JobOK'
    BY <1>10 DEF StartSync, JobOK, PhaseWork, SpendOps, Spenders, JobTxs
  <2>3. IsPath({})  BY BlockTypes, ChainMember DEF IsPath
  <2>4. PathOK'  BY <1>10, <2>3 DEF StartSync, PathOK, env
  <2> QED BY <1>0, <2>1, <2>2, <2>4
<1>11. ASSUME NEW hs \in {reply} \cup late, Answer(hs)
       PROVE  /\ IsPath(hs) /\ IsPath(reply')
              /\ \A x \in late' : IsPath(x)
              /\ late' \in SUBSET SUBSET Block /\ lates' \in Nat
              /\ reply' \in SUBSET Block
  <2>1. IsPath(hs)  BY <1>11 DEF PathOK
  <2>2. IsPath({})  BY BlockTypes, ChainMember DEF IsPath
  <2>3. IsPath(reply') /\ reply' \in SUBSET Block  BY <1>11, <2>2 DEF Answer
  <2>4. \A x \in late' : IsPath(x)  BY <1>11 DEF Answer, PathOK
  <2>5. lates' \in Nat  BY <1>11 DEF Answer, TypeOK
  <2> QED BY <1>0, <2>1, <2>3, <2>4, <2>5, PathBlocks
<1>12. CASE AskHeaders
  <2>1. Locators \in SUBSET Block  BY DEF Locators, Processed
  <2>2. IsPath(Reply(Locators, netTip))  BY <2>1, ReplyIsPath DEF TypeOK
  <2>3. IsPath(reply') /\ reply' \in SUBSET Block
    BY <1>12, <2>2, PathBlocks DEF AskHeaders
  <2>4. tipNews' \in {"due", "received", "missed"}  BY <1>12 DEF AskHeaders, TypeOK
  <2>5. TypeOK'  BY <1>12, <2>3, <2>4 DEF TypeOK, AskHeaders, db
  <2>6. JobOK'
    BY <1>12 DEF AskHeaders, JobOK, PhaseWork, SpendOps, Spenders, JobTxs
  <2>7. PathOK'  BY <1>12, <2>3 DEF AskHeaders, PathOK
  <2> QED BY <1>0, <2>5, <2>6, <2>7
<1>13. ASSUME NEW bs \in SUBSET Block, Fetch(bs)
       PROVE  invCache' \in SUBSET Tx /\ tipNews' \in {"due", "received", "missed"}
  BY <1>13, TxTypes DEF Fetch, TypeOK
<1>14. CASE HandleGenesis
  <2>1. PICK hs \in {reply} \cup late :
           /\ Answer(hs)
           /\ Fetch(IF hs = {} THEN {} ELSE {Head(hs)})
           /\ headers' = IF hs = {} THEN {} ELSE {Parent[Head(hs)]}
           /\ pc' = IF hs = {} THEN "headers" ELSE "next"
    BY <1>14 DEF HandleGenesis
  <2>2. IsPath(hs) /\ IsPath(reply') /\ \A x \in late' : IsPath(x)  BY <2>1, <1>11
  <2>8. (IF hs = {} THEN {} ELSE {Head(hs)}) \in SUBSET Block  BY <2>2, SingletonPath
  <2>9. invCache' \in SUBSET Tx /\ tipNews' \in {"due", "received", "missed"}
    BY <2>1, <2>8, <1>13
  <2>3. IsPath(headers') \/ headers' = {Genesis}  BY <2>1, <2>2, SingletonPath
  <2>4. headers' \subseteq Block  BY <2>3, PathBlocks, BlockTypes
  <2>5. TypeOK'
    BY <2>1, <2>4, <2>9, <1>11, <1>14 DEF TypeOK, HandleGenesis, db
  <2>6. JobOK'
    BY <2>1, <1>14 DEF HandleGenesis, JobOK, PhaseWork, SpendOps, Spenders, JobTxs
  <2>7. PathOK'  BY <2>2, <2>3 DEF PathOK
  <2> QED BY <1>0, <2>5, <2>6, <2>7
<1>15. CASE GetHeaders
  <2>1. PICK hs \in {reply} \cup late :
           /\ Answer(hs)
           /\ tipNews' = IF hs = {} /\ reply # {} /\ tipNews = "received" THEN "missed"
                         ELSE tipNews
           /\ headers' = hs
           /\ pc' = IF hs = {} THEN "idle" ELSE "next"
           /\ flagWrite' = (flagWrite \/ hs = {})
    BY <1>15 DEF GetHeaders
  <2>2. IsPath(hs) /\ IsPath(reply') /\ \A x \in late' : IsPath(x)  BY <2>1, <1>11
  <2>3. headers' \subseteq Block  BY <2>1, <2>2, PathBlocks
  <2>4. flagWrite' \in BOOLEAN  BY <2>1 DEF TypeOK
  <2>5. TypeOK'
    BY <2>1, <2>3, <2>4, <1>11, <1>15 DEF TypeOK, GetHeaders, db
  <2>6. JobOK'
    BY <2>1, <1>15 DEF GetHeaders, JobOK, PhaseWork, SpendOps, Spenders, JobTxs
  <2>7. PathOK'  BY <2>1, <2>2 DEF PathOK
  <2> QED BY <1>0, <2>5, <2>6, <2>7
<1>16. CASE NextBlock
  <2> DEFINE b == Head(headers)
  <2>1. b \in Block /\ IsPath(headers \ {b})  BY <1>16, HeadOfHeaders DEF NextBlock
  <2>2. /\ headers' = headers \ {b} /\ cur' = b
        /\ Fetch({b})
        /\ UNCHANGED <<blocks, coins, txs, syncedFlag, initialSyncComplete, flagWrite, job,
                      netTip, reply, late, lates, crashes>>
    BY <1>16 DEF NextBlock, db
  <2>3. ReorgFloor(b) \in Nat \/ Extends(b)
    <3>1. \A x \in Block : blocks[x].height \in Nat  BY DEF TypeOK, BlockDoc
    <3>2. CASE Parent[b] # NoBlock /\ BlockStored(Parent[b])
      BY <2>1, <3>1, <3>2, BlockTypes DEF ReorgFloor
    <3>3. CASE ~(Parent[b] # NoBlock /\ BlockStored(Parent[b])) /\ LocalTip # NoBlock
      <4>1. Processed # {}  BY <3>3, Zenon DEF LocalTip
      <4>2. LocalTip \in Processed  BY <4>1, LocalTipFound
      <4> QED BY <3>1, <3>3, <4>2 DEF ReorgFloor, Processed
    <3>4. CASE LocalTip = NoBlock  BY <3>4 DEF Extends
    <3> QED BY <3>2, <3>3, <3>4
  <2>4. pc' \in {"insert", "reorg"} /\ floor' \in Nat /\ deletes' \in SUBSET Collections
    BY <2>3, <1>16 DEF NextBlock, TypeOK, Collections
  <2> HIDE DEF b
  <2>9. invCache' \in SUBSET Tx /\ tipNews' \in {"due", "received", "missed"}
    BY <2>1, <2>2, <1>13
  <2>5. TypeOK'
    BY <2>1, <2>2, <2>4, <2>9 DEF TypeOK
  <2>6. \A w \in Worker : PhaseWork(w, job[w].phase)' = PhaseWork(w, job[w].phase)
    <3> SUFFICES ASSUME NEW w \in Worker
                 PROVE  PhaseWork(w, job[w].phase)' = PhaseWork(w, job[w].phase)
      OBVIOUS
    <3>1. CASE w = Sync
      BY <3>1, <2>2, <1>16 DEF PhaseWork, NextBlock, JobOK
    <3>2. CASE w # Sync
      BY <3>2, <2>2 DEF PhaseWork, SpendOps, Spenders, JobTxs
    <3> QED BY <3>1, <3>2
  <2>7. JobOK'  BY <2>1, <2>2, <2>6, <1>16 DEF JobOK, NextBlock
  <2>8. PathOK'  BY <2>1, <2>2 DEF PathOK
  <2> QED BY <1>0, <2>5, <2>7, <2>8
<1>17. CASE LinkPrevious
  <2>1. cur \in Block  BY <1>17 DEF LinkPrevious, JobOK
  <2>2. blocks' \in [Block -> BlockDoc]
    <3>1. blocks \in [Block -> BlockDoc]  BY DEF TypeOK
    <3>2. \A p \in Block : [blocks[p] EXCEPT !.next = cur] \in BlockDoc
      BY <2>1, <3>1 DEF BlockDoc
    <3>3. \A p \in Block : [blocks EXCEPT ![p].next = cur] \in [Block -> BlockDoc]
      BY <3>1, <3>2
    <3>4. Parent[cur] # NoBlock => Parent[cur] \in Block  BY <2>1, BlockTypes
    <3> QED BY <3>1, <3>3, <3>4, <1>17 DEF LinkPrevious
  <2>3. /\ job' = [job EXCEPT ![Sync] = job'[Sync]]
        /\ job'[Sync] = [NoJob EXCEPT !.phase = "mint", !.todo = OutputsOf(TxsOf[cur])]
    BY <1>17 DEF LinkPrevious, TypeOK, Worker
  <2>4. job' \in [Worker -> JobDoc]
    <3>1. OutputsOf(TxsOf[cur]) \subseteq Coin  BY DEF OutputsOf
    <3>2. job'[Sync] \in JobDoc  BY <2>3, <3>1 DEF JobDoc, NoJob
    <3> QED BY <2>3, <3>2 DEF TypeOK
  <2>5. TypeOK'
    BY <2>2, <2>4, <1>17 DEF LinkPrevious, TypeOK, env
  <2>6. job'[Sync].todo = PhaseWork(Sync, "mint")' /\ job'[Sync].phase = "mint"
        /\ job'[Sync].updates = {}
    BY <2>3, <1>17 DEF LinkPrevious, PhaseWork, JobTxs, NoJob
  <2>7. \A w \in Worker \ {Sync} :
           job'[w] = job[w] /\ PhaseWork(w, job[w].phase)' = PhaseWork(w, job[w].phase)
    BY <2>3, <1>17 DEF PhaseWork, SpendOps, Spenders, JobTxs, TypeOK
  <2>8. JobOK'  BY <2>1, <2>6, <2>7, <1>17 DEF LinkPrevious, JobOK
  <2>9. PathOK'  BY <1>17 DEF LinkPrevious, PathOK, env
  <2> QED BY <1>0, <2>5, <2>8, <2>9
<1>18. CASE MarkProcessed
  <2>1. cur \in Block  BY <1>18 DEF MarkProcessed, JobOK
  <2>2. blocks' \in [Block -> BlockDoc]
    BY <2>1, <1>18 DEF MarkProcessed, TypeOK, BlockDoc
  <2>3. job' = [job EXCEPT ![Sync] = NoJob]  BY <1>18 DEF MarkProcessed
  <2>4. job' \in [Worker -> JobDoc]
    BY <2>3 DEF TypeOK, JobDoc, NoJob
  <2>5. TypeOK'
    BY <2>2, <2>4, <1>18 DEF MarkProcessed, TypeOK, env
  <2>6. job'[Sync] = NoJob  BY <2>3 DEF TypeOK, Worker
  <2>7. \A w \in Worker \ {Sync} :
           job'[w] = job[w] /\ PhaseWork(w, job[w].phase)' = PhaseWork(w, job[w].phase)
    BY <2>3, <1>18 DEF PhaseWork, SpendOps, Spenders, JobTxs, TypeOK
  <2>8. JobOK'  BY <2>6, <2>7, <1>18 DEF MarkProcessed, JobOK, NoJob, PhaseWork
  <2>9. PathOK'  BY <1>18 DEF MarkProcessed, PathOK, env
  <2> QED BY <1>0, <2>5, <2>8, <2>9
<1> QED
  BY <1>2, <1>3, <1>4, <1>5, <1>6, <1>7, <1>8, <1>9, <1>10, <1>14, <1>15, <1>16, <1>17, <1>18,
     <1>12

\* A step of one worker's job keeps the job invariant if the worker's own
\* record keeps it.
LEMMA JobFrame ==
    ASSUME TypeInv, NEW w \in Worker, NEW j, job' = [job EXCEPT ![w] = j],
           j \in JobDoc, j.todo \subseteq PhaseWork(w, j.phase),
           j.updates # {} => j.phase = "prune" /\ j.invalid \in Tx,
           w = Sync /\ j.phase # "idle" => pc = "import",
           UNCHANGED <<pc, cur>>
    PROVE  JobOK' /\ job' \in [Worker -> JobDoc]
<1>1. job \in [Worker -> JobDoc]  BY DEF TypeInv, TypeOK
<1>2. job'[w] = j /\ \A v \in Worker \ {w} : job'[v] = job[v]  BY <1>1
<1>3. \A v \in Worker, ph \in {"idle", "mint", "prune", "spend", "tx", "done"} :
         PhaseWork(v, ph)' = PhaseWork(v, ph)
  BY DEF PhaseWork, SpendOps, Spenders, JobTxs
<1>4. \A v \in Worker : job'[v].phase \in {"idle", "mint", "prune", "spend", "tx", "done"}
  BY <1>1, <1>2 DEF JobDoc
<1>5. \A v \in Worker : PhaseWork(v, job[v].phase)' = PhaseWork(v, job'[v].phase)
  BY <1>3, <1>4 DEF PhaseWork, SpendOps, Spenders, JobTxs
<1>6. \A v \in Worker :
         /\ job'[v].todo \subseteq PhaseWork(v, job'[v].phase)
         /\ job'[v].updates # {} => job'[v].phase = "prune" /\ job'[v].invalid \in Tx
  BY <1>2 DEF TypeInv, JobOK
<1>7. job'[Sync].phase # "idle" => pc' = "import"
  BY <1>2 DEF TypeInv, JobOK, Worker
<1>8. JobOK'  BY <1>5, <1>6, <1>7 DEF TypeInv, JobOK
<1> QED BY <1>1, <1>8

\* What each phase works on.
LEMMA WorkTypes ==
    ASSUME TypeInv, NEW w \in Worker, job[w].phase # "idle"
    PROVE  /\ JobTxs(w) \subseteq Tx
           /\ JobHeight(w) \in Nat \cup {PENDING}
           /\ OutputsOf(JobTxs(w)) \subseteq Coin
           /\ Spenders(w) \subseteq Tx
           /\ SpendOps(w) \subseteq Tx \X Coin
           /\ \A t \in Spenders(w) : FirstInput[t] \in Coin
<1>1. w = Sync => cur \in Block  BY DEF TypeInv, JobOK
<1>2. JobTxs(w) \subseteq Tx
  BY <1>1, TxTypes, IndexAssumption DEF JobTxs, Worker
<1>3. JobHeight(w) \in Nat \cup {PENDING}
  BY <1>1 DEF JobHeight, TypeInv, TypeOK, BlockDoc
<1>4. OutputsOf(JobTxs(w)) \subseteq Coin  BY DEF OutputsOf
<1>5. Spenders(w) \subseteq Tx  BY <1>2 DEF Spenders
<1>6. SpendOps(w) \subseteq Tx \X Coin
  BY <1>5, TxTypes DEF SpendOps
<1>7. \A t \in Spenders(w) : FirstInput[t] \in Coin
  BY <1>5, TxTypes DEF Spenders, IsCoinbase
<1> QED BY <1>2, <1>3, <1>4, <1>5, <1>6, <1>7

\* The steps of an import keep the types.
LEMMA ImportType ==
    ASSUME TypeInv, NEW w \in Worker, ImportStep(w)
    PROVE  TypeInv'
<1> USE DEF TypeInv
<1>1. job \in [Worker -> JobDoc] /\ job[w] \in JobDoc  BY DEF TypeOK
<1>2. ASSUME job[w].phase = "idle" PROVE FALSE
  <2>1. job[w].todo = {} /\ job[w].updates = {}  BY <1>2 DEF JobOK, PhaseWork
  <2> QED BY <1>2, <2>1 DEF ImportStep, NextPhase, InvalidateTx, InvalidateOutputs, ReleaseInputs
<1>3. w = Sync => pc = "import"  BY <1>2 DEF JobOK
<1>4. ASSUME JobOK', job' \in [Worker -> JobDoc],
             UNCHANGED <<blocks, syncedFlag, pc, headers, cur, floor, deletes,
                         initialSyncComplete, flagWrite, invCache, env>>,
             coins' \in [Coin -> CoinDoc], txs' \in [Tx -> TxDoc], SpentNamed'
      PROVE  TypeInv'
  BY <1>4 DEF TypeOK, PathOK, HeightsBounded, env
<1>5. ASSUME NEW x, job' = Done(w, x), UNCHANGED <<pc, cur>>
      PROVE  JobOK' /\ job' \in [Worker -> JobDoc]
  <2> DEFINE j == [job[w] EXCEPT !.todo = @ \ {x}]
  <2>1. job' = [job EXCEPT ![w] = j]  BY <1>5 DEF Done
  <2>2. /\ j \in JobDoc /\ j.todo \subseteq job[w].todo /\ j.phase = job[w].phase
        /\ j.updates = job[w].updates /\ j.invalid = job[w].invalid
    BY <1>1 DEF JobDoc
  <2> HIDE DEF j
  <2>3. /\ j.todo \subseteq PhaseWork(w, j.phase)
        /\ j.updates # {} => j.phase = "prune" /\ j.invalid \in Tx
    BY <2>2 DEF JobOK
  <2> QED BY <2>1, <2>2, <2>3, <1>3, <1>5, JobFrame
<1>6. ASSUME NEW u \in Updates, u \in job[w].updates, job' = AfterUpdate(w, u),
             UNCHANGED <<pc, cur>>
      PROVE  JobOK' /\ job' \in [Worker -> JobDoc]
  <2>1. CASE job[w].updates = {u}
    <3> DEFINE j == [NoJob EXCEPT !.phase = "prune", !.todo = job[w].todo \ {job[w].by}]
    <3>1. job' = [job EXCEPT ![w] = j]  BY <1>6, <2>1 DEF AfterUpdate
    <3>2. j \in JobDoc /\ j.updates = {} /\ j.phase = "prune" /\ j.todo \subseteq job[w].todo
      BY <1>1 DEF JobDoc, NoJob
    <3> HIDE DEF j
    <3>3. job[w].phase = "prune"  BY <1>6 DEF JobOK
    <3>4. j.todo \subseteq PhaseWork(w, j.phase)  BY <3>2, <3>3 DEF JobOK
    <3> QED BY <3>1, <3>2, <3>4, <1>3, <1>6, JobFrame
  <2>2. CASE job[w].updates # {u}
    <3> DEFINE j == [job[w] EXCEPT !.updates = @ \ {u}]
    <3>1. job' = [job EXCEPT ![w] = j]  BY <1>6, <2>2 DEF AfterUpdate
    <3>2. /\ j \in JobDoc /\ j.todo = job[w].todo /\ j.phase = job[w].phase
          /\ j.invalid = job[w].invalid
      BY <1>1 DEF JobDoc
    <3> HIDE DEF j
    <3>3. job[w].phase = "prune" /\ job[w].invalid \in Tx  BY <1>6 DEF JobOK
    <3>4. j.todo \subseteq PhaseWork(w, j.phase)  BY <3>2 DEF JobOK
    <3> QED BY <3>1, <3>2, <3>3, <3>4, <1>3, <1>6, JobFrame
  <2> QED BY <2>1, <2>2
<1>7. CASE NextPhase(w)
  <2> DEFINE ph == After(job[w].phase)
             j  == IF ph = "done" /\ w # Sync THEN NoJob
                   ELSE [NoJob EXCEPT !.phase = ph, !.todo = Work(w, ph)]
  <2>1. ph \in {"prune", "spend", "tx", "done"}  BY <1>7 DEF NextPhase, After
  <2>2. job' = [job EXCEPT ![w] = j]  BY <1>7 DEF NextPhase
  <2> HIDE DEF ph
  <2>3. /\ Work(w, ph) \subseteq PhaseWork(w, ph)
        /\ Work(w, ph) \subseteq Coin \cup Tx \cup (Tx \X Coin)
    BY <2>1, <1>2, WorkTypes DEF Work, PhaseWork
  <2>4. /\ j \in JobDoc /\ j.updates = {}
        /\ j.todo \subseteq PhaseWork(w, j.phase)
    BY <2>1, <2>3 DEF JobDoc, NoJob
  <2> HIDE DEF j
  <2>5. JobOK' /\ job' \in [Worker -> JobDoc]
    BY <2>2, <2>4, <1>3, <1>7, JobFrame DEF NextPhase
  <2> QED BY <2>5, <1>4, <1>7 DEF NextPhase, db, TypeOK, SpentNamed
<1>8. ASSUME NEW c \in Coin, job[w].phase = "mint", MintCoin(w, c) PROVE TypeInv'
  <2>1. JobHeight(w) \in Nat \cup {PENDING}  BY <1>2, WorkTypes
  <2>2. /\ MintedCoin(c, JobHeight(w)) \in CoinDoc
        /\ MintedCoin(c, JobHeight(w)).spentHeight # UNSPENT =>
              MintedCoin(c, JobHeight(w)).spentTxid \in Tx
    BY <2>1 DEF MintedCoin, TypeOK, CoinDoc, HeightField, UNSPENT, SpentNamed
  <2> HIDE DEF MintedCoin
  <2>3. coins' \in [Coin -> CoinDoc] /\ SpentNamed'
    BY <1>8, <2>2 DEF MintCoin, TypeOK, SpentNamed
  <2> QED BY <2>3, <1>4, <1>5, <1>8 DEF MintCoin, TypeOK
<1>9. ASSUME NEW t \in job[w].todo, job[w].phase = "prune", PruneQuery(w, t) PROVE TypeInv'
  <2>1. t \in Tx /\ FirstInput[t] \in Coin
    BY <1>9, <1>2, WorkTypes DEF JobOK, PhaseWork
  <2>2. CASE job' = Done(w, t)
    BY <2>2, <1>4, <1>5, <1>9 DEF PruneQuery, db, TypeOK, SpentNamed
  <2>3. CASE job' # Done(w, t)
    <3> DEFINE in == coins[FirstInput[t]]
               j  == [job[w] EXCEPT !.invalid = in.spentTxid, !.by = t, !.updates = Updates]
    <3>1. in.spentHeight = PENDING  BY <1>9, <2>3 DEF PruneQuery
    <3>2. job' = [job EXCEPT ![w] = j]  BY <1>9, <2>3 DEF PruneQuery
    <3>3. in.spentTxid \in Tx  BY <3>1, <2>1 DEF SpentNamed, PENDING, UNSPENT
    <3> HIDE DEF in
    <3>4. /\ j \in JobDoc /\ j.phase = "prune" /\ j.invalid \in Tx
          /\ j.todo = job[w].todo
      BY <1>1, <1>9, <2>1, <3>3 DEF JobDoc
    <3> HIDE DEF j
    <3>5. j.todo \subseteq PhaseWork(w, j.phase)  BY <3>4, <1>9 DEF JobOK
    <3>6. JobOK' /\ job' \in [Worker -> JobDoc]
      BY <3>2, <3>4, <3>5, <1>3, <1>9, JobFrame DEF PruneQuery
    <3> QED BY <3>6, <1>4, <1>9 DEF PruneQuery, db, TypeOK, SpentNamed
  <2> QED BY <2>2, <2>3
<1>10. CASE InvalidateTx(w)
  <2>1. job[w].invalid \in Tx /\ job[w].by \in Tx \cup {NoTx}
    BY <1>1, <1>10 DEF InvalidateTx, JobOK, JobDoc
  <2>2. txs' \in [Tx -> TxDoc]
    BY <2>1, <1>10 DEF InvalidateTx, TypeOK, TxDoc, HeightField
  <2>3. JobOK' /\ job' \in [Worker -> JobDoc]
    BY <1>6, <1>10 DEF InvalidateTx, Updates
  <2> QED BY <2>2, <2>3, <1>4, <1>10 DEF InvalidateTx, TypeOK, SpentNamed
<1>11. CASE InvalidateOutputs(w)
  <2>1. coins' \in [Coin -> CoinDoc] /\ SpentNamed'
    BY <1>11 DEF InvalidateOutputs, TypeOK, CoinDoc, HeightField, SpentNamed
  <2>2. JobOK' /\ job' \in [Worker -> JobDoc]
    BY <1>6, <1>11 DEF InvalidateOutputs, Updates
  <2> QED BY <2>1, <2>2, <1>4, <1>11 DEF InvalidateOutputs, TypeOK
<1>12. CASE ReleaseInputs(w)
  <2>1. coins' \in [Coin -> CoinDoc] /\ SpentNamed'
    <3>1. \A c \in Coin :
            \/ coins'[c] = coins[c]
            \/ coins'[c] = [coins[c] EXCEPT !.spentHeight = UNSPENT, !.spentTxid = NoTx]
      BY <1>12 DEF ReleaseInputs
    <3>2. \A c \in Coin : coins[c] \in CoinDoc
      BY DEF TypeOK
    <3>3. \A c \in Coin : [coins[c] EXCEPT !.spentHeight = UNSPENT, !.spentTxid = NoTx] \in CoinDoc
      BY <3>2 DEF CoinDoc
    <3>4. coins' = [c \in Coin |-> coins'[c]]
      BY <1>12 DEF ReleaseInputs
    <3>5. coins' \in [Coin -> CoinDoc]
      BY <3>1, <3>2, <3>3, <3>4
    <3>6. \A c \in Coin :
             [coins[c] EXCEPT !.spentHeight = UNSPENT, !.spentTxid = NoTx].spentHeight = UNSPENT
      BY <3>2 DEF CoinDoc
    <3>7. QED
      BY <3>1, <3>5, <3>6 DEF SpentNamed
  <2>2. JobOK' /\ job' \in [Worker -> JobDoc]
    BY <1>6, <1>12 DEF ReleaseInputs, Updates
  <2> QED BY <2>1, <2>2, <1>4, <1>12 DEF ReleaseInputs, TypeOK
<1>13. ASSUME NEW t \in Tx, NEW c \in Coin, SpendCoin(w, t, c) PROVE TypeInv'
  <2>1. JobHeight(w) \in Nat \cup {PENDING}  BY <1>2, WorkTypes
  <2>2. coins \in [Coin -> CoinDoc]  BY DEF TypeOK
  <2>3. ASSUME Spendable(c) PROVE coins' \in [Coin -> CoinDoc] /\ SpentNamed'
    <3> DEFINE d == [coins[c] EXCEPT !.spentTxid = t, !.spentHeight = JobHeight(w)]
    <3>1. coins' = [coins EXCEPT ![c] = d]  BY <2>2, <2>3, <1>13 DEF SpendCoin
    <3>2. d \in CoinDoc /\ d.spentTxid \in Tx
      BY <2>1, <2>2, <1>13 DEF CoinDoc
    <3> HIDE DEF d
    <3>3. coins' \in [Coin -> CoinDoc]  BY <2>2, <3>1, <3>2
    <3>4. SpentNamed'  BY <2>2, <3>1, <3>2 DEF SpentNamed
    <3> QED BY <3>3, <3>4
  <2>4. ASSUME ~Spendable(c) PROVE coins' \in [Coin -> CoinDoc] /\ SpentNamed'
    BY <2>2, <2>4, <1>13 DEF SpendCoin, SpentNamed
  <2> QED BY <2>3, <2>4, <1>4, <1>5, <1>13 DEF SpendCoin, TypeOK
<1>14. ASSUME NEW t \in Tx, StoreTx(w, t) PROVE TypeInv'
  <2>1. JobHeight(w) \in Nat \cup {PENDING}  BY <1>2, WorkTypes
  <2>2. StoredTx(t, JobHeight(w)) \in TxDoc
    BY <2>1 DEF StoredTx, TypeOK, TxDoc, HeightField
  <2>3. txs' \in [Tx -> TxDoc]  BY <2>2, <1>14 DEF StoreTx, TypeOK
  <2> QED BY <2>3, <1>4, <1>5, <1>14 DEF StoreTx, TypeOK, SpentNamed
<1>15. job[w].phase = "mint" => job[w].todo \subseteq Coin
  BY <1>2, WorkTypes DEF JobOK, PhaseWork
<1>16. job[w].phase = "spend" => job[w].todo \subseteq Tx \X Coin
  BY <1>2, WorkTypes DEF JobOK, PhaseWork
<1>17. job[w].phase = "tx" => job[w].todo \subseteq Tx
  BY <1>2, WorkTypes DEF JobOK, PhaseWork
<1>18. ASSUME job[w].phase = "spend", NEW op \in job[w].todo, SpendCoin(w, op[1], op[2])
       PROVE  TypeInv'
  <2>1. op[1] \in Tx /\ op[2] \in Coin  BY <1>16, <1>18
  <2> QED BY <2>1, <1>13, <1>18
<1> QED
  BY <1>7, <1>8, <1>9, <1>10, <1>11, <1>12, <1>14, <1>15, <1>17, <1>18 DEF ImportStep

\* Receiving a transaction, a better branch and a crash keep the types.
LEMMA EnvType ==
    ASSUME TypeInv,
           \/ \E t \in Mempool : ReceiveTx(t)
           \/ NetworkAdvance
           \/ RejectBlock
           \/ Crash
    PROVE  TypeInv'
<1>0. HeightsBounded'
  <2>1. UNCHANGED blocks  BY DEF ReceiveTx, NetworkAdvance, RejectBlock, Crash, db
  <2> QED BY <2>1 DEF TypeInv, HeightsBounded
<1> USE DEF TypeInv
<1>1. ASSUME NEW t \in Mempool, ReceiveTx(t) PROVE TypeInv'
  <2> DEFINE j == [NoJob EXCEPT !.phase = "mint", !.todo = OutputsOf({t})]
  <2>1. t \in Worker /\ t \in Tx /\ t # Sync  BY IndexAssumption DEF Worker
  <2>2. job' = [job EXCEPT ![t] = j]  BY <1>1 DEF ReceiveTx
  <2>3. /\ j \in JobDoc /\ j.updates = {} /\ j.phase = "mint"
        /\ j.todo \subseteq PhaseWork(t, "mint")
    BY <2>1 DEF JobDoc, NoJob, OutputsOf, PhaseWork, JobTxs
  <2> HIDE DEF j
  <2>4. JobOK' /\ job' \in [Worker -> JobDoc]
    BY <2>1, <2>2, <2>3, <1>1, JobFrame DEF ReceiveTx
  <2>5. invCache' \in SUBSET Tx  BY <2>1, <1>1 DEF ReceiveTx, TypeOK
  <2>6. TypeOK' /\ PathOK' /\ SpentNamed'
    BY <2>4, <2>5, <1>1 DEF ReceiveTx, TypeOK, PathOK, SpentNamed, db, env
  <2> QED BY <1>0, <2>4, <2>6
<1>2. CASE NetworkAdvance
  <2>1. TypeOK'  BY <1>2 DEF NetworkAdvance, TypeOK, db, node
  <2>2. JobOK' /\ PathOK' /\ SpentNamed'
    BY <1>2 DEF NetworkAdvance, JobOK, PathOK, SpentNamed, db, node, PhaseWork, SpendOps,
       Spenders, JobTxs
  <2> QED BY <1>0, <2>1, <2>2
<1>3. CASE Crash
  <2>1. NoJob \in JobDoc  BY DEF NoJob, JobDoc
  <2>2. TypeOK'
    <3>1. job' \in [Worker -> JobDoc]  BY <2>1, <1>3 DEF Crash
    <3>2. crashes' \in Nat  BY <1>3 DEF Crash, TypeOK
    <3> QED BY <3>1, <3>2, <1>3 DEF Crash, TypeOK, db
  <2>3. JobOK'  BY <1>3 DEF Crash, JobOK, NoJob, Worker
  <2>4. IsPath({})  BY BlockTypes, ChainMember DEF IsPath
  <2>5. PathOK' /\ SpentNamed'  BY <2>4, <1>3 DEF Crash, PathOK, SpentNamed, db
  <2> QED BY <1>0, <2>2, <2>3, <2>5
<1>4. CASE RejectBlock
  <2>1. NoJob \in JobDoc /\ NoJob.todo = {} /\ NoJob.updates = {} /\ NoJob.phase = "idle"
    BY DEF NoJob, JobDoc
  <2>2. UNCHANGED cur /\ job' = [job EXCEPT ![Sync] = NoJob]  BY <1>4 DEF RejectBlock
  <2>3. job' \in [Worker -> JobDoc] /\ job'[Sync] = NoJob
        /\ \A w \in Worker \ {Sync} : job'[w] = job[w]
    BY <2>1, <2>2 DEF TypeOK, Worker
  <2>4. TypeOK'
    <3>1. crashes' \in Nat  BY <1>4 DEF RejectBlock, TypeOK
    <3> QED BY <2>3, <3>1, <1>4 DEF RejectBlock, TypeOK, db
  <2>5. \A w \in Worker \ {Sync} :
           PhaseWork(w, job[w].phase)' = PhaseWork(w, job[w].phase)
    BY <2>3 DEF PhaseWork, SpendOps, Spenders, JobTxs
  <2>6. JobOK'  BY <2>1, <2>3, <2>5, <1>4 DEF RejectBlock, JobOK
  <2>7. PathOK' /\ SpentNamed'  BY <1>4 DEF RejectBlock, PathOK, SpentNamed, db
  <2> QED BY <1>0, <2>4, <2>6, <2>7
<1> QED BY <1>1, <1>2, <1>3, <1>4

\* The type invariant depends on the variables only.
LEMMA StutterType == TypeInv /\ UNCHANGED vars => TypeInv'
<1> SUFFICES ASSUME TypeInv, UNCHANGED vars PROVE TypeInv'
  OBVIOUS
<1>1. TypeOK'  BY DEF TypeInv, TypeOK, vars
<1>2. JobOK'  BY DEF TypeInv, JobOK, vars, PhaseWork, SpendOps, Spenders, JobTxs
<1>3. PathOK' /\ SpentNamed' /\ HeightsBounded'
  BY DEF TypeInv, PathOK, SpentNamed, HeightsBounded, vars
<1> QED BY <1>1, <1>2, <1>3 DEF TypeInv

\* Every step of the specification keeps the types.
LEMMA TypeStep == TypeInv /\ [Next]_vars => TypeInv'
<1> SUFFICES ASSUME TypeInv, [Next]_vars PROVE TypeInv'
  OBVIOUS
<1>1. ASSUME NEW w \in Worker, ImportStep(w) PROVE TypeInv'
  BY <1>1, ImportType
<1> QED
  BY <1>1, SyncType, EnvType, StutterType DEF Next, SyncStep, Worker

\* Whatever the tree of blocks, the transactions relayed and the bounds, what
\* sync(), addBlock and batchImport write keeps the shape of the collections,
\* and every import works on its own transactions.
THEOREM TypeCorrect == Spec => [](TypeInv /\ TypeOK)
<1>1. TypeInv => TypeOK  BY DEF TypeInv
<1> QED BY <1>1, InitType, TypeStep, PTL DEF Spec

-----------------------------------------------------------------------------
(* The processed blocks are one branch. *)

\* getLocalTip finds the end of the branch.
LEMMA LocalTipIs ==
    ASSUME TypeOK, HeightsOK, NEW t \in Block, Processed = Chain[t]
    PROVE  LocalTip = t /\ blocks[t].height = Height[t] /\ t \in Processed
<1>1. t \in Processed  BY ChainMember
<1>2. \A b \in Processed : blocks[b].height = Height[b]
  BY DEF Processed, HeightsOK, BlockStored
<1>3. \A b \in Processed : blocks[b].height <= blocks[t].height
  BY <1>1, <1>2, ChainOrder
<1>4. ASSUME NEW b \in Processed, blocks[t].height <= blocks[b].height PROVE b = t
  <2>1. Height[t] <= Height[b]  BY <1>1, <1>2, <1>4
  <2>2. b \in Chain[t]  OBVIOUS
  <2>3. Height[b] <= Height[t] /\ b \in Block  BY <2>2, ChainOrder
  <2>4. Height[b] = Height[t]  BY <2>1, <2>3, HeightType
  <2> QED BY <2>2, <2>4, ChainMember, BlockTree
<1>5. \A b \in Processed : (\A x \in Processed : blocks[x].height <= blocks[b].height) => b = t
  BY <1>1, <1>4
<1>6. LocalTip = CHOOSE b \in Processed : \A x \in Processed : blocks[x].height <= blocks[b].height
  BY <1>1 DEF LocalTip
<1>7. LocalTip = t  BY <1>1, <1>3, <1>5, <1>6, Zenon
<1> QED BY <1>1, <1>2, <1>7

\* The index is that of the branch of t, where height 0 is Genesis alone.
TipIs(t) ==
    /\ Processed = Chain[t] /\ LocalTip = t /\ t # NoBlock
    /\ blocks[t].height = Height[t]
    /\ blocks[t].height = 0 => t = Genesis /\ Processed = {Genesis}

\* The index is empty and has no tip, or it is the branch of its tip.
LEMMA TipCases ==
    ASSUME TypeOK, HeightsOK, IsBranch
    PROVE  \/ Processed = {} /\ LocalTip = NoBlock
           \/ Processed # {} /\ \E t \in Block : TipIs(t)
<1>1. CASE Processed = {}  BY <1>1, Zenon DEF LocalTip
<1>2. ASSUME NEW t \in Block, Processed = Chain[t] PROVE TipIs(t) /\ Processed # {}
  <2>1. LocalTip = t /\ blocks[t].height = Height[t] /\ t # NoBlock /\ Processed # {}
    BY <1>2, LocalTipIs, BlockTypes
  <2>2. ASSUME blocks[t].height = 0 PROVE t = Genesis
    <3>1. Genesis \in Chain[t] /\ t \in Chain[t]  BY BlockTree, ChainMember
    <3>2. Height[Genesis] = Height[t]  BY <2>1, <2>2, BlockTypes
    <3> QED BY <3>1, <3>2, BlockTree
  <2> QED BY <1>2, <2>1, <2>2, BlockTree DEF TipIs
<1> QED BY <1>1, <1>2 DEF IsBranch

\* The branch invariant depends on these variables only.
LEMMA BranchFrame ==
    ASSUME BranchInv, UNCHANGED <<blocks, pc, headers, cur, floor, deletes, netTip, reply>>
    PROVE  BranchInv'
BY DEF BranchInv, HeightsOK, IsBranch, CursorOK, NetOK, BlockStored, Processed, AtCursor, PathFrom

\* An empty index is a branch.
LEMMA InitBranch == Init => BranchInv
BY IndexAssumption
DEF Init, BranchInv, HeightsOK, IsBranch, CursorOK, NetOK, BlockStored, Processed, NoBlockDoc

\* An answer that is not late is the reply to the request under way.
LEMMA AnswerInOrder ==
    ASSUME TypeInv, lates' = 0, NEW hs \in {reply} \cup late, Answer(hs)
    PROVE  hs = reply
BY DEF Answer, TypeInv, TypeOK

\* The reply follows the block it is asked from.
LEMMA ReplyFollows ==
    ASSUME TypeInv
    PROVE  /\ netTip \in Block
           /\ \E f \in Chain[netTip] : /\ f \in Processed \cup {Genesis}
                                       /\ Reply(Locators, netTip) = Chain[netTip] \ Chain[f]
<1>1. Locators \subseteq Processed /\ Locators \in SUBSET Block
  BY DEF Locators, Processed
<1>2. netTip \in Block  BY DEF TypeInv, TypeOK
<1> QED BY <1>1, <1>2, ReplyPath

\* A step that leaves the documents of the blocks alone.
LEMMA BlocksFrame ==
    ASSUME UNCHANGED blocks
    PROVE  /\ Processed' = Processed
           /\ HeightsOK' = HeightsOK
           /\ IsBranch' = IsBranch
           /\ \A b : BlockStored(b)' = BlockStored(b)
BY DEF Processed, HeightsOK, IsBranch, BlockStored

\* sync() between its requests: the headers follow a processed block.
LEMMA RequestBranch ==
    ASSUME TypeInv, BranchInv, lates' = 0,
           Announce \/ StartSync \/ AskHeaders \/ HandleGenesis \/ GetHeaders \/ EndRound
    PROVE  BranchInv'
<1> USE DEF TypeInv, BranchInv
<1>1. UNCHANGED <<blocks, netTip>>
  BY DEF Announce, StartSync, AskHeaders, HandleGenesis, GetHeaders, EndRound, db, env
<1>2. HeightsOK' /\ IsBranch' /\ NetOK' /\ Processed' = Processed
  BY <1>1, BlocksFrame DEF NetOK
<1>3. CASE Announce
  <2>1. CASE pc = "idle"  BY <2>1, <1>2, <1>3 DEF Announce, CursorOK
  <2>2. CASE pc # "idle"
    <3>1. UNCHANGED <<blocks, pc, headers, cur, floor, deletes, netTip, reply>>
      BY <1>3, <2>2 DEF Announce, db
    <3> QED BY <3>1, BranchFrame
  <2> QED BY <2>1, <2>2
<1>4. CASE StartSync
  <2>1. pc' = "genesis" => Processed \subseteq {Genesis}
    BY <1>4, TipCases DEF StartSync, TipIs
  <2>2. pc' = "headers" => Processed # {}
    BY <1>4, TipCases DEF StartSync
  <2> QED BY <2>1, <2>2, <1>2, <1>4 DEF StartSync, CursorOK
<1>5. CASE HandleGenesis
  <2>1. Processed \subseteq {Genesis}  BY <1>5 DEF HandleGenesis, CursorOK
  <2>2. PICK hs \in {reply} \cup late :
           /\ Answer(hs)
           /\ headers' = IF hs = {} THEN {} ELSE {Parent[Head(hs)]}
           /\ pc' = IF hs = {} THEN "headers" ELSE "next"
    BY <1>5 DEF HandleGenesis
  <2>3. PICK x \in Block : hs = Chain[x] \ Chain[Genesis] /\ x # Genesis
    BY <2>2, <1>5, AnswerInOrder DEF HandleGenesis, CursorOK
  <2>4. Genesis \in Chain[x]  BY BlockTree
  <2>5. hs # {} /\ Parent[Head(hs)] = Genesis  BY <2>3, <2>4, PathHead
  <2>6. headers' = {Genesis} /\ pc' = "next"  BY <2>2, <2>5
  <2> QED BY <2>1, <2>6, <1>2 DEF CursorOK
<1>6. CASE GetHeaders
  <2>1. PICK hs \in {reply} \cup late :
           /\ Answer(hs)
           /\ headers' = hs
           /\ pc' = IF hs = {} THEN "idle" ELSE "next"
    BY <1>6 DEF GetHeaders
  <2>2. PICK x \in Block : \E f \in Processed \cap Chain[x] : hs = Chain[x] \ Chain[f]
    BY <2>1, <1>6, AnswerInOrder DEF GetHeaders, CursorOK
  <2>3. PICK f \in Processed \cap Chain[x] : hs = Chain[x] \ Chain[f]  BY <2>2
  <2>4. PathFrom(f)'  BY <2>1, <2>3 DEF PathFrom
  <2> QED BY <2>1, <2>3, <2>4, <1>2 DEF CursorOK
<1>8. CASE AskHeaders
  <2>1. PICK f \in Chain[netTip] : /\ f \in Processed \cup {Genesis}
                                  /\ reply' = Chain[netTip] \ Chain[f]
    BY <1>8, ReplyFollows DEF AskHeaders
  <2>2. netTip \in Block /\ netTip # Genesis  BY ReplyFollows DEF NetOK
  <2>3. CASE pc = "genesis" /\ pc' = "awaitGenesis"
    <3>1. Processed \subseteq {Genesis}  BY <2>3 DEF CursorOK
    <3>2. reply' = Chain[netTip] \ Chain[Genesis]  BY <2>1, <3>1
    <3> QED BY <2>2, <2>3, <3>1, <3>2, <1>2 DEF CursorOK
  <2>4. CASE pc = "headers" /\ pc' = "awaitHeaders"
    <3>1. Processed # {}  BY <2>4 DEF CursorOK
    <3>2. Genesis \in Processed  BY <3>1, BlockTree DEF IsBranch
    <3>3. f \in Processed \cap Chain[netTip]  BY <2>1, <3>2
    <3> QED BY <2>1, <2>2, <2>4, <3>1, <3>3, <1>2 DEF CursorOK
  <2> QED BY <2>3, <2>4, <1>8 DEF AskHeaders
<1>7. CASE EndRound
  <2>1. Processed # {}  BY <1>7 DEF EndRound, CursorOK
  <2> QED BY <2>1, <1>2, <1>7 DEF EndRound, CursorOK
<1> QED BY <1>3, <1>4, <1>5, <1>6, <1>7, <1>8

\* The next header either continues the branch or names the block to cut it at.
LEMMA NextBlockBranch ==
    ASSUME TypeInv, BranchInv, NextBlock
    PROVE  BranchInv'
<1> USE DEF TypeInv, BranchInv
<1> DEFINE b == Head(headers)
<1>1. UNCHANGED <<blocks, netTip>>  BY DEF NextBlock, db
<1>2. HeightsOK' /\ IsBranch' /\ NetOK' /\ Processed' = Processed
  BY <1>1, BlocksFrame DEF NetOK
<1>3. cur' = b /\ headers' = headers \ {b} /\ headers # {}  BY DEF NextBlock
<1>4. CASE headers = {Genesis} /\ Processed \subseteq {Genesis}
  <2>1. b = Genesis /\ headers' = {}  BY <1>3, <1>4, HeadGenesis
  <2>2. Extends(b)
    <3>1. CASE Processed = {}  BY <3>1 DEF Extends, LocalTip
    <3>2. CASE Processed = {Genesis}
      <4>1. Processed = Chain[Genesis] /\ Genesis \in Block  BY <3>2, BlockTree, BlockTypes
      <4> QED BY <4>1, LocalTipIs, BlockTypes DEF Extends
    <3> QED BY <3>1, <3>2, <1>4
  <2>3. pc' = "insert"  BY <2>2 DEF NextBlock
  <2>4. AtCursor'  BY <2>1, <1>3 DEF AtCursor
  <2> QED BY <2>1, <2>3, <2>4, <1>2, <1>3, <1>4 DEF CursorOK
<1>5. ASSUME NEW f \in Processed, PathFrom(f) PROVE BranchInv'
  <2>1. PICK x \in Block : f \in Chain[x] /\ headers = Chain[x] \ Chain[f]
    BY <1>5 DEF PathFrom
  <2>2. f # x  BY <2>1, <1>3
  <2>3. /\ b # Genesis /\ Parent[b] = f /\ b \in Chain[x] /\ b \in Block
        /\ headers \ {b} = Chain[x] \ Chain[b]
    BY <2>1, <2>2, PathHead, ChainOrder
  <2> HIDE DEF b
  <2>4. PathFrom(cur)'  BY <2>1, <2>3, <1>3 DEF PathFrom
  <2>5. PICK t \in Block : TipIs(t)  BY <1>5, TipCases
  <2>6. CASE Extends(b)
    <3>1. f = t  BY <2>3, <2>5, <2>6, <1>5 DEF Extends, TipIs
    <3>2. AtCursor'  BY <3>1, <2>3, <2>4, <2>5, <1>2, <1>3 DEF AtCursor, TipIs
    <3>3. pc' = "insert"  BY <2>6 DEF NextBlock, b
    <3> QED BY <3>2, <3>3, <2>3, <1>2, <1>3 DEF CursorOK
  <2>7. CASE ~Extends(b)
    <3>1. BlockStored(f) /\ f \in Block  BY <1>5 DEF BlockStored, Processed
    <3>2. ReorgFloor(b) = Height[f]
      BY <3>1, <2>3, BlockTypes DEF ReorgFloor, HeightsOK
    <3>3. pc' = "reorg" /\ floor' = Height[f]  BY <3>2, <2>7 DEF NextBlock, b
    <3> QED BY <3>3, <2>3, <1>2, <1>3, <1>5 DEF CursorOK
  <2> QED BY <2>6, <2>7
<1>6. pc = "next"  BY DEF NextBlock
<1> QED BY <1>4, <1>5, <1>6 DEF CursorOK

\* What the deletion leaves: the branch of the cut block, without it.
LEMMA DeleteBranch ==
    ASSUME TypeInv, BranchInv, DeleteBlocks
    PROVE  /\ BranchInv'
           /\ \E f \in Processed : \/ f = Genesis /\ Processed' = {}
                                   \/ f # Genesis /\ Processed' = Chain[Parent[f]]
<1> USE DEF TypeInv, BranchInv
<1> DEFINE f == Parent[cur]
<1>1. f \in Processed /\ floor = Height[f] /\ f \in Block
  BY DEF DeleteBlocks, CursorOK, Processed
<1>2. \A b \in Block : blocks'[b] = IF BlockStored(b) /\ Height[b] >= Height[f]
                                    THEN NoBlockDoc ELSE blocks[b]
  BY <1>1 DEF DeleteBlocks, HeightsOK
<1>3. HeightsOK'  BY <1>2 DEF HeightsOK, BlockStored, NoBlockDoc
<1>4. Processed' = {b \in Processed : Height[b] < Height[f]}
  BY <1>1, <1>2, HeightType DEF Processed, BlockStored, NoBlockDoc
<1>5. PICK t \in Block : Processed = Chain[t]  BY <1>1 DEF IsBranch
<1>6. Chain[f] = {c \in Processed : Height[c] <= Height[f]}
  BY <1>1, <1>5, ChainOrder
<1>7. \A c \in Processed : Height[c] = Height[f] => c = f
  BY <1>1, <1>5, BlockTree
<1>8. Processed' = Chain[f] \ {f}
  <2>1. \A c \in Processed : c \in Block  BY DEF Processed
  <2>2. \A c \in Processed : Height[c] < Height[f] <=> Height[c] <= Height[f] /\ c # f
    BY <2>1, <1>1, <1>7, HeightType
  <2> QED BY <2>2, <1>4, <1>6
<1> HIDE DEF f
<1>9. f = Genesis => Processed' = {}  BY <1>8, BlockTree
<1>10. f # Genesis => Processed' = Chain[Parent[f]] /\ Parent[f] \in Block
  BY <1>1, <1>8, ParentChain
<1>11. IsBranch'  BY <1>9, <1>10 DEF IsBranch
<1>12. NetOK' /\ CursorOK'
  BY DEF DeleteBlocks, env, NetOK, CursorOK
<1> QED BY <1>1, <1>3, <1>9, <1>10, <1>11, <1>12

\* The block enters at its height, above the branch and not yet part of it.
LEMMA InsertBranch ==
    ASSUME TypeInv, BranchInv, InsertBlock
    PROVE  /\ BranchInv'
           /\ \/ Processed' = Processed
              \/ Processed = {Genesis} /\ Processed' = {}
<1> USE DEF TypeInv, BranchInv
<1>1. cur \in Block /\ AtCursor /\ (cur = Genesis => Processed \subseteq {Genesis})
  BY DEF InsertBlock, JobOK, CursorOK
<1>2. NewHeight(cur) = Height[cur]
  <2>1. CASE cur = Genesis  BY <2>1, BlockTypes DEF NewHeight
  <2>2. CASE cur # Genesis
    <3>1. Parent[cur] \in Block /\ Height[cur] = Height[Parent[cur]] + 1  BY <1>1, <2>2, ParentChain
    <3>2. Parent[cur] \in Processed  BY <1>1, <2>2, <3>1, ChainMember DEF AtCursor
    <3>3. BlockStored(Parent[cur])  BY <3>2 DEF BlockStored, Processed
    <3> QED BY <3>1, <3>3, BlockTypes DEF NewHeight, HeightsOK
  <2> QED BY <2>1, <2>2
<1>3. blocks' = [blocks EXCEPT ![cur] = [st |-> "unprocessed", height |-> Height[cur],
                                         next |-> NoBlock]]
  BY <1>2 DEF InsertBlock
<1>4. HeightsOK' /\ BlockStored(cur)'
  <2>1. blocks'[cur].st = "unprocessed" /\ blocks'[cur].height = Height[cur]
    BY <1>1, <1>3 DEF TypeOK
  <2>2. \A b \in Block \ {cur} : blocks'[b] = blocks[b]  BY <1>3 DEF TypeOK
  <2>3. cur' = cur  BY DEF InsertBlock
  <2> QED BY <2>1, <2>2, <2>3 DEF HeightsOK, BlockStored
<1>5. Processed' = Processed \ {cur}  BY <1>1, <1>3 DEF Processed, TypeOK
<1>6. CASE cur = Genesis
  <2>1. Processed' = {}  BY <1>1, <1>5, <1>6
  <2>2. AtCursor'  BY <1>1, <1>6 DEF AtCursor, InsertBlock
  <2>3. CursorOK'  BY <1>4, <2>1, <2>2 DEF CursorOK, InsertBlock
  <2>4. NetOK' /\ IsBranch'  BY <2>1 DEF NetOK, IsBranch, InsertBlock, env
  <2> QED BY <1>1, <1>4, <1>6, <2>1, <2>3, <2>4
<1>7. CASE cur # Genesis
  <2>1. Processed = Chain[Parent[cur]] /\ PathFrom(cur)  BY <1>1, <1>7 DEF AtCursor
  <2>2. Processed' = Processed  BY <1>1, <1>5, <1>7, <2>1, ParentChain
  <2>3. AtCursor'  BY <1>7, <2>1, <2>2 DEF AtCursor, PathFrom, InsertBlock
  <2>4. CursorOK'  BY <1>4, <1>7, <2>3 DEF CursorOK, InsertBlock
  <2>5. NetOK' /\ IsBranch'  BY <2>2 DEF NetOK, IsBranch, InsertBlock, env
  <2> QED BY <1>4, <2>2, <2>4, <2>5
<1> QED BY <1>6, <1>7

\* nextBlockHash changes nothing the invariant speaks of.
LEMMA LinkBranch ==
    ASSUME TypeInv, BranchInv, LinkPrevious
    PROVE  BranchInv' /\ Processed' = Processed
<1> USE DEF TypeInv, BranchInv
<1>1. \A b \in Block : blocks'[b].st = blocks[b].st /\ blocks'[b].height = blocks[b].height
  BY BlockTypes DEF LinkPrevious, TypeOK, BlockDoc
<1>2. HeightsOK' /\ Processed' = Processed /\ \A b \in Block : BlockStored(b)' = BlockStored(b)
  BY <1>1 DEF HeightsOK, Processed, BlockStored
<1>3. cur \in Block  BY DEF LinkPrevious, JobOK
<1>4. CursorOK'
  BY <1>2, <1>3 DEF CursorOK, AtCursor, PathFrom, LinkPrevious
<1>5. NetOK' /\ IsBranch'  BY <1>2 DEF NetOK, IsBranch, LinkPrevious, env
<1> QED BY <1>2, <1>4, <1>5

\* The block becomes the tip.
LEMMA MarkBranch ==
    ASSUME TypeInv, BranchInv, MarkProcessed
    PROVE  /\ BranchInv'
           /\ cur \in Block /\ Processed' = Chain[cur]
           /\ \/ cur = Genesis /\ Processed = {}
              \/ cur # Genesis /\ Processed = Chain[Parent[cur]]
<1> USE DEF TypeInv, BranchInv
<1>1. cur \in Block /\ AtCursor /\ BlockStored(cur) /\ (cur = Genesis => Processed = {})
  BY DEF MarkProcessed, JobOK, CursorOK
<1>2. blocks' = [blocks EXCEPT ![cur].st = "processed"]  BY DEF MarkProcessed
<1>3. HeightsOK' /\ Processed' = Processed \cup {cur}
  BY <1>1, <1>2 DEF HeightsOK, BlockStored, Processed, TypeOK, BlockDoc
<1>4. Processed' = Chain[cur] /\ PathFrom(cur)
  <2>1. CASE cur = Genesis
    <3>1. headers = {} /\ Genesis \in Chain[Genesis]
      BY <1>1, <2>1, BlockTree, BlockTypes DEF AtCursor, PathFrom
    <3>2. PathFrom(Genesis)  BY <3>1, BlockTypes DEF PathFrom
    <3> QED BY <1>1, <1>3, <2>1, <3>2, BlockTree
  <2>2. CASE cur # Genesis
    BY <1>1, <1>3, <2>2, ParentChain DEF AtCursor
  <2> QED BY <2>1, <2>2
<1>5. cur \in Processed' /\ PathFrom(cur)'
  BY <1>1, <1>3, <1>4 DEF PathFrom, MarkProcessed
<1>6. CursorOK'  BY <1>5 DEF CursorOK, MarkProcessed
<1>7. NetOK' /\ IsBranch'  BY <1>1, <1>4 DEF NetOK, IsBranch, MarkProcessed, env
<1> QED BY <1>1, <1>3, <1>4, <1>6, <1>7 DEF AtCursor

\* Every other step leaves the documents of the blocks and sync() alone, or
\* starts sync() over.
LEMMA OtherBranch ==
    ASSUME TypeInv, BranchInv,
           \/ WriteSyncedFlag \/ DeleteTxs \/ DeleteCoins \/ UnspendCoins
           \/ \E w \in Worker : ImportStep(w)
           \/ \E t \in Mempool : ReceiveTx(t)
           \/ NetworkAdvance \/ RejectBlock \/ Crash
           \/ UNCHANGED vars
    PROVE  BranchInv' /\ UNCHANGED blocks
<1>1. CASE WriteSyncedFlag \/ \E t \in Mempool : ReceiveTx(t)
  BY <1>1, BranchFrame DEF WriteSyncedFlag, ReceiveTx, db, env
<1>2. CASE DeleteTxs \/ DeleteCoins
  <2>1. UNCHANGED <<blocks, pc, headers, cur, floor, netTip, reply>>
        /\ ("blocks" \in deletes' => "blocks" \in deletes)
    BY <1>2 DEF DeleteTxs, DeleteCoins, env
  <2> QED BY <2>1 DEF BranchInv, HeightsOK, IsBranch, CursorOK, NetOK, BlockStored, Processed,
             AtCursor, PathFrom
<1>3. CASE UnspendCoins
  <2>1. UNCHANGED <<blocks, netTip>> /\ pc' = "start"  BY <1>3 DEF UnspendCoins, env
  <2> QED BY <2>1, BlocksFrame DEF BranchInv, CursorOK, NetOK
<1>4. CASE \E w \in Worker : ImportStep(w)
  <2>1. UNCHANGED <<blocks, pc, headers, cur, floor, deletes, netTip, reply>>
    BY <1>4 DEF ImportStep, NextPhase, MintCoin, PruneQuery, InvalidateTx, InvalidateOutputs,
       ReleaseInputs, SpendCoin, StoreTx, db, env
  <2> QED BY <2>1, BranchFrame
<1>5. CASE NetworkAdvance
  <2>1. UNCHANGED <<blocks, pc, headers, cur, floor, deletes, reply>>
    BY <1>5 DEF NetworkAdvance, db, node
  <2>2. PICK b \in Block : Height[b] > Height[netTip] /\ netTip' = b
    BY <1>5 DEF NetworkAdvance
  <2>3. netTip' # Genesis
    BY <2>2, HeightType, BlockTypes DEF TypeInv, TypeOK
  <2> QED BY <2>1, <2>3 DEF BranchInv, HeightsOK, IsBranch, CursorOK, NetOK, BlockStored, Processed,
             AtCursor, PathFrom
<1>6. CASE Crash \/ RejectBlock
  <2>1. UNCHANGED <<blocks, netTip>> /\ pc' = "start"  BY <1>6 DEF Crash, RejectBlock, db
  <2> QED BY <2>1, BlocksFrame DEF BranchInv, CursorOK, NetOK
<1>7. CASE UNCHANGED vars
  BY <1>7, BranchFrame DEF vars
<1> QED BY <1>1, <1>2, <1>3, <1>4, <1>5, <1>6, <1>7

\* Every step keeps the branch invariant: one lemma above for each kind of step.
LEMMA BranchStep ==
    ASSUME TypeInv, BranchInv, [Next]_vars, lates' = 0
    PROVE  BranchInv'
BY RequestBranch, NextBlockBranch, DeleteBranch, InsertBranch, LinkBranch, MarkBranch, OtherBranch
DEF Next, SyncStep, Worker

\* Late replies are only ever counted up, and to the bound.
LEMMA LatesGrow ==
    ASSUME TypeInv, [Next]_vars
    PROVE  /\ lates' = 0 => lates = 0
           /\ lates <= MaxLate => lates' <= MaxLate
<1>1. ASSUME NEW w \in Worker, ImportStep(w) PROVE lates' = lates
  BY <1>1 DEF ImportStep, NextPhase, MintCoin, PruneQuery, InvalidateTx, InvalidateOutputs,
     ReleaseInputs, SpendCoin, StoreTx, env
<1>2. ASSUME NEW hs, Answer(hs) PROVE lates' = lates \/ (lates' = lates + 1 /\ lates < MaxLate)
  BY <1>2 DEF Answer
<1>3. CASE HandleGenesis \/ GetHeaders
  <2>1. lates' = lates \/ (lates' = lates + 1 /\ lates < MaxLate)
    BY <1>2, <1>3 DEF HandleGenesis, GetHeaders
  <2> QED BY <2>1, IndexAssumption DEF TypeInv, TypeOK
<1>4. CASE lates' = lates  BY <1>4
<1> QED
  BY <1>1, <1>3, <1>4
  DEF Next, SyncStep, Worker, Announce, StartSync, AskHeaders, WriteSyncedFlag, EndRound,
     NextBlock, DeleteBlocks, DeleteTxs, DeleteCoins, UnspendCoins, InsertBlock, LinkPrevious,
     MarkProcessed, ReceiveTx, NetworkAdvance, RejectBlock, Crash, env, vars

\* With no late replies at all, none ever was.
LEMMA NoLates == ASSUME MaxLate = 0 PROVE Spec => [](lates = 0)
<1> DEFINE I == TypeInv /\ lates <= MaxLate
<1>1. Init => I  BY InitType, IndexAssumption DEF Init
<1>2. I /\ [Next]_vars => I'  BY TypeStep, LatesGrow
<1>3. I => lates = 0  BY DEF TypeInv, TypeOK
<1> HIDE DEF I
<1> QED BY <1>1, <1>2, <1>3, PTL DEF Spec

\* The inductive invariant of the index holds when replies are answered in order:
\* every stored block at its height, the processed ones a branch, and the headers
\* still to import on top of a block of it.
LEMMA IInvHolds == ASSUME MaxLate = 0 PROVE Spec => []IInv
<1>1. Init => IInv  BY InitType, InitBranch DEF IInv
<1>2. IInv /\ (lates = 0)' /\ [Next]_vars => IInv'  BY TypeStep, BranchStep DEF IInv
<1> QED BY <1>1, <1>2, NoLates, PTL DEF Spec

\* The branch invariant gives what getLocalTip's readers rely on.
LEMMA BranchImpliesOne == TypeInv /\ BranchInv => OneBranch
<1> SUFFICES ASSUME TypeInv, BranchInv PROVE OneBranch
  OBVIOUS
<1>1. \A b \in Processed : blocks[b].height = Height[b]
  BY DEF BranchInv, HeightsOK, BlockStored, Processed
<1>2. Processed # {} => Processed = Chain[LocalTip]
  BY TipCases DEF TypeInv, BranchInv, TipIs
<1> QED BY <1>1, <1>2 DEF OneBranch

\* Crashes and reorgs at any point included, and whatever is relayed, the
\* processed blocks are always one branch of the network's tree, each at its
\* height: handleReorg's cut and getBlockOp's height never leave a gap or a
\* block of another branch, when replies are answered in order.
THEOREM OneBranchHolds == ASSUME MaxLate = 0 PROVE Spec => []OneBranch
<1>1. IInv => OneBranch  BY BranchImpliesOne DEF IInv
<1> QED BY <1>1, IInvHolds, PTL

-----------------------------------------------------------------------------
(* The index implements BranchTip. *)

\* The local tip of an empty index is none, and that of a branch is its end.
LEMMA TipOf ==
    TypeOK /\ HeightsOK =>
        /\ Processed = {} => LocalTip = NoBlock
        /\ \A t \in Block : Processed = Chain[t] => LocalTip = t
<1>1. Processed = {} => LocalTip = NoBlock  BY Zenon DEF LocalTip
<1> QED BY <1>1, LocalTipIs

\* A step of the index is a step of the abstract tip, or leaves it where it is.
LEMMA TipStep ==
    ASSUME MaxLate = 0
    PROVE  IInv /\ IInv' /\ [Next]_vars => [Index!Next]_LocalTip
<1> SUFFICES ASSUME IInv, IInv', [Next]_vars PROVE Index!Next \/ LocalTip' = LocalTip
  OBVIOUS
<1>1. /\ Processed = {} => LocalTip = NoBlock
      /\ \A t \in Block : Processed = Chain[t] => LocalTip = t
  BY TipOf DEF IInv, TypeInv, BranchInv
<1>2. (TypeOK /\ HeightsOK =>
         /\ Processed = {} => LocalTip = NoBlock
         /\ \A t \in Block : Processed = Chain[t] => LocalTip = t)'
  BY TipOf, PTL
<1>3. /\ Processed' = {} => LocalTip' = NoBlock
      /\ \A t \in Block : Processed' = Chain[t] => LocalTip' = t
  BY <1>2 DEF IInv, TypeInv, BranchInv
<1>4. TypeInv /\ BranchInv  BY DEF IInv
<1>5. ASSUME Processed' = Processed PROVE LocalTip' = LocalTip
  BY <1>1, <1>3, <1>4, <1>5 DEF BranchInv, IsBranch
<1>6. CASE DeleteBlocks
  <2>1. PICK f \in Processed : \/ f = Genesis /\ Processed' = {}
                               \/ f # Genesis /\ Processed' = Chain[Parent[f]]
    BY <1>4, <1>6, DeleteBranch
  <2>2. PICK t \in Block : Processed = Chain[t]  BY <1>4, <2>1 DEF BranchInv, IsBranch
  <2>3. LocalTip = t /\ t # NoBlock  BY <1>1, <2>2, BlockTypes
  <2>4. CASE Processed' = {}
    <3>1. LocalTip' = NoBlock  BY <1>3, <2>4
    <3> QED BY <2>3, <3>1 DEF Index!Next, Index!Retreat
  <2>5. CASE f # Genesis /\ Processed' = Chain[Parent[f]]
    <3>1. /\ f \in Block /\ Parent[f] \in Block /\ Parent[f] \in Chain[f]
          /\ Height[f] = Height[Parent[f]] + 1
      BY <2>2, <2>5, ParentChain, ChainOrder, ChainMember
    <3>2. LocalTip' = Parent[f]  BY <1>3, <2>5, <3>1
    <3>3. Parent[f] \in Chain[t]  BY <2>2, <3>1, ChainOrder
    <3>4. Height[f] <= Height[t]  BY <2>2, ChainOrder
    <3>5. Parent[f] # t  BY <3>1, <3>4, HeightType
    <3> QED BY <2>3, <3>2, <3>3, <3>5 DEF Index!Next, Index!Retreat
  <2> QED BY <2>1, <2>4, <2>5
<1>7. CASE InsertBlock
  <2>1. CASE Processed' = Processed  BY <2>1, <1>5
  <2>2. CASE Processed = {Genesis} /\ Processed' = {}
    <3>1. LocalTip = Genesis /\ LocalTip' = NoBlock  BY <1>1, <1>3, <2>2, BlockTree, BlockTypes
    <3> QED BY <3>1, BlockTypes DEF Index!Next, Index!Retreat
  <2> QED BY <1>4, <1>7, <2>1, <2>2, InsertBranch
<1>8. CASE MarkProcessed
  <2>1. /\ cur \in Block /\ Processed' = Chain[cur]
        /\ \/ cur = Genesis /\ Processed = {}
           \/ cur # Genesis /\ Processed = Chain[Parent[cur]]
    BY <1>4, <1>8, MarkBranch
  <2>2. LocalTip' = cur  BY <1>3, <2>1
  <2>3. LocalTip = Parent[cur]  BY <1>1, <2>1, BlockTypes, ParentChain
  <2> QED BY <2>1, <2>2, <2>3 DEF Index!Next, Index!Extend
<1>9. CASE LinkPrevious  BY <1>4, <1>5, <1>9, LinkBranch
<1>10. CASE \/ Announce \/ StartSync \/ AskHeaders \/ HandleGenesis \/ GetHeaders
            \/ EndRound \/ NextBlock
  <2>1. UNCHANGED blocks
    BY <1>10 DEF Announce, StartSync, AskHeaders, HandleGenesis, GetHeaders, EndRound, NextBlock, db
  <2> QED BY <2>1, <1>5, BlocksFrame
<1>11. CASE \/ WriteSyncedFlag \/ DeleteTxs \/ DeleteCoins \/ UnspendCoins
            \/ \E w \in Worker : ImportStep(w)
            \/ \E t \in Mempool : ReceiveTx(t)
            \/ NetworkAdvance \/ RejectBlock \/ Crash
            \/ UNCHANGED vars
  <2>1. UNCHANGED blocks  BY <1>4, <1>11, OtherBranch
  <2> QED BY <2>1, <1>5, BlocksFrame
<1> QED
  BY <1>6, <1>7, <1>8, <1>9, <1>10, <1>11 DEF Next, SyncStep, Worker

\* What readers see of the block index, whatever crashes, forks and relayed
\* transactions do: its tip moves up one block at a time, when a block on top
\* of it is processed, and moves down to a block of its own branch, when
\* handleReorg cuts it.
THEOREM Refinement == ASSUME MaxLate = 0 PROVE Spec => ImplementsBranchTip
<1>1. Init => Index!Init
  BY DEF Init, Index!Init, LocalTip, Processed, NoBlockDoc
<1>2. IInv /\ IInv' /\ [Next]_vars => [Index!Next]_LocalTip  BY TipStep
<1> QED BY <1>1, <1>2, IInvHolds, PTL DEF Spec, ImplementsBranchTip, Index!Spec

-----------------------------------------------------------------------------
(* What blocks write to the coins. *)

\* How an import changes a coin: its spend stays, or is a pending one
\* released, or is set over one no block has made.
LEMMA ImportCoins ==
    ASSUME TypeInv, AbsentUnspent, NEW w \in Worker, ImportStep(w)
    PROVE  /\ AbsentUnspent'
           /\ \A c \in Coin :
                \/ /\ coins'[c].spentHeight = coins[c].spentHeight
                   /\ coins'[c].spentTxid = coins[c].spentTxid
                \/ coins[c].spentHeight < 0 /\ coins'[c].spentHeight = UNSPENT
                \/ /\ coins[c].spentHeight < 0
                   /\ coins'[c].spentHeight = JobHeight(w)
                   /\ job[w].phase = "spend"
                   /\ <<coins'[c].spentTxid, c>> \in SpendOps(w)
<1> USE DEF AbsentUnspent, CoinStored, PENDING, UNSPENT, CONFLICTING, ABSENT
<1>0. job[w].phase # "idle"
  <2>1. ASSUME job[w].phase = "idle" PROVE job[w].todo = {} /\ job[w].updates = {}
    BY <2>1 DEF TypeInv, JobOK, PhaseWork
  <2> QED BY <2>1 DEF ImportStep, NextPhase, InvalidateTx, InvalidateOutputs, ReleaseInputs
<1>1. coins \in [Coin -> CoinDoc]  BY DEF TypeInv, TypeOK
<1>2. CASE UNCHANGED coins  BY <1>2
<1>3. ASSUME NEW c \in job[w].todo, job[w].phase = "mint", MintCoin(w, c)
      PROVE  /\ AbsentUnspent'
             /\ \A d \in Coin :
                  \/ /\ coins'[d].spentHeight = coins[d].spentHeight
                     /\ coins'[d].spentTxid = coins[d].spentTxid
                  \/ coins[d].spentHeight < 0 /\ coins'[d].spentHeight = UNSPENT
  <2>1. c \in Coin /\ JobHeight(w) \in Nat \cup {PENDING}
    BY <1>3, <1>0, WorkTypes DEF TypeInv, JobOK, PhaseWork
  <2>2. coins' = [coins EXCEPT ![c] = MintedCoin(c, JobHeight(w))]  BY <1>3 DEF MintCoin
  <2>3. /\ MintedCoin(c, JobHeight(w)).mintHeight # ABSENT
        /\ \/ /\ CoinStored(c)
              /\ MintedCoin(c, JobHeight(w)).spentHeight = coins[c].spentHeight
              /\ MintedCoin(c, JobHeight(w)).spentTxid = coins[c].spentTxid
           \/ ~CoinStored(c) /\ MintedCoin(c, JobHeight(w)).spentHeight = UNSPENT
    BY <1>1, <2>1 DEF MintedCoin, CoinDoc
  <2>4. coins'[c] = MintedCoin(c, JobHeight(w)) /\ \A d \in Coin \ {c} : coins'[d] = coins[d]
    BY <1>1, <2>1, <2>2
  <2>5. ~CoinStored(c) => coins[c].spentHeight < 0  BY <2>1
  <2> HIDE DEF MintedCoin
  <2>6. AbsentUnspent'  BY <2>3, <2>4
  <2>7. \/ /\ coins'[c].spentHeight = coins[c].spentHeight
           /\ coins'[c].spentTxid = coins[c].spentTxid
        \/ coins[c].spentHeight < 0 /\ coins'[c].spentHeight = UNSPENT
    BY <2>3, <2>4, <2>5
  <2> QED BY <2>4, <2>6, <2>7
<1>4. CASE InvalidateOutputs(w)
  BY <1>1, <1>4 DEF InvalidateOutputs, CoinDoc
<1>5. CASE ReleaseInputs(w)
  <2>1. ASSUME NEW c \in Coin
        PROVE  \/ coins'[c] = coins[c]
               \/ /\ coins'[c] = [coins[c] EXCEPT !.spentHeight = UNSPENT, !.spentTxid = NoTx]
                  /\ coins[c].spentHeight = PENDING
    BY <1>5 DEF ReleaseInputs
  <2>2. ASSUME NEW c \in Coin
        PROVE  \/ coins'[c] = coins[c]
               \/ /\ coins[c].spentHeight < 0
                  /\ coins'[c].spentHeight = UNSPENT
                  /\ coins'[c].mintHeight = coins[c].mintHeight
    <3> DEFINE d == [coins[c] EXCEPT !.spentHeight = UNSPENT, !.spentTxid = NoTx]
    <3>1. coins[c] \in CoinDoc  BY <1>1
    <3>2. d.spentHeight = UNSPENT /\ d.mintHeight = coins[c].mintHeight  BY <3>1 DEF CoinDoc
    <3>3. PENDING < 0  OBVIOUS
    <3> HIDE DEF d
    <3> QED BY <2>1, <3>2, <3>3 DEF d
  <2>3. AbsentUnspent'  BY <2>2
  <2> QED BY <2>2, <2>3
<1>6. ASSUME NEW op \in job[w].todo, job[w].phase = "spend", SpendCoin(w, op[1], op[2])
      PROVE  /\ AbsentUnspent'
             /\ \A c \in Coin :
                  \/ coins'[c] = coins[c]
                  \/ /\ coins[c].spentHeight < 0
                     /\ coins'[c].spentHeight = JobHeight(w)
                     /\ <<coins'[c].spentTxid, c>> \in SpendOps(w)
  <2>1. op \in SpendOps(w) /\ op \in Tx \X Coin
    BY <1>6, <1>0, WorkTypes DEF TypeInv, JobOK, PhaseWork
  <2>2. op = <<op[1], op[2]>> /\ op[2] \in Coin  BY <2>1
  <2> QED BY <1>1, <1>6, <2>1, <2>2 DEF SpendCoin, Spendable, CoinDoc
<1> QED
  BY <1>2, <1>3, <1>4, <1>5, <1>6
  DEF ImportStep, NextPhase, PruneQuery, InvalidateTx, StoreTx, db

\* No step leaves a spend on a coin that is not stored.
LEMMA AbsentStep == TypeInv /\ AbsentUnspent /\ [Next]_vars => AbsentUnspent'
<1> SUFFICES ASSUME TypeInv, AbsentUnspent, [Next]_vars PROVE AbsentUnspent'
  OBVIOUS
<1>1. ASSUME NEW w \in Worker, ImportStep(w) PROVE AbsentUnspent'  BY <1>1, ImportCoins
<1>2. CASE UNCHANGED coins  BY <1>2 DEF AbsentUnspent, CoinStored
<1>3. CASE DeleteCoins
  BY <1>3 DEF DeleteCoins, AbsentUnspent, CoinStored, NoCoinDoc
<1>4. CASE UnspendCoins
  BY <1>4 DEF UnspendCoins, AbsentUnspent, CoinStored, TypeInv, TypeOK, CoinDoc
<1> QED
  BY <1>1, <1>2, <1>3, <1>4
  DEF Next, SyncStep, Worker, Announce, StartSync, AskHeaders, HandleGenesis,
     GetHeaders,
     WriteSyncedFlag, EndRound, NextBlock, DeleteBlocks, DeleteTxs, InsertBlock, LinkPrevious,
     MarkProcessed, ReceiveTx, NetworkAdvance, RejectBlock, Crash, db, vars

\* Once a block has spent a coin, nothing but handleReorg takes it from the
\* transaction that spent it: no relayed transaction, no replacement and no
\* later block, however their writes interleave, with any number of crashes
\* and late replies.
THEOREM ConfirmedSpendsStand == Spec => ConfirmedSpendStands
<1> DEFINE A == \A c \in Coin : coins[c].spentHeight >= 0 /\ coins'[c] # coins[c]
                  => \/ pc = "reorg"
                     \/ /\ coins'[c].spentHeight = coins[c].spentHeight
                        /\ coins'[c].spentTxid = coins[c].spentTxid
<1>1. Init => TypeInv /\ AbsentUnspent
  BY InitType DEF Init, AbsentUnspent, CoinStored, NoCoinDoc
<1>2. TypeInv /\ AbsentUnspent /\ [Next]_vars => [A]_vars
  <2> SUFFICES ASSUME TypeInv, AbsentUnspent, Next PROVE A
    OBVIOUS
  <2>1. ASSUME NEW w \in Worker, ImportStep(w) PROVE A
    <3>1. \A c \in Coin :
             \/ /\ coins'[c].spentHeight = coins[c].spentHeight
                /\ coins'[c].spentTxid = coins[c].spentTxid
             \/ coins[c].spentHeight < 0
      BY <2>1, ImportCoins
    <3>2. \A c \in Coin : coins[c].spentHeight \in Int
      BY DEF TypeInv, TypeOK, CoinDoc, PENDING, UNSPENT
    <3> QED BY <3>1, <3>2
  <2>2. CASE UNCHANGED coins  BY <2>2
  <2>3. CASE pc = "reorg"  BY <2>3
  <2> HIDE DEF A
  <2> QED
    BY <2>1, <2>2, <2>3 DEF Next, SyncStep, Worker, Announce, StartSync, AskHeaders, HandleGenesis,
     GetHeaders,
       WriteSyncedFlag, EndRound, NextBlock, DeleteBlocks, DeleteTxs, DeleteCoins, UnspendCoins,
       InsertBlock, LinkPrevious, MarkProcessed, ReceiveTx, NetworkAdvance, RejectBlock, Crash, db
<1> QED
  BY <1>1, <1>2, TypeStep, AbsentStep, PTL DEF Spec, ConfirmedSpendStands

-----------------------------------------------------------------------------
(* No orphan confirmation. *)

\* A transaction of the block being imported is stored at the block's height.
LEMMA ImportStored ==
    ASSUME IInv, job[Sync].phase # "idle", NEW t \in JobTxs(Sync)
    PROVE  JobHeight(Sync) = blocks[cur].height /\ StoredAt(t, blocks[cur].height)
<1>1. pc = "import" /\ cur \in Block  BY DEF IInv, TypeInv, JobOK
<1>2. BlockStored(cur)  BY <1>1 DEF IInv, BranchInv, CursorOK
<1> QED BY <1>1, <1>2 DEF StoredAt, JobTxs, JobHeight

\* Only DeleteBlocks removes a block.
LEMMA BlocksStay ==
    ASSUME TypeInv, [Next]_vars, ~DeleteBlocks
    PROVE  \A b \in Block : BlockStored(b) => BlockStored(b)'
<1>1. CASE InsertBlock
  BY <1>1 DEF InsertBlock, BlockStored, TypeInv, TypeOK
<1>2. CASE LinkPrevious
  BY <1>2 DEF LinkPrevious, BlockStored, TypeInv, TypeOK, BlockDoc
<1>3. CASE MarkProcessed
  BY <1>3 DEF MarkProcessed, BlockStored, TypeInv, TypeOK, BlockDoc
<1>4. CASE UNCHANGED blocks  BY <1>4 DEF BlockStored
<1>5. ASSUME NEW w, ImportStep(w) PROVE UNCHANGED blocks
  BY <1>5 DEF ImportStep, NextPhase, MintCoin, PruneQuery, InvalidateTx, InvalidateOutputs,
     ReleaseInputs, SpendCoin, StoreTx, db
<1> QED
  BY <1>1, <1>2, <1>3, <1>4, <1>5
  DEF Next, SyncStep, Announce, StartSync, AskHeaders, HandleGenesis,
     GetHeaders,
     WriteSyncedFlag, EndRound, NextBlock, DeleteTxs, DeleteCoins, UnspendCoins,
     ReceiveTx, NetworkAdvance, RejectBlock, Crash, db, vars

\* Only UnspendCoins and a failure end a reorg, and nothing moves its cut.
LEMMA ReorgStays ==
    ASSUME TypeInv, [Next]_vars, ~UnspendCoins, ~Crash, ~RejectBlock, pc = "reorg"
    PROVE  pc' = "reorg" /\ floor' = floor
<1>1. ASSUME NEW w, ImportStep(w) PROVE UNCHANGED <<pc, floor>>
  BY <1>1 DEF ImportStep, NextPhase, MintCoin, PruneQuery, InvalidateTx, InvalidateOutputs,
     ReleaseInputs, SpendCoin, StoreTx
<1> QED
  BY <1>1 DEF Next, SyncStep, Announce, StartSync, AskHeaders, HandleGenesis,
     GetHeaders,
     WriteSyncedFlag, EndRound, NextBlock, DeleteBlocks, DeleteTxs, DeleteCoins,
     InsertBlock, LinkPrevious, MarkProcessed, ReceiveTx, NetworkAdvance, node, vars

\* A mempool job writes no height, and the importer has none during a reorg.
LEMMA JobHeights ==
    ASSUME TypeInv, NEW w \in Worker, job[w].phase # "idle"
    PROVE  /\ w # Sync => JobHeight(w) = PENDING
           /\ w = Sync => pc = "import"
BY DEF JobHeight, TypeInv, JobOK

\* UnspendCoins leaves no spend at or above the cut.
LEMMA UnspendCut ==
    ASSUME TypeInv, AbsentUnspent, UnspendCoins, NEW c \in Coin, coins'[c].spentHeight >= 0
    PROVE  coins'[c] = coins[c] /\ ~(coins[c].spentHeight >= floor)
<1> DEFINE d == [coins[c] EXCEPT !.spentHeight = UNSPENT, !.spentTxid = NoTx]
<1>1. coins[c] \in CoinDoc /\ floor \in Nat  BY DEF TypeInv, TypeOK
<1>2. ~(d.spentHeight >= 0)  BY <1>1 DEF CoinDoc, UNSPENT
<1> HIDE DEF d
<1>3. coins'[c] = IF CoinStored(c) /\ coins[c].spentHeight >= floor THEN d ELSE coins[c]
  BY DEF UnspendCoins, d
<1>4. ~CoinStored(c) => ~(coins[c].spentHeight >= floor)
  BY <1>1 DEF AbsentUnspent, UNSPENT
<1> QED BY <1>2, <1>3, <1>4

\* The spends of a step are old ones, or those of the block being imported.
LEMMA NewSpends ==
    ASSUME TypeInv, AbsentUnspent, [Next]_vars, NEW c \in Coin, coins'[c].spentHeight >= 0
    PROVE  \/ /\ coins'[c].spentHeight = coins[c].spentHeight
              /\ coins'[c].spentTxid = coins[c].spentTxid
           \/ /\ job[Sync].phase # "idle" /\ ImportStep(Sync)
              /\ coins'[c].spentHeight = JobHeight(Sync)
              /\ <<coins'[c].spentTxid, c>> \in SpendOps(Sync)
<1>1. ASSUME NEW w \in Worker, ImportStep(w)
      PROVE  \/ /\ coins'[c].spentHeight = coins[c].spentHeight
                /\ coins'[c].spentTxid = coins[c].spentTxid
             \/ /\ job[w].phase # "idle" /\ w = Sync
                /\ coins'[c].spentHeight = JobHeight(w)
                /\ <<coins'[c].spentTxid, c>> \in SpendOps(w)
  BY <1>1, ImportCoins, JobHeights DEF UNSPENT, PENDING
<1>2. CASE UNCHANGED coins  BY <1>2
<1>3. CASE DeleteCoins
  BY <1>3 DEF DeleteCoins, NoCoinDoc, UNSPENT
<1>4. CASE UnspendCoins
  BY <1>4, UnspendCut
<1> QED
  BY <1>1, <1>2, <1>3, <1>4
  DEF Next, SyncStep, Worker, Announce, StartSync, AskHeaders, HandleGenesis,
     GetHeaders,
     WriteSyncedFlag, EndRound, NextBlock, DeleteBlocks, DeleteTxs, InsertBlock, LinkPrevious,
     MarkProcessed, ReceiveTx, NetworkAdvance, RejectBlock, Crash, db, vars

\* What was stored at a height is stored there after the step, unless the cut
\* of a reorg is at or below it.
LEMMA StoredStays ==
    ASSUME IInv, IInv', [Next]_vars, NEW t, NEW h \in Nat,
           Crash \/ RejectBlock => pc # "reorg",
           pc' = "reorg" => h < floor',
           UnspendCoins => h < floor,
           Settled(h) => StoredAt(t, h)
    PROVE  /\ Settled(h)
           /\ \E b \in Block : BlockStored(b)' /\ blocks'[b].height = h /\ t \in TxsOf[b]
<1>1. TypeInv  BY DEF IInv
<1>3. Settled(h)
  <2>1. CASE ~UnspendCoins
    <3>1. pc = "reorg" => pc' = "reorg" /\ floor' = floor
      BY <1>1, <2>1, ReorgStays
    <3> QED BY <3>1 DEF Settled
  <2> QED BY <2>1 DEF Settled
<1>4. PICK b \in Block : BlockStored(b) /\ blocks[b].height = h /\ t \in TxsOf[b]
  BY <1>3 DEF StoredAt
<1>5. CASE DeleteBlocks
  <2>1. h < floor /\ floor \in Nat  BY <1>1, <1>3, <1>5 DEF Settled, DeleteBlocks, TypeInv, TypeOK
  <2>2. blocks'[b] = blocks[b]  BY <2>1, <1>4, <1>5 DEF DeleteBlocks
  <2> QED BY <2>2, <1>3, <1>4 DEF BlockStored
<1>6. CASE ~DeleteBlocks
  <2>1. BlockStored(b)'  BY <1>1, <1>4, <1>6, BlocksStay
  <2>2. blocks'[b].height = blocks[b].height
    BY <2>1, <1>4 DEF IInv, BranchInv, HeightsOK
  <2> QED BY <2>1, <2>2, <1>3, <1>4
<1> QED BY <1>5, <1>6

\* Every step keeps the spends sound: an import names its own block, and a cut
\* removes the blocks and the spends of the same heights.
LEMMA SpendsSoundStep ==
    ASSUME IInv, IInv', AbsentUnspent, SpendsSound, [Next]_vars,
           Crash \/ RejectBlock => pc # "reorg"
    PROVE  SpendsSound'
<1> SUFFICES ASSUME NEW c \in Coin, coins'[c].spentHeight >= 0, Settled(coins[c].spentHeight)'
             PROVE  /\ coins'[c].spentTxid \in Tx
                    /\ c \in Inputs[coins'[c].spentTxid]
                    /\ StoredAt(coins[c].spentTxid, coins[c].spentHeight)'
  BY DEF SpendsSound
<1>1. TypeInv  BY DEF IInv
<1>3. ASSUME coins'[c].spentHeight = coins[c].spentHeight,
             coins'[c].spentTxid = coins[c].spentTxid
      PROVE  /\ coins'[c].spentTxid \in Tx
             /\ c \in Inputs[coins'[c].spentTxid]
             /\ StoredAt(coins[c].spentTxid, coins[c].spentHeight)'
  <2> DEFINE t == coins[c].spentTxid
             h == coins[c].spentHeight
  <2>1. h \in Nat /\ t \in Tx
    BY <1>1, <1>3 DEF TypeInv, TypeOK, CoinDoc, PENDING, UNSPENT, SpentNamed
  <2>2. pc' = "reorg" => h < floor'  BY <1>3 DEF Settled
  <2>3. UnspendCoins => h < floor
    BY <1>1, <2>1, UnspendCut DEF TypeInv, TypeOK
  <2>4. Settled(h) => c \in Inputs[t] /\ StoredAt(t, h)  BY <2>1 DEF SpendsSound
  <2> HIDE DEF t, h
  <2>5. /\ Settled(h)
        /\ \E b \in Block : BlockStored(b)' /\ blocks'[b].height = h /\ t \in TxsOf[b]
    BY <2>1, <2>2, <2>3, <2>4, StoredStays
  <2>6. StoredAt(coins[c].spentTxid, coins[c].spentHeight)'
    BY <2>5, <1>3 DEF StoredAt, t, h
  <2> QED BY <2>1, <2>4, <2>5, <2>6, <1>3 DEF t
<1>4. ASSUME job[Sync].phase # "idle", ImportStep(Sync),
             coins'[c].spentHeight = JobHeight(Sync),
             <<coins'[c].spentTxid, c>> \in SpendOps(Sync)
      PROVE  /\ coins'[c].spentTxid \in Tx
             /\ c \in Inputs[coins'[c].spentTxid]
             /\ StoredAt(coins[c].spentTxid, coins[c].spentHeight)'
  <2> DEFINE t == coins'[c].spentTxid
  <2>1. t \in Spenders(Sync) /\ c \in Inputs[t]  BY <1>4 DEF SpendOps
  <2>2. t \in JobTxs(Sync) /\ t \in Tx
    BY <1>1, <1>4, <2>1, WorkTypes DEF Spenders, Worker
  <2> HIDE DEF t
  <2>3. JobHeight(Sync) = blocks[cur].height /\ StoredAt(t, blocks[cur].height)
    BY <1>4, <2>2, ImportStored
  <2>4. UNCHANGED blocks
    BY <1>4 DEF ImportStep, NextPhase, MintCoin, PruneQuery, InvalidateTx, InvalidateOutputs,
       ReleaseInputs, SpendCoin, StoreTx, db
  <2>5. StoredAt(coins[c].spentTxid, coins[c].spentHeight)'
    BY <1>4, <2>3, <2>4 DEF StoredAt, BlockStored, t
  <2> QED BY <2>1, <2>2, <2>5 DEF t
<1> QED BY <1>1, <1>3, <1>4, NewSpends

\* The deletions of a reorg that are done left nothing at or above the cut.
ReorgDone ==
    pc = "reorg" =>
        /\ "coins" \notin deletes => \A c \in Coin : ~(coins[c].mintHeight >= floor)
        /\ "txs" \notin deletes => \A t \in Tx : ~(txs[t].blockHeight >= floor)

\* The heights an import writes are those of the block being imported.
LEMMA ImportHeights ==
    ASSUME TypeInv, NEW w \in Worker, ImportStep(w)
    PROVE  /\ \A c \in Coin : coins'[c].mintHeight >= 0 =>
                 \/ coins'[c].mintHeight = coins[c].mintHeight
                 \/ /\ job[w].phase # "idle" /\ w = Sync
                    /\ Minter[c] \in JobTxs(w)
                    /\ coins'[c].mintHeight = JobHeight(w)
           /\ \A t \in Tx : txs'[t].blockHeight >= 0 =>
                 \/ txs'[t].blockHeight = txs[t].blockHeight
                 \/ /\ job[w].phase # "idle" /\ w = Sync
                    /\ t \in JobTxs(w)
                    /\ txs'[t].blockHeight = JobHeight(w)
<1> USE DEF PENDING, CONFLICTING, ABSENT
<1>1. coins \in [Coin -> CoinDoc] /\ txs \in [Tx -> TxDoc]  BY DEF TypeInv, TypeOK
<1>2. ASSUME NEW c \in job[w].todo, job[w].phase = "mint", MintCoin(w, c)
      PROVE  \A d \in Coin : coins'[d].mintHeight >= 0 =>
                 \/ coins'[d].mintHeight = coins[d].mintHeight
                 \/ w = Sync /\ Minter[d] \in JobTxs(w) /\ coins'[d].mintHeight = JobHeight(w)
  <2>1. c \in Coin /\ Minter[c] \in JobTxs(w)
    BY <1>2 DEF TypeInv, JobOK, PhaseWork, OutputsOf
  <2>2. JobHeight(w) \in Nat \cup {PENDING} /\ (w # Sync => JobHeight(w) = PENDING)
    BY <1>2, WorkTypes, JobHeights
  <2>3. coins' = [coins EXCEPT ![c] = MintedCoin(c, JobHeight(w))]  BY <1>2 DEF MintCoin
  <2>4. MintedCoin(c, JobHeight(w)).mintHeight \in {JobHeight(w), coins[c].mintHeight}
    BY <1>1, <2>1 DEF MintedCoin, CoinDoc
  <2> HIDE DEF MintedCoin
  <2> QED BY <1>1, <2>1, <2>2, <2>3, <2>4
<1>3. ASSUME InvalidateOutputs(w)
      PROVE  \A d \in Coin : coins'[d].mintHeight >= 0 => coins'[d].mintHeight = coins[d].mintHeight
  BY <1>1, <1>3 DEF InvalidateOutputs, CoinDoc
<1>4. ASSUME ReleaseInputs(w)
      PROVE  \A d \in Coin : coins'[d].mintHeight = coins[d].mintHeight
  BY <1>1, <1>4 DEF ReleaseInputs, CoinDoc
<1>5. ASSUME NEW op, SpendCoin(w, op[1], op[2])
      PROVE  \A d \in Coin : coins'[d].mintHeight = coins[d].mintHeight
  BY <1>1, <1>5 DEF SpendCoin, CoinDoc
<1>6. ASSUME InvalidateTx(w)
      PROVE  \A u \in Tx : txs'[u].blockHeight >= 0 => txs'[u].blockHeight = txs[u].blockHeight
  BY <1>1, <1>6 DEF InvalidateTx, TxDoc
<1>7. ASSUME NEW t \in job[w].todo, job[w].phase = "tx", StoreTx(w, t)
      PROVE  \A u \in Tx : txs'[u].blockHeight >= 0 =>
                 \/ txs'[u].blockHeight = txs[u].blockHeight
                 \/ w = Sync /\ u \in JobTxs(w) /\ txs'[u].blockHeight = JobHeight(w)
  <2>1. t \in Tx /\ t \in JobTxs(w)
    BY <1>7, WorkTypes DEF TypeInv, JobOK, PhaseWork
  <2>2. JobHeight(w) \in Nat \cup {PENDING} /\ (w # Sync => JobHeight(w) = PENDING)
    BY <1>7, WorkTypes, JobHeights
  <2>3. txs' = [txs EXCEPT ![t] = StoredTx(t, JobHeight(w))]  BY <1>7 DEF StoreTx
  <2>4. StoredTx(t, JobHeight(w)).blockHeight \in {JobHeight(w), txs[t].blockHeight}
    BY <1>1, <2>1 DEF StoredTx, TxDoc
  <2> HIDE DEF StoredTx
  <2> QED BY <1>1, <2>1, <2>2, <2>3, <2>4
<1>8. CASE NextPhase(w) \/ \E t \in job[w].todo : PruneQuery(w, t)
  BY <1>8 DEF NextPhase, PruneQuery, db
<1> QED
  BY <1>2, <1>3, <1>4, <1>5, <1>6, <1>7, <1>8
  DEF ImportStep, MintCoin, InvalidateTx, InvalidateOutputs, ReleaseInputs, SpendCoin, StoreTx

\* The heights of a step are old ones, or those of the block being imported.
LEMMA NewHeights ==
    ASSUME TypeInv, [Next]_vars
    PROVE  /\ \A c \in Coin : coins'[c].mintHeight >= 0 =>
                 \/ coins'[c].mintHeight = coins[c].mintHeight
                 \/ /\ job[Sync].phase # "idle" /\ ImportStep(Sync)
                    /\ Minter[c] \in JobTxs(Sync)
                    /\ coins'[c].mintHeight = JobHeight(Sync)
           /\ \A t \in Tx : txs'[t].blockHeight >= 0 =>
                 \/ txs'[t].blockHeight = txs[t].blockHeight
                 \/ /\ job[Sync].phase # "idle" /\ ImportStep(Sync)
                    /\ t \in JobTxs(Sync)
                    /\ txs'[t].blockHeight = JobHeight(Sync)
<1>1. CASE \E w \in Worker : ImportStep(w)  BY <1>1, ImportHeights
<1>2. CASE UNCHANGED <<coins, txs>>  BY <1>2
<1>3. CASE DeleteCoins
  BY <1>3 DEF DeleteCoins, NoCoinDoc, ABSENT
<1>4. CASE DeleteTxs
  BY <1>4 DEF DeleteTxs, NoTxDoc, ABSENT
<1>5. CASE UnspendCoins
  BY <1>5 DEF UnspendCoins, TypeInv, TypeOK, CoinDoc
<1> QED
  BY <1>1, <1>2, <1>3, <1>4, <1>5
  DEF Next, SyncStep, Worker, Announce, StartSync, AskHeaders, HandleGenesis,
     GetHeaders, WriteSyncedFlag, EndRound, NextBlock, DeleteBlocks, InsertBlock, LinkPrevious,
     MarkProcessed, ReceiveTx, NetworkAdvance, RejectBlock, Crash, db, vars

\* Outside UnspendCoins, a reorg starts at NextBlock with nothing deleted, and
\* a collection leaves "deletes" by its deletion.
LEMMA DeletesLeft ==
    ASSUME TypeInv, [Next]_vars, pc' = "reorg"
    PROVE  \/ pc = "next" /\ deletes' = Collections
           \/ /\ pc = "reorg" /\ floor' = floor /\ ~UnspendCoins
              /\ "coins" \notin deletes' => "coins" \notin deletes \/ DeleteCoins
              /\ "txs" \notin deletes' => "txs" \notin deletes \/ DeleteTxs
<1>1. ~Crash /\ ~RejectBlock  BY DEF Crash, RejectBlock
<1>2. ASSUME NEW w, ImportStep(w) PROVE UNCHANGED <<pc, deletes>>
  BY <1>2 DEF ImportStep, NextPhase, MintCoin, PruneQuery, InvalidateTx, InvalidateOutputs,
     ReleaseInputs, SpendCoin, StoreTx
<1>3. CASE pc = "reorg"
  <2>1. ~UnspendCoins  BY DEF UnspendCoins
  <2>2. floor' = floor  BY <1>1, <1>3, <2>1, ReorgStays
  <2> QED
    BY <1>1, <1>2, <1>3, <2>1, <2>2
    DEF Next, SyncStep, Announce, StartSync, AskHeaders, HandleGenesis,
       GetHeaders, WriteSyncedFlag, EndRound, NextBlock, DeleteBlocks, DeleteTxs, DeleteCoins,
       InsertBlock, LinkPrevious, MarkProcessed, ReceiveTx, NetworkAdvance, node, vars
<1>4. CASE pc # "reorg"
  BY <1>1, <1>2, <1>4 DEF Next, SyncStep, Announce, StartSync, AskHeaders, HandleGenesis,
     GetHeaders, WriteSyncedFlag, EndRound, NextBlock, DeleteBlocks, DeleteTxs, DeleteCoins,
     UnspendCoins, InsertBlock, LinkPrevious, MarkProcessed, ReceiveTx, NetworkAdvance, node, vars
<1> QED BY <1>3, <1>4

\* Every step keeps what handleReorg has deleted so far deleted until it is over.
LEMMA ReorgDoneStep ==
    ASSUME TypeInv, TypeInv', ReorgDone, [Next]_vars PROVE ReorgDone'
<1> SUFFICES ASSUME pc' = "reorg" PROVE ReorgDone'
  BY DEF ReorgDone
<1>1. CASE pc = "next" /\ deletes' = Collections
  BY <1>1 DEF ReorgDone, Collections
<1>2. CASE /\ pc = "reorg" /\ floor' = floor
           /\ "coins" \notin deletes' => "coins" \notin deletes \/ DeleteCoins
           /\ "txs" \notin deletes' => "txs" \notin deletes \/ DeleteTxs
  <2>1. job[Sync].phase = "idle"  BY <1>2 DEF TypeInv, JobOK
  <2>2. floor \in Nat  BY DEF TypeInv, TypeOK
  <2>3. \A c \in Coin : /\ coins'[c].mintHeight \in Int
                        /\ coins'[c].mintHeight >= 0 => coins'[c].mintHeight = coins[c].mintHeight
    BY <2>1, NewHeights DEF TypeInv, TypeOK, CoinDoc, HeightField, PENDING, CONFLICTING, ABSENT
  <2>4. \A t \in Tx : /\ txs'[t].blockHeight \in Int
                      /\ txs'[t].blockHeight >= 0 => txs'[t].blockHeight = txs[t].blockHeight
    BY <2>1, NewHeights DEF TypeInv, TypeOK, TxDoc, HeightField, PENDING, CONFLICTING, ABSENT
  <2>5. DeleteCoins => \A c \in Coin : ~(coins'[c].mintHeight >= floor)
    BY <2>2 DEF DeleteCoins, NoCoinDoc, ABSENT
  <2>6. DeleteTxs => \A t \in Tx : ~(txs'[t].blockHeight >= floor)
    BY <2>2 DEF DeleteTxs, NoTxDoc, ABSENT
  <2>7. "coins" \notin deletes' => \A c \in Coin : ~(coins'[c].mintHeight >= floor)
    BY <1>2, <2>2, <2>3, <2>5 DEF ReorgDone
  <2>8. "txs" \notin deletes' => \A t \in Tx : ~(txs'[t].blockHeight >= floor)
    BY <1>2, <2>2, <2>4, <2>6 DEF ReorgDone
  <2> QED BY <1>2, <2>7, <2>8 DEF ReorgDone
<1> QED BY <1>1, <1>2, DeletesLeft

\* Every step keeps the mint heights sound, by the same two facts.
LEMMA MintsSoundStep ==
    ASSUME IInv, IInv', ReorgDone, MintsSound, [Next]_vars,
           Crash \/ RejectBlock => pc # "reorg"
    PROVE  MintsSound'
<1>1. TypeInv  BY DEF IInv
<1>2. UnspendCoins => /\ \A c \in Coin : ~(coins[c].mintHeight >= floor)
                      /\ \A t \in Tx : ~(txs[t].blockHeight >= floor)
  BY DEF UnspendCoins, ReorgDone
<1>3. floor \in Nat  BY <1>1 DEF TypeInv, TypeOK
<1>4. ASSUME job[Sync].phase # "idle", ImportStep(Sync), NEW t \in JobTxs(Sync)
      PROVE  \E b \in Block : /\ BlockStored(b)' /\ blocks'[b].height = JobHeight(Sync)
                              /\ t \in TxsOf[b]
  <2>1. JobHeight(Sync) = blocks[cur].height /\ StoredAt(t, blocks[cur].height)
    BY <1>4, ImportStored
  <2>2. UNCHANGED blocks
    BY <1>4 DEF ImportStep, NextPhase, MintCoin, PruneQuery, InvalidateTx, InvalidateOutputs,
       ReleaseInputs, SpendCoin, StoreTx, db
  <2> QED BY <2>1, <2>2 DEF StoredAt, BlockStored
<1>5. ASSUME NEW c \in Coin, coins'[c].mintHeight >= 0, Settled(coins[c].mintHeight)'
      PROVE  StoredAt(Minter[c], coins[c].mintHeight)'
  <2>1. CASE coins'[c].mintHeight = coins[c].mintHeight
    <3> DEFINE h == coins[c].mintHeight
    <3>1. h \in Nat
      BY <1>1, <1>5, <2>1 DEF TypeInv, TypeOK, CoinDoc, HeightField, PENDING, CONFLICTING, ABSENT
    <3>2. pc' = "reorg" => h < floor'  BY <1>5, <2>1 DEF Settled
    <3>3. UnspendCoins => h < floor  BY <1>2, <1>3, <3>1
    <3>4. Settled(h) => StoredAt(Minter[c], h)  BY <3>1 DEF MintsSound
    <3> HIDE DEF h
    <3>5. \E b \in Block : BlockStored(b)' /\ blocks'[b].height = h /\ Minter[c] \in TxsOf[b]
      BY <3>1, <3>2, <3>3, <3>4, StoredStays
    <3> QED BY <3>5, <2>1 DEF StoredAt, h
  <2>2. CASE coins'[c].mintHeight # coins[c].mintHeight
    BY <1>1, <1>4, <1>5, <2>2, NewHeights DEF StoredAt
  <2> QED BY <2>1, <2>2
<1>6. ASSUME NEW t \in Tx, txs'[t].blockHeight >= 0, Settled(txs[t].blockHeight)'
      PROVE  StoredAt(t, txs[t].blockHeight)'
  <2>1. CASE txs'[t].blockHeight = txs[t].blockHeight
    <3> DEFINE h == txs[t].blockHeight
    <3>1. h \in Nat
      BY <1>1, <1>6, <2>1 DEF TypeInv, TypeOK, TxDoc, HeightField, PENDING, CONFLICTING, ABSENT
    <3>2. pc' = "reorg" => h < floor'  BY <1>6, <2>1 DEF Settled
    <3>3. UnspendCoins => h < floor  BY <1>2, <1>3, <3>1
    <3>4. Settled(h) => StoredAt(t, h)  BY <3>1 DEF MintsSound
    <3> HIDE DEF h
    <3>5. \E b \in Block : BlockStored(b)' /\ blocks'[b].height = h /\ t \in TxsOf[b]
      BY <3>1, <3>2, <3>3, <3>4, StoredStays
    <3> QED BY <3>5, <2>1 DEF StoredAt, h
  <2>2. CASE txs'[t].blockHeight # txs[t].blockHeight
    BY <1>1, <1>4, <1>6, <2>2, NewHeights DEF StoredAt
  <2> QED BY <2>1, <2>2
<1> QED BY <1>5, <1>6 DEF MintsSound

-----------------------------------------------------------------------------
(* The links between the processed blocks. *)

\* What is above b is not on its branch, so a child of a block that ends the
\* branch is not processed.
LEMMA ChildAbove ==
    ASSUME NEW b \in Block, NEW c \in Block, c # Genesis, Parent[c] = b
    PROVE  c \notin Chain[b]
<1>1. Height[c] = Height[b] + 1  BY ParentChain
<1>2. c \in Chain[b] => Height[c] <= Height[b]  BY ChainOrder
<1> QED BY <1>1, <1>2, HeightType

\* The steps that write no block keep the links, until a block is imported.
LEMMA LinksFrame ==
    ASSUME Linked, NextLinks, UNCHANGED blocks,
           pc' = "import" => pc = "import" /\ cur' = cur
    PROVE  Linked' /\ NextLinks'
BY BlocksFrame DEF Linked, NextLinks

\* Which steps import: the link starts it.
LEMMA ImportStays ==
    ASSUME [Next]_vars, pc' = "import"
    PROVE  LinkPrevious \/ (pc = "import" /\ cur' = cur)
<1>1. ASSUME NEW w \in Worker, ImportStep(w) PROVE UNCHANGED <<pc, cur>>
  BY <1>1 DEF ImportStep, NextPhase, MintCoin, PruneQuery, InvalidateTx, InvalidateOutputs,
     ReleaseInputs, SpendCoin, StoreTx
<1> QED
  BY <1>1 DEF Next, SyncStep, Worker, Announce, StartSync, AskHeaders, HandleGenesis,
     GetHeaders,
     WriteSyncedFlag, EndRound, NextBlock, DeleteBlocks, DeleteTxs, DeleteCoins, UnspendCoins,
     InsertBlock, MarkProcessed, ReceiveTx, NetworkAdvance, RejectBlock, Crash, node, vars

\* Only these steps write the documents of the blocks.
LEMMA BlockWrites ==
    ASSUME [Next]_vars
    PROVE  DeleteBlocks \/ InsertBlock \/ LinkPrevious \/ MarkProcessed \/ UNCHANGED blocks
<1>1. ASSUME NEW w \in Worker, ImportStep(w) PROVE UNCHANGED blocks
  BY <1>1 DEF ImportStep, NextPhase, MintCoin, PruneQuery, InvalidateTx, InvalidateOutputs,
     ReleaseInputs, SpendCoin, StoreTx, db
<1> QED
  BY <1>1 DEF Next, SyncStep, Worker, Announce, StartSync, AskHeaders, HandleGenesis,
     GetHeaders,
     WriteSyncedFlag, EndRound, NextBlock, DeleteTxs, DeleteCoins, UnspendCoins,
     ReceiveTx, NetworkAdvance, RejectBlock, Crash, db, vars

\* A block is linked from the tip, and no processed block follows that.
LEMMA LinksStep ==
    ASSUME TypeInv, BranchInv, BranchInv', Linked, NextLinks, [Next]_vars
    PROVE  Linked' /\ NextLinks'
<1>1. CASE DeleteBlocks
  <2>1. Linked'  BY <1>1 DEF DeleteBlocks, Linked
  <2>2. ASSUME NEW b \in Processed', b # Genesis
        PROVE  b \in Processed /\ blocks'[Parent[b]] = blocks[Parent[b]]
    <3>1. \A x \in Block : BlockStored(x)' => blocks'[x] = blocks[x]
      BY <1>1 DEF DeleteBlocks, BlockStored, NoBlockDoc
    <3>2. b \in Block /\ BlockStored(b)'  BY <2>2 DEF Processed, BlockStored
    <3>3. Parent[b] \in Processed'
      <4>1. PICK t \in Block : Processed' = Chain[t]  BY <2>2 DEF BranchInv, IsBranch
      <4>2. Chain[b] \subseteq Processed'  BY <2>2, <4>1, ChainOrder
      <4> QED BY <2>2, <3>2, <4>2, ParentChain, ChainMember
    <3>4. Parent[b] \in Block /\ BlockStored(Parent[b])'
      BY <3>3 DEF Processed, BlockStored
    <3> QED BY <2>2, <3>1, <3>2, <3>4 DEF Processed
  <2> QED BY <2>1, <2>2 DEF NextLinks
<1>2. CASE InsertBlock
  <2>1. cur \in Block /\ AtCursor /\ (cur = Genesis => Processed \subseteq {Genesis})
    BY <1>2 DEF InsertBlock, TypeInv, JobOK, BranchInv, CursorOK
  <2>2. Processed' = Processed \ {cur} /\ \A x \in Block \ {cur} : blocks'[x] = blocks[x]
    BY <1>2, <2>1 DEF InsertBlock, Processed, TypeInv, TypeOK
  <2>3. ASSUME NEW b \in Processed', b # Genesis PROVE Parent[b] \in Block \ {cur}
    <3>1. b \in Block /\ b \in Processed  BY <2>2, <2>3 DEF Processed
    <3>2. Parent[b] \in Block  BY <2>3, <3>1, ParentChain
    <3>3. ASSUME Parent[b] = cur PROVE FALSE
      <4>1. cur # Genesis /\ Processed = Chain[Parent[cur]]
        BY <2>1, <2>3, <3>1 DEF AtCursor
      <4>2. b \in Chain[cur]  BY <2>1, <3>1, <4>1, ParentChain
      <4> QED BY <2>1, <2>3, <3>1, <3>3, <4>2, ChildAbove
    <3> QED BY <3>2, <3>3
  <2>4. NextLinks'  BY <2>2, <2>3 DEF NextLinks
  <2> QED BY <1>2, <2>4 DEF InsertBlock, Linked
<1>3. CASE LinkPrevious
  <2>1. cur \in Block /\ AtCursor /\ (cur = Genesis => Processed = {})
    BY <1>3 DEF LinkPrevious, TypeInv, JobOK, BranchInv, CursorOK
  <2>2. Processed' = Processed /\ cur' = cur
    BY <1>3, LinkBranch DEF LinkPrevious
  <2>3. CASE cur = Genesis
    BY <2>1, <2>2, <2>3 DEF NextLinks, Linked
  <2>4. CASE cur # Genesis
    <3> DEFINE p == Parent[cur]
    <3>1. p \in Block /\ Processed = Chain[p] /\ BlockStored(p)
      BY <2>1, <2>4, ParentChain, ChainMember DEF AtCursor, BlockStored, Processed
    <3>2. blocks' = [blocks EXCEPT ![p].next = cur]
      BY <1>3, <3>1, BlockTypes DEF LinkPrevious
    <3>3. blocks'[p].next = cur /\ \A x \in Block \ {p} : blocks'[x] = blocks[x]
      BY <3>1, <3>2 DEF TypeInv, TypeOK, BlockDoc
    <3>4. ASSUME NEW b \in Processed, b # Genesis PROVE Parent[b] \in Block \ {p}
      BY <3>1, <3>4, ParentChain, ChildAbove DEF Processed
    <3>5. NextLinks'  BY <2>2, <3>3, <3>4 DEF NextLinks
    <3>6. Linked'  BY <2>2, <3>3 DEF Linked
    <3> QED BY <3>5, <3>6
  <2> QED BY <2>3, <2>4
<1>4. CASE MarkProcessed
  <2>1. cur \in Block /\ pc = "import"  BY <1>4 DEF MarkProcessed, TypeInv, JobOK
  <2>2. \A x \in Block : /\ blocks'[x].next = blocks[x].next
                         /\ x # cur => blocks'[x].st = blocks[x].st
    BY <1>4 DEF MarkProcessed, TypeInv, TypeOK, BlockDoc
  <2>3. \A b \in Processed' : b \in Block /\ (b \in Processed \/ b = cur)
    BY <2>2 DEF Processed
  <2>4. \A b \in Processed' : b # Genesis => Parent[b] \in Block  BY <2>3, ParentChain
  <2>5. NextLinks'  BY <2>1, <2>2, <2>3, <2>4 DEF NextLinks, Linked
  <2> QED BY <1>4, <2>5 DEF MarkProcessed, Linked
<1>5. CASE UNCHANGED blocks
  <2>1. ASSUME pc' = "import", LinkPrevious PROVE Linked' /\ NextLinks'  BY <1>3, <2>1
  <2> QED BY <1>5, <2>1, ImportStays, LinksFrame
<1> QED BY <1>1, <1>2, <1>3, <1>4, <1>5, BlockWrites

\* Every step keeps the tree invariant, until a reply comes late.
LEMMA TreeStep ==
    ASSUME TypeInv, TreeInv, [Next]_vars
    PROVE  TreeInv'
<1> SUFFICES ASSUME lates' = 0 PROVE BranchInv' /\ Linked' /\ NextLinks'
  BY DEF TreeInv
<1>1. BranchInv /\ Linked /\ NextLinks  BY LatesGrow DEF TreeInv
<1>2. BranchInv'  BY <1>1, BranchStep
<1> QED BY <1>1, <1>2, LinksStep

-----------------------------------------------------------------------------
(* The stored blocks, beside the branch. *)

\* Only a cut changes what is cut, and the blocks above it stay deleted.
LEMMA CutStep ==
    ASSUME TypeInv, TypeInv', CutDone, [Next]_vars
    PROVE  CutDone'
<1> SUFFICES ASSUME pc' = "reorg", "blocks" \notin deletes', NEW b \in Block, BlockStored(b)'
             PROVE  blocks'[b].height < floor'
  BY DEF CutDone
<1>1. ASSUME NEW w \in Worker, ImportStep(w) PROVE UNCHANGED <<blocks, pc, floor, deletes>>
  BY <1>1 DEF ImportStep, NextPhase, MintCoin, PruneQuery, InvalidateTx, InvalidateOutputs,
     ReleaseInputs, SpendCoin, StoreTx, db
<1>2. CASE DeleteBlocks
  <2>1. blocks'[b] = blocks[b] /\ ~(blocks[b].height >= floor) /\ floor' = floor
    BY <1>2 DEF DeleteBlocks, BlockStored, NoBlockDoc
  <2>2. blocks[b].height \in Nat /\ floor \in Nat  BY DEF TypeInv, TypeOK, BlockDoc
  <2> QED BY <2>1, <2>2
<1>3. CASE UNCHANGED <<blocks, pc, floor>> /\ "blocks" \notin deletes
  BY <1>3 DEF CutDone, BlockStored
<1> QED
  BY <1>1, <1>2, <1>3 DEF Next, SyncStep, Worker, Announce, StartSync, AskHeaders, HandleGenesis,
     GetHeaders,
     WriteSyncedFlag, EndRound, NextBlock, DeleteTxs, DeleteCoins, UnspendCoins, InsertBlock,
     LinkPrevious, MarkProcessed, ReceiveTx, NetworkAdvance, RejectBlock, Crash, db, node, vars,
     Collections

\* Crashes and failures are only ever counted up.
LEMMA CrashesGrow ==
    ASSUME TypeInv, [Next]_vars, crashes' = 0
    PROVE  crashes = 0 /\ ~Crash /\ ~RejectBlock
<1>1. crashes \in Nat  BY DEF TypeInv, TypeOK
<1>2. ~Crash /\ ~RejectBlock  BY <1>1 DEF Crash, RejectBlock
<1>3. ASSUME NEW w \in Worker, ImportStep(w) PROVE crashes' = crashes
  BY <1>3 DEF ImportStep, NextPhase, MintCoin, PruneQuery, InvalidateTx, InvalidateOutputs,
     ReleaseInputs, SpendCoin, StoreTx, env
<1> QED
  BY <1>2, <1>3 DEF Next, SyncStep, Worker, Announce, StartSync, AskHeaders, HandleGenesis,
     GetHeaders,
     WriteSyncedFlag, EndRound, NextBlock, DeleteBlocks, DeleteTxs, DeleteCoins, UnspendCoins,
     InsertBlock, LinkPrevious, MarkProcessed, ReceiveTx, NetworkAdvance, env, vars

\* While nothing fails the block that is inserted is processed in the end.
LEMMA OnlyCurStep ==
    ASSUME TypeInv, OnlyCur, [Next]_vars
    PROVE  OnlyCur'
<1> SUFFICES ASSUME crashes' = 0, NEW b \in Block, BlockStored(b)'
             PROVE  b \in Processed' \/ (b = cur' /\ pc' \in {"link", "import"})
  BY DEF OnlyCur
<1>1. /\ ~Crash /\ ~RejectBlock
      /\ BlockStored(b) => b \in Processed \/ (b = cur /\ pc \in {"link", "import"})
  BY CrashesGrow DEF OnlyCur
<1>2. CASE DeleteBlocks
  <2>1. blocks'[b] = blocks[b]  BY <1>2 DEF DeleteBlocks, BlockStored, NoBlockDoc
  <2> QED BY <1>1, <1>2, <2>1 DEF DeleteBlocks, Processed, BlockStored
<1>3. CASE InsertBlock
  BY <1>1, <1>3 DEF InsertBlock, Processed, BlockStored, TypeInv, TypeOK
<1>4. CASE LinkPrevious
  <2>1. blocks'[b].st = blocks[b].st  BY <1>4 DEF LinkPrevious, TypeInv, TypeOK, BlockDoc
  <2> QED BY <1>1, <1>4, <2>1 DEF LinkPrevious, Processed, BlockStored
<1>5. CASE MarkProcessed
  <2>1. blocks'[b].st = IF b = cur THEN "processed" ELSE blocks[b].st
    BY <1>5 DEF MarkProcessed, TypeInv, TypeOK, BlockDoc
  <2> QED BY <1>1, <2>1 DEF Processed, BlockStored
<1>6. CASE UNCHANGED blocks
  <2>1. BlockStored(b) /\ Processed' = Processed  BY <1>6, BlocksFrame
  <2>2. ASSUME NEW w \in Worker, ImportStep(w) PROVE UNCHANGED <<pc, cur>>
    BY <2>2 DEF ImportStep, NextPhase, MintCoin, PruneQuery, InvalidateTx, InvalidateOutputs,
       ReleaseInputs, SpendCoin, StoreTx
  <2>3. pc \in {"link", "import"} =>
           \/ LinkPrevious \/ MarkProcessed
           \/ UNCHANGED <<pc, cur>>
    BY <1>1, <2>2 DEF Next, SyncStep, Worker, Announce, StartSync, AskHeaders, HandleGenesis,
     GetHeaders,
       WriteSyncedFlag, EndRound, NextBlock, DeleteBlocks, DeleteTxs, DeleteCoins, UnspendCoins,
       InsertBlock, ReceiveTx, NetworkAdvance, node, vars
  <2> QED BY <1>1, <1>4, <1>5, <2>1, <2>3
<1> QED BY <1>2, <1>3, <1>4, <1>5, <1>6, BlockWrites

-----------------------------------------------------------------------------
(* A single branch. *)

\* The reply to a node on the network's own branch starts from its tip.
LEMMA ReplyFromTip ==
    ASSUME TypeInv, BranchInv, NEW t \in Block, Processed = Chain[t], t \in Chain[netTip]
    PROVE  Reply(Locators, netTip) = Chain[netTip] \ Chain[t]
<1> DEFINE known == (Locators \cap Chain[netTip]) \cup {Genesis}
<1>1. LocalTip = t /\ blocks[t].height = Height[t] /\ t \in Processed /\ t # NoBlock
  BY LocalTipIs, BlockTypes DEF TypeInv, BranchInv
<1>2. known \subseteq Chain[t]  BY BlockTree DEF Locators
<1>3. t \in known
  <2>1. CASE blocks[t].height = 0
    <3>1. Genesis \in Chain[t] /\ t \in Chain[t] /\ Height[Genesis] = Height[t]
      BY <1>1, <2>1, BlockTree, BlockTypes, ChainMember
    <3> QED BY <3>1, BlockTree
  <2>2. CASE blocks[t].height # 0
    <3>1. blocks[t].height > blocks[t].height - MaxLocators
      BY <1>1, HeightType, IndexAssumption
    <3>2. t \in Locators  BY <1>1, <2>2, <3>1 DEF Locators
    <3> QED BY <3>2
  <2> QED BY <2>1, <2>2
<1>4. \A b \in known : b \in Block /\ Height[b] <= Height[t]
  BY <1>2, ChainOrder
<1>5. ASSUME NEW b \in known, Height[t] <= Height[b] PROVE b = t
  <2>1. Height[b] = Height[t]  BY <1>4, <1>5, HeightType
  <2> QED BY <1>2, <1>5, <2>1, ChainMember, BlockTree
<1>6. \A b \in known : (\A x \in known : Height[x] <= Height[b]) => b = t
  BY <1>3, <1>5
<1>7. \A x \in known : Height[x] <= Height[t]  BY <1>4
<1> HIDE DEF known
<1>8. (CHOOSE b \in known : \A x \in known : Height[x] <= Height[b]) = t
  BY <1>3, <1>6, <1>7, Zenon
<1> QED BY <1>8, Zenon DEF Reply, known

\* The reply under way follows the tip.
ReplyOnward ==
    \E f, x \in Block : /\ Processed = Chain[f] /\ f \in Chain[x]
                        /\ reply = Chain[x] \ Chain[f]

\* The steps that leave what Onward speaks of alone, or start over.
LEMMA OnwardFrame ==
    ASSUME TypeInv, Onward, lates' = 0 => lates = 0,
           Processed' \subseteq Processed, headers' \subseteq headers, netTip' = netTip,
           reply' \subseteq reply,
           cur' = cur \/ cur' = NoBlock,
           pc' # "reorg" \/ pc = "reorg",
           pc' = "next" => pc = "next" /\ UNCHANGED <<blocks, headers>>,
           pc' = "awaitHeaders" => pc = "awaitHeaders" /\ UNCHANGED <<blocks, reply>>
    PROVE  Onward'
<1> SUFFICES ASSUME Linear, lates' = 0, lates = 0 PROVE Onward'
  BY DEF Onward
<1>1. /\ pc # "reorg"
      /\ Processed \cup headers \cup reply \subseteq Chain[netTip]
      /\ cur \in Chain[netTip] \cup {NoBlock}
      /\ pc = "next" =>
            headers = {Genesis} \/ \E f \in Block : Processed = Chain[f] /\ PathFrom(f)
      /\ pc = "awaitHeaders" => ReplyOnward
  BY DEF Onward, ReplyOnward
<1>2. pc' = "next" =>
         (headers = {Genesis} \/ \E f \in Block : Processed = Chain[f] /\ PathFrom(f))'
  BY <1>1, BlocksFrame DEF PathFrom
<1>3. pc' = "awaitHeaders" => ReplyOnward'
  BY <1>1, BlocksFrame DEF ReplyOnward
<1> QED BY <1>1, <1>2, <1>3 DEF Onward, ReplyOnward

\* On a single branch the reply continues the index, and is imported on top of it.
LEMMA OnwardRequest ==
    ASSUME TypeInv, BranchInv, Onward, Linear, lates = 0, lates' = 0,
           AskHeaders \/ HandleGenesis \/ GetHeaders
    PROVE  Onward'
<1>1. /\ pc # "reorg" /\ netTip \in Block
      /\ Processed \cup headers \cup reply \subseteq Chain[netTip]
      /\ cur \in Chain[netTip] \cup {NoBlock}
      /\ pc = "awaitHeaders" => ReplyOnward
  BY DEF Onward, ReplyOnward, TypeInv, TypeOK
<1>2. UNCHANGED <<blocks, netTip, cur>> /\ Processed' = Processed
  BY BlocksFrame DEF AskHeaders, HandleGenesis, GetHeaders, db
<1>3. CASE HandleGenesis
  <2>1. PICK hs \in {reply} \cup late :
           /\ Answer(hs)
           /\ headers' = IF hs = {} THEN {} ELSE {Parent[Head(hs)]}
           /\ pc' = IF hs = {} THEN "headers" ELSE "next"
    BY <1>3 DEF HandleGenesis
  <2>2. PICK x \in Block : hs = Chain[x] \ Chain[Genesis] /\ x # Genesis
    BY <2>1, <1>3, AnswerInOrder DEF HandleGenesis, BranchInv, CursorOK
  <2>3. Genesis \in Chain[x] /\ Genesis \in Chain[netTip]  BY <1>1, BlockTree
  <2>4. hs # {} /\ Parent[Head(hs)] = Genesis  BY <2>2, <2>3, PathHead
  <2>5. headers' = {Genesis} /\ pc' = "next" /\ reply' = {}  BY <2>1, <2>4 DEF Answer
  <2> QED BY <1>1, <1>2, <2>3, <2>5 DEF Onward
<1>4. CASE GetHeaders
  <2>1. PICK hs \in {reply} \cup late :
           /\ Answer(hs)
           /\ headers' = hs
           /\ pc' = IF hs = {} THEN "idle" ELSE "next"
    BY <1>4 DEF GetHeaders
  <2>2. hs = reply /\ reply' = {}  BY <2>1, AnswerInOrder DEF Answer
  <2>3. PICK f \in Block, x \in Block :
           Processed = Chain[f] /\ f \in Chain[x] /\ reply = Chain[x] \ Chain[f]
    BY <1>1, <1>4 DEF GetHeaders, ReplyOnward
  <2>4. PathFrom(f)'  BY <2>1, <2>2, <2>3 DEF PathFrom
  <2>5. pc' \notin {"reorg", "awaitHeaders"}  BY <2>1
  <2> QED BY <1>1, <1>2, <2>1, <2>2, <2>3, <2>4, <2>5 DEF Onward
<1>5. CASE AskHeaders
  <2>1. reply' = Reply(Locators, netTip) /\ UNCHANGED headers
        /\ pc' \in {"awaitGenesis", "awaitHeaders"} /\ (pc' = "awaitHeaders" => pc = "headers")
    BY <1>5 DEF AskHeaders
  <2>2. reply' \subseteq Chain[netTip]  BY <2>1, ReplyFollows
  <2>3. ASSUME pc' = "awaitHeaders" PROVE ReplyOnward'
    <3>1. PICK t \in Block : Processed = Chain[t]
      BY <2>1, <2>3 DEF BranchInv, CursorOK, IsBranch
    <3>2. t \in Chain[netTip]  BY <1>1, <3>1, ChainMember
    <3>3. reply' = Chain[netTip] \ Chain[t]  BY <2>1, <3>1, <3>2, ReplyFromTip
    <3> QED BY <1>1, <1>2, <3>1, <3>2, <3>3 DEF ReplyOnward
  <2> QED BY <1>1, <1>2, <2>1, <2>2, <2>3 DEF Onward, ReplyOnward
<1> QED BY <1>3, <1>4, <1>5

\* The next header is that of a block on top of the tip.
LEMMA OnwardNextBlock ==
    ASSUME TypeInv, BranchInv, Onward, Linear, lates = 0, NextBlock
    PROVE  Onward'
<1> DEFINE b == Head(headers)
<1>1. /\ pc = "next" /\ headers # {}
      /\ Processed \cup headers \cup reply \subseteq Chain[netTip]
      /\ headers = {Genesis} \/ \E f \in Block : Processed = Chain[f] /\ PathFrom(f)
  BY DEF Onward, NextBlock
<1>2. /\ UNCHANGED <<blocks, netTip, reply>> /\ Processed' = Processed
      /\ cur' = b /\ headers' = headers \ {b}
  BY BlocksFrame DEF NextBlock, db
<1>3. b \in headers /\ Extends(b)
  <2>1. CASE headers = {Genesis}
    <3>1. b = Genesis  BY <2>1, HeadGenesis
    <3>2. Processed \subseteq {Genesis}
      <4>1. ASSUME NEW f \in Processed, PathFrom(f) PROVE FALSE
        <5>1. PICK x \in Block : f \in Chain[x] /\ headers = Chain[x] \ Chain[f]
          BY <4>1 DEF PathFrom
        <5>2. Genesis \in Chain[f]  BY <5>1, ChainOrder, BlockTree
        <5> QED BY <2>1, <5>1, <5>2
      <4> QED BY <1>1, <4>1 DEF BranchInv, CursorOK
    <3>3. Processed = {} => Extends(b)  BY DEF Extends, LocalTip
    <3>4. ASSUME Processed = {Genesis} PROVE Extends(b)
      <4>1. Processed = Chain[Genesis] /\ Genesis \in Block  BY <3>4, BlockTree, BlockTypes
      <4> QED BY <4>1, LocalTipIs, BlockTypes DEF Extends, TypeInv, BranchInv
    <3> QED BY <2>1, <3>1, <3>2, <3>3, <3>4
  <2>2. ASSUME NEW f \in Block, Processed = Chain[f], PathFrom(f)
        PROVE  b \in headers /\ Extends(b)
    <3>1. PICK x \in Block : f \in Chain[x] /\ headers = Chain[x] \ Chain[f]
      BY <2>2 DEF PathFrom
    <3>2. b \in headers /\ Parent[b] = f  BY <1>1, <3>1, PathHead
    <3>3. LocalTip = f  BY <2>2, LocalTipIs DEF TypeInv, BranchInv
    <3> QED BY <3>2, <3>3 DEF Extends
  <2> QED BY <1>1, <2>1, <2>2
<1>4. pc' = "insert"  BY <1>3 DEF NextBlock
<1> HIDE DEF b
<1> QED BY <1>1, <1>2, <1>3, <1>4 DEF Onward

\* A better branch is a longer one.
LEMMA OnwardNetwork ==
    ASSUME TypeInv, Onward, NetworkAdvance
    PROVE  Onward'
<1> SUFFICES ASSUME Linear, lates = 0 PROVE Onward'
  BY DEF NetworkAdvance, Onward
<1>1. UNCHANGED <<blocks, pc, headers, cur, reply>> /\ Processed' = Processed
  BY BlocksFrame DEF NetworkAdvance, db, node
<1>2. netTip \in Block /\ netTip' \in Block /\ Height[netTip'] > Height[netTip]
  BY DEF NetworkAdvance, TypeInv, TypeOK
<1>3. netTip' \notin Chain[netTip]  BY <1>2, ChainOrder, HeightType
<1>4. Chain[netTip] \subseteq Chain[netTip']
  BY <1>2, <1>3, ChainOrder DEF Linear
<1> QED BY <1>1, <1>4 DEF Onward, PathFrom

\* On a single branch nothing is ever cut, until a reply comes late.
LEMMA OnwardStep ==
    ASSUME TypeInv, TreeInv, Onward, [Next]_vars
    PROVE  Onward'
<1> SUFFICES ASSUME Linear, lates' = 0 PROVE Onward'
  BY DEF Onward
<1>1. lates = 0 /\ BranchInv  BY LatesGrow DEF TreeInv
<1>2. pc # "reorg"  BY <1>1 DEF Onward
<1>3. CASE AskHeaders \/ HandleGenesis \/ GetHeaders  BY <1>1, <1>3, OnwardRequest
<1>4. CASE NextBlock  BY <1>1, <1>4, OnwardNextBlock
<1>5. CASE NetworkAdvance  BY <1>5, OnwardNetwork
<1>6. CASE StartSync \/ EndRound \/ Crash \/ RejectBlock
  <2>1. UNCHANGED <<blocks, netTip>> /\ Processed' = Processed
    BY <1>6, BlocksFrame DEF StartSync, EndRound, Crash, RejectBlock, db, env
  <2>2. /\ headers' \subseteq headers /\ reply' \subseteq reply
        /\ cur' = cur \/ cur' = NoBlock
        /\ pc' \notin {"reorg", "next", "awaitHeaders"}
    BY <1>6 DEF StartSync, EndRound, Crash, RejectBlock, env
  <2> QED BY <1>1, <2>1, <2>2, OnwardFrame
<1>11. CASE Announce
  <2>1. /\ UNCHANGED <<blocks, headers, cur, netTip, reply>> /\ Processed' = Processed
        /\ pc' = "start" \/ pc' = pc
    BY <1>11, BlocksFrame DEF Announce, db
  <2> QED BY <1>1, <2>1, <1>2, OnwardFrame
<1>7. CASE InsertBlock
  <2>1. Processed' \subseteq Processed  BY <1>1, <1>7, InsertBranch
  <2> QED BY <1>1, <1>7, <2>1, OnwardFrame DEF InsertBlock, env
<1>8. CASE LinkPrevious
  <2>1. Processed' = Processed  BY <1>1, <1>8, LinkBranch
  <2> QED BY <1>1, <1>8, <2>1, OnwardFrame DEF LinkPrevious, env
<1>9. CASE MarkProcessed
  <2>1. /\ cur \in Block /\ Processed' = Chain[cur] /\ AtCursor
        /\ UNCHANGED <<headers, cur, netTip, reply>> /\ pc' = "next"
    BY <1>1, <1>9, MarkBranch DEF MarkProcessed, BranchInv, CursorOK, env
  <2>2. /\ cur \in Chain[netTip] /\ headers \cup reply \subseteq Chain[netTip] /\ netTip \in Block
    BY <1>1, <2>1, BlockTypes DEF Onward, TypeInv, TypeOK
  <2>3. Chain[cur] \subseteq Chain[netTip]  BY <2>2, BlockTree
  <2>4. PathFrom(cur)
    <3>1. cur = Genesis /\ headers = {} => headers = Chain[cur] \ Chain[cur] /\ cur \in Chain[cur]
      BY BlockTree
    <3> QED BY <2>1, <3>1 DEF AtCursor, PathFrom
  <2>5. PathFrom(cur)'  BY <2>1, <2>4 DEF PathFrom
  <2> QED BY <2>1, <2>2, <2>3, <2>5 DEF Onward
<1>10. CASE UNCHANGED <<blocks, pc, headers, cur, netTip, reply>>
  BY <1>1, <1>10, BlocksFrame, OnwardFrame
<1>12. ASSUME NEW w \in Worker, ImportStep(w)
       PROVE  UNCHANGED <<blocks, pc, headers, cur, netTip, reply>>
  BY <1>12 DEF ImportStep, NextPhase, MintCoin, PruneQuery, InvalidateTx, InvalidateOutputs,
     ReleaseInputs, SpendCoin, StoreTx, db, env
<1> QED
  BY <1>2, <1>3, <1>4, <1>5, <1>6, <1>7, <1>8, <1>9, <1>10, <1>11, <1>12
 
  DEF Next, SyncStep, Worker, WriteSyncedFlag, DeleteBlocks, DeleteTxs, DeleteCoins,
      UnspendCoins, ReceiveTx, db, env, vars

-----------------------------------------------------------------------------
(* What the relayed transactions may have written. *)

\* Only these steps write the documents of the coins.
LEMMA CoinWrites ==
    ASSUME [Next]_vars
    PROVE  (\E w \in Worker : ImportStep(w)) \/ DeleteCoins \/ UnspendCoins \/ UNCHANGED coins
BY DEF Next, SyncStep, Worker, Announce, StartSync, AskHeaders, HandleGenesis,
     GetHeaders,
   WriteSyncedFlag, EndRound, NextBlock, DeleteBlocks, DeleteTxs, InsertBlock, LinkPrevious,
   MarkProcessed, ReceiveTx, NetworkAdvance, RejectBlock, Crash, db, vars

\* A pending spend comes from the import of a relayed transaction.
LEMMA PendingKnownStep ==
    ASSUME TypeInv, AbsentUnspent, PendingKnown, [Next]_vars
    PROVE  PendingKnown'
<1> SUFFICES ASSUME NEW c \in Coin, coins'[c].spentHeight = PENDING
             PROVE  coins'[c].spentTxid \in Mempool /\ c \in Inputs[coins'[c].spentTxid]
  BY DEF PendingKnown
<1>1. ASSUME coins'[c].spentHeight = coins[c].spentHeight, coins'[c].spentTxid = coins[c].spentTxid
      PROVE  coins'[c].spentTxid \in Mempool /\ c \in Inputs[coins'[c].spentTxid]
  BY <1>1 DEF PendingKnown
<1>2. ASSUME NEW w \in Worker, ImportStep(w)
      PROVE  coins'[c].spentTxid \in Mempool /\ c \in Inputs[coins'[c].spentTxid]
  <2>1. ASSUME coins'[c].spentHeight = JobHeight(w), job[w].phase = "spend",
               <<coins'[c].spentTxid, c>> \in SpendOps(w)
        PROVE  coins'[c].spentTxid \in Mempool /\ c \in Inputs[coins'[c].spentTxid]
    <3>1. w # Sync
      <4>1. ASSUME w = Sync PROVE FALSE
        <5>1. cur \in Block  BY <2>1, <4>1 DEF TypeInv, JobOK
        <5>2. blocks[cur].height \in Nat  BY <5>1 DEF TypeInv, TypeOK, BlockDoc
        <5> QED BY <2>1, <4>1, <5>2 DEF JobHeight, PENDING
      <4> QED BY <4>1
    <3>2. Spenders(w) \subseteq {w} /\ w \in Mempool
      BY <3>1 DEF Spenders, JobTxs, Worker
    <3> QED BY <2>1, <3>2 DEF SpendOps
  <2> QED BY <1>1, <1>2, <2>1, ImportCoins DEF UNSPENT, PENDING
<1>3. CASE DeleteCoins
  <2>1. coins'[c] = coins[c]  BY <1>3 DEF DeleteCoins, NoCoinDoc, UNSPENT, PENDING
  <2> QED BY <2>1, <1>1
<1>4. CASE UnspendCoins
  <2> DEFINE d == [coins[c] EXCEPT !.spentHeight = UNSPENT, !.spentTxid = NoTx]
  <2>1. d.spentHeight = UNSPENT  BY DEF TypeInv, TypeOK, CoinDoc
  <2> HIDE DEF d
  <2>2. coins'[c] = coins[c] \/ coins'[c] = d  BY <1>4 DEF UnspendCoins, d
  <2>3. coins'[c] = coins[c]  BY <2>1, <2>2 DEF UNSPENT, PENDING
  <2> QED BY <2>3, <1>1
<1> QED BY <1>1, <1>2, <1>3, <1>4, CoinWrites

\* Every step of an import that is not the end of a phase and no part of the
\* pruning takes one item from the work of the phase, and writes it.
LEMMA JobSteps ==
    ASSUME TypeInv, NEW w \in Worker, ImportStep(w)
    PROVE  /\ \A v \in Worker \ {w} : job'[v] = job[v]
           /\ job[w].phase # "idle"
           /\ \/ NextPhase(w)
              \/ job[w].phase = "prune" /\ job'[w].phase = "prune"
              \/ \E x \in job[w].todo :
                    /\ job' = Done(w, x)
                    /\ job[w].phase \in {"mint", "spend", "tx"}
                    /\ job[w].phase = "mint" => MintCoin(w, x)
                    /\ job[w].phase = "spend" => SpendCoin(w, x[1], x[2])
                    /\ job[w].phase = "tx" => StoreTx(w, x)
<1>1. job \in [Worker -> JobDoc]  BY DEF TypeInv, TypeOK
<1>2. job[w].phase # "idle"
  <2>1. ASSUME job[w].phase = "idle" PROVE job[w].todo = {} /\ job[w].updates = {}
    BY <2>1 DEF TypeInv, JobOK, PhaseWork
  <2> QED BY <2>1 DEF ImportStep, NextPhase, InvalidateTx, InvalidateOutputs, ReleaseInputs
<1>3. CASE NextPhase(w)  BY <1>1, <1>2, <1>3 DEF NextPhase
<1>4. ASSUME NEW x \in job[w].todo, job[w].phase = "mint", MintCoin(w, x)
      PROVE  job' = Done(w, x) /\ \A v \in Worker \ {w} : job'[v] = job[v]
  BY <1>1, <1>4 DEF MintCoin, Done
<1>5. ASSUME NEW x \in job[w].todo, job[w].phase = "spend", SpendCoin(w, x[1], x[2])
      PROVE  job' = Done(w, x) /\ \A v \in Worker \ {w} : job'[v] = job[v]
  <2>1. job[w].todo \subseteq Tx \X Coin
    BY <1>2, <1>5, WorkTypes DEF TypeInv, JobOK, PhaseWork
  <2>2. x = <<x[1], x[2]>>  BY <2>1
  <2> QED BY <1>1, <1>5, <2>2 DEF SpendCoin, Done
<1>6. ASSUME NEW x \in job[w].todo, job[w].phase = "tx", StoreTx(w, x)
      PROVE  job' = Done(w, x) /\ \A v \in Worker \ {w} : job'[v] = job[v]
  BY <1>1, <1>6 DEF StoreTx, Done
<1>7. ASSUME NEW u, u \in job[w].updates, job' = AfterUpdate(w, u)
      PROVE  /\ job[w].phase = "prune" /\ job'[w].phase = "prune"
             /\ \A v \in Worker \ {w} : job'[v] = job[v]
  <2>1. job[w].phase = "prune"  BY <1>7 DEF TypeInv, JobOK
  <2> QED BY <1>1, <1>7, <2>1 DEF AfterUpdate, NoJob, JobDoc
<1>8. ASSUME NEW x \in job[w].todo, job[w].phase = "prune", PruneQuery(w, x)
      PROVE  /\ job[w].phase = "prune" /\ job'[w].phase = "prune"
             /\ \A v \in Worker \ {w} : job'[v] = job[v]
  BY <1>1, <1>8 DEF PruneQuery, Done, JobDoc
<1> QED
  BY <1>2, <1>3, <1>4, <1>5, <1>6, <1>7, <1>8
  DEF ImportStep, InvalidateTx, InvalidateOutputs, ReleaseInputs

\* A query for rivals finds none among transactions that have none.
LEMMA PruneFindsNone ==
    ASSUME TypeInv, PendingKnown, NoRivals, NEW w \in Worker, job[w].phase = "prune",
           NEW t \in job[w].todo, PruneQuery(w, t)
    PROVE  job' = Done(w, t)
<1>1. t \in Spenders(w)  BY DEF TypeInv, JobOK, PhaseWork
<1>2. t \in Tx /\ Inputs[t] # {} /\ t \in JobTxs(w)
  BY <1>1, WorkTypes DEF Spenders, IsCoinbase
<1>3. t \in Mempool \cup UNION {TxsOf[b] : b \in Block}
  BY <1>2 DEF JobTxs, Worker, TypeInv, JobOK
<1>4. FirstInput[t] \in Coin /\ FirstInput[t] \in Inputs[t]  BY <1>2, TxTypes
<1> DEFINE u == coins[FirstInput[t]].spentTxid
<1>5. ASSUME coins[FirstInput[t]].spentHeight = PENDING, u # t PROVE FALSE
  <2>1. u \in Mempool /\ FirstInput[t] \in Inputs[u]  BY <1>4, <1>5 DEF PendingKnown
  <2>2. Conflict(u, t)  BY <1>4, <1>5, <2>1 DEF Conflict
  <2> QED BY <1>3, <2>1, <2>2 DEF NoRivals
<1> QED BY <1>5 DEF PruneQuery

\* So nothing is invalidated.
LEMMA NoneInvalidStep ==
    ASSUME TypeInv, PendingKnown, NoneInvalid, [Next]_vars
    PROVE  NoneInvalid'
<1> SUFFICES ASSUME NoRivals, NEW v \in Worker PROVE job'[v].updates = {}
  BY DEF NoneInvalid, NoRivals
<1>1. job \in [Worker -> JobDoc] /\ \A w \in Worker : job[w].updates = {}
  BY DEF NoneInvalid, TypeInv, TypeOK
<1>2. NoJob.updates = {}  BY DEF NoJob
<1>3. ASSUME NEW w \in Worker, ImportStep(w) PROVE job'[v].updates = {}
  <2>1. CASE v # w  BY <1>1, <1>3, <2>1, JobSteps
  <2>2. CASE v = w
    <3>1. CASE NextPhase(w)
      BY <1>1, <2>2, <3>1 DEF NextPhase, NoJob
    <3>2. ASSUME NEW x, job' = Done(w, x) PROVE job'[w].updates = {}
      BY <1>1, <3>2 DEF Done, JobDoc
    <3>3. ASSUME NEW x \in job[w].todo, job[w].phase = "prune", PruneQuery(w, x)
          PROVE  job'[w].updates = {}
      BY <3>2, <3>3, PruneFindsNone
    <3> QED
      BY <1>1, <2>2, <3>1, <3>2, <3>3, <1>3
      DEF ImportStep, InvalidateTx, InvalidateOutputs, ReleaseInputs, MintCoin, SpendCoin, StoreTx
  <2> QED BY <2>1, <2>2
<1>4. CASE UNCHANGED job  BY <1>1, <1>4
<1>5. CASE LinkPrevious \/ MarkProcessed \/ RejectBlock
  BY <1>1, <1>2, <1>5 DEF LinkPrevious, MarkProcessed, RejectBlock, NoJob
<1>6. CASE Crash  BY <1>2, <1>6 DEF Crash
<1>7. ASSUME NEW t \in Mempool, ReceiveTx(t) PROVE job'[v].updates = {}
  BY <1>1, <1>7 DEF ReceiveTx, NoJob
<1> QED
  BY <1>3, <1>4, <1>5, <1>6, <1>7
  DEF Next, SyncStep, Worker, Announce, StartSync, AskHeaders, HandleGenesis,
     GetHeaders, WriteSyncedFlag, EndRound, NextBlock, DeleteBlocks, DeleteTxs, DeleteCoins,
     UnspendCoins, InsertBlock, NetworkAdvance, node, vars

-----------------------------------------------------------------------------
(* What a block has written stays. *)

\* The block being imported has its height, and while it is imported there is
\* a job for it alone.
LEMMA ImportedBlock ==
    ASSUME TypeInv, BranchInv, pc = "import"
    PROVE  cur \in Block /\ BlockStored(cur) /\ blocks[cur].height = Height[cur]
BY DEF TypeInv, JobOK, BranchInv, CursorOK, HeightsOK

\* How an import changes the mint height of a coin that is stored.
LEMMA ImportMints ==
    ASSUME TypeInv, NEW w \in Worker, ImportStep(w), NEW c \in Coin, CoinStored(c)
    PROVE  \/ coins'[c].mintHeight = coins[c].mintHeight
           \/ coins'[c].mintHeight = CONFLICTING /\ job[w].updates # {}
           \/ /\ w = Sync /\ pc = "import" /\ Minter[c] \in TxsOf[cur]
              /\ coins'[c].mintHeight = blocks[cur].height
<1>1. coins \in [Coin -> CoinDoc]  BY DEF TypeInv, TypeOK
<1>2. ASSUME NEW d \in job[w].todo, job[w].phase = "mint", MintCoin(w, d)
      PROVE  \/ coins'[c].mintHeight = coins[c].mintHeight
             \/ /\ w = Sync /\ pc = "import" /\ Minter[c] \in TxsOf[cur]
                /\ coins'[c].mintHeight = blocks[cur].height
  <2>1. d \in Coin /\ Minter[d] \in JobTxs(w)
    BY <1>2 DEF TypeInv, JobOK, PhaseWork, OutputsOf
  <2>2. coins'[d] = MintedCoin(d, JobHeight(w)) /\ \A e \in Coin \ {d} : coins'[e] = coins[e]
    BY <1>1, <1>2, <2>1 DEF MintCoin
  <2>3. CASE w # Sync
    <3>1. JobHeight(w) = PENDING  BY <1>2, <2>3, JobHeights
    <3>2. c = d => coins'[c] = coins[c]  BY <2>2, <3>1 DEF MintedCoin, PENDING
    <3> QED BY <2>2, <3>2
  <2>4. CASE w = Sync
    <3>1. pc = "import" /\ JobHeight(w) = blocks[cur].height /\ JobTxs(w) = TxsOf[cur]
      BY <1>2, <2>4, JobHeights DEF JobHeight, JobTxs
    <3>2. JobHeight(w) >= 0  BY <3>1 DEF TypeInv, TypeOK, BlockDoc, JobOK
    <3>3. c = d => coins'[c].mintHeight = JobHeight(w)
      <4>1. c = d => coins'[c] = [coins[c] EXCEPT !.mintHeight = JobHeight(w)]
        BY <2>2, <3>2 DEF MintedCoin
      <4>2. coins[c] \in CoinDoc  BY <1>1
      <4> QED BY <4>1, <4>2 DEF CoinDoc
    <3> QED BY <2>1, <2>2, <2>4, <3>1, <3>3
  <2> QED BY <2>3, <2>4
<1>3. CASE InvalidateOutputs(w)
  BY <1>1, <1>3 DEF InvalidateOutputs, CoinDoc
<1>4. CASE ReleaseInputs(w)
  BY <1>1, <1>4 DEF ReleaseInputs, CoinDoc
<1>5. ASSUME NEW op, SpendCoin(w, op[1], op[2])
      PROVE  coins'[c].mintHeight = coins[c].mintHeight
  BY <1>1, <1>5 DEF SpendCoin, CoinDoc
<1> QED
  BY <1>2, <1>3, <1>4, <1>5 DEF ImportStep, NextPhase, PruneQuery, InvalidateTx, StoreTx, db

\* How a step changes it.
LEMMA MintChanges ==
    ASSUME TypeInv, [Next]_vars, NEW c \in Coin, CoinStored(c)
    PROVE  \/ coins'[c].mintHeight = coins[c].mintHeight
           \/ coins'[c].mintHeight = CONFLICTING /\ \E w \in Worker : job[w].updates # {}
           \/ /\ pc = "import" /\ Minter[c] \in TxsOf[cur]
              /\ coins'[c].mintHeight = blocks[cur].height
           \/ pc = "reorg" /\ coins[c].mintHeight >= floor
<1>1. CASE DeleteCoins
  BY <1>1 DEF DeleteCoins
<1>2. CASE UnspendCoins
  BY <1>2 DEF UnspendCoins, TypeInv, TypeOK, CoinDoc
<1> QED BY <1>1, <1>2, ImportMints, CoinWrites

\* The same of the height of a transaction that is stored.
LEMMA RecordChanges ==
    ASSUME TypeInv, [Next]_vars, NEW t \in Tx, txs[t].blockHeight # ABSENT
    PROVE  \/ txs'[t].blockHeight = txs[t].blockHeight
           \/ txs'[t].blockHeight = CONFLICTING /\ \E w \in Worker : job[w].updates # {}
           \/ /\ pc = "import" /\ t \in TxsOf[cur]
              /\ txs'[t].blockHeight = blocks[cur].height
           \/ pc = "reorg" /\ txs[t].blockHeight >= floor
<1>1. txs \in [Tx -> TxDoc]  BY DEF TypeInv, TypeOK
<1>2. ASSUME NEW w \in Worker, NEW u \in job[w].todo, job[w].phase = "tx", StoreTx(w, u)
      PROVE  \/ txs'[t].blockHeight = txs[t].blockHeight
             \/ /\ pc = "import" /\ t \in TxsOf[cur]
                /\ txs'[t].blockHeight = blocks[cur].height
  <2>1. u \in Tx /\ u \in JobTxs(w)
    BY <1>2, WorkTypes DEF TypeInv, JobOK, PhaseWork
  <2>2. txs'[u] = StoredTx(u, JobHeight(w)) /\ \A v \in Tx \ {u} : txs'[v] = txs[v]
    BY <1>1, <1>2, <2>1 DEF StoreTx
  <2>3. CASE w # Sync
    <3>1. JobHeight(w) = PENDING  BY <1>2, <2>3, JobHeights
    <3>2. t = u => txs'[t] = txs[t]  BY <2>2, <3>1 DEF StoredTx, PENDING
    <3> QED BY <2>2, <3>2
  <2>4. CASE w = Sync
    <3>1. pc = "import" /\ JobHeight(w) = blocks[cur].height /\ JobTxs(w) = TxsOf[cur]
      BY <1>2, <2>4, JobHeights DEF JobHeight, JobTxs
    <3>2. JobHeight(w) >= 0  BY <3>1 DEF TypeInv, TypeOK, BlockDoc, JobOK
    <3>3. t = u => txs'[t].blockHeight = JobHeight(w)
      <4>1. t = u => txs'[t] = [txs[t] EXCEPT !.blockHeight = JobHeight(w)]
        BY <2>2, <3>2 DEF StoredTx
      <4>2. txs[t] \in TxDoc  BY <1>1
      <4> QED BY <4>1, <4>2 DEF TxDoc
    <3> QED BY <2>1, <2>2, <2>4, <3>1, <3>3
  <2> QED BY <2>3, <2>4
<1>3. ASSUME NEW w \in Worker, InvalidateTx(w)
      PROVE  \/ txs'[t].blockHeight = txs[t].blockHeight
             \/ txs'[t].blockHeight = CONFLICTING /\ job[w].updates # {}
  BY <1>1, <1>3 DEF InvalidateTx, TxDoc
<1>4. ASSUME NEW w \in Worker, ImportStep(w)
      PROVE  \/ InvalidateTx(w) \/ UNCHANGED txs
             \/ job[w].phase = "tx" /\ \E u \in job[w].todo : StoreTx(w, u)
  BY <1>4 DEF ImportStep, NextPhase, MintCoin, PruneQuery, InvalidateOutputs, ReleaseInputs,
     SpendCoin, db
<1>5. CASE \E w \in Worker : ImportStep(w)  BY <1>2, <1>3, <1>4, <1>5
<1>6. CASE UNCHANGED txs  BY <1>6
<1>7. CASE DeleteTxs  BY <1>7 DEF DeleteTxs
<1> QED
  BY <1>5, <1>6, <1>7 DEF Next, SyncStep, Worker, Announce, StartSync, AskHeaders, HandleGenesis,
     GetHeaders, WriteSyncedFlag, EndRound, NextBlock, DeleteBlocks, DeleteCoins, UnspendCoins,
     InsertBlock, LinkPrevious, MarkProcessed, ReceiveTx, NetworkAdvance, RejectBlock, Crash, db,
     vars

\* A spend a block made changes only in a reorg.
LEMMA SpendChanges ==
    ASSUME TypeInv, AbsentUnspent, [Next]_vars, NEW c \in Coin, coins[c].spentHeight >= 0
    PROVE  \/ /\ coins'[c].spentHeight = coins[c].spentHeight
              /\ coins'[c].spentTxid = coins[c].spentTxid
           \/ /\ pc = "reorg"
              /\ coins[c].mintHeight >= floor \/ coins[c].spentHeight >= floor
<1>1. ASSUME NEW w \in Worker, ImportStep(w)
      PROVE  /\ coins'[c].spentHeight = coins[c].spentHeight
             /\ coins'[c].spentTxid = coins[c].spentTxid
  <2>1. ~(coins[c].spentHeight < 0)
    BY DEF TypeInv, TypeOK, CoinDoc, PENDING, UNSPENT
  <2> QED BY <1>1, <2>1, ImportCoins
<1>2. CASE DeleteCoins  BY <1>2 DEF DeleteCoins
<1>3. CASE UnspendCoins  BY <1>3 DEF UnspendCoins
<1> QED BY <1>1, <1>2, <1>3, CoinWrites

\* A cut spares b, and the block being imported has no transaction of it.
Spared(b) ==
    /\ pc = "reorg" => Height[b] < floor
    /\ pc = "import" /\ TxsOf[b] \cap TxsOf[cur] # {} => cur = b

\* The mint heights written by a block that is spared stay.
LEMMA MintedStays ==
    ASSUME TypeInv, BranchInv, NoneInvalid, [Next]_vars,
           NEW b \in Block, Spared(b), NEW c \in Coin, Minter[c] \in TxsOf[b], Minted(b, c)
    PROVE  Minted(b, c)'
<1>1. floor \in Nat /\ Height[b] \in Nat  BY HeightType DEF TypeInv, TypeOK
<1>2. CoinStored(c)
  BY <1>1 DEF Minted, CoinStored, ABSENT, CONFLICTING
<1>3. pc = "reorg" => ~(coins[c].mintHeight >= floor)
  BY <1>1 DEF Minted, Spared, CONFLICTING
<1>4. (\E w \in Worker : job[w].updates # {}) => ~NoRivals  BY DEF NoneInvalid
<1>5. pc = "import" /\ Minter[c] \in TxsOf[cur] => blocks[cur].height = Height[b]
  BY ImportedBlock DEF Spared
<1>6. NoRivals' = NoRivals  BY DEF NoRivals
<1> QED BY <1>2, <1>3, <1>4, <1>5, <1>6, MintChanges DEF Minted

\* So do the heights of its transactions.
LEMMA RecordedStays ==
    ASSUME TypeInv, BranchInv, NoneInvalid, [Next]_vars,
           NEW b \in Block, Spared(b), NEW t \in TxsOf[b], Recorded(b, t)
    PROVE  Recorded(b, t)'
<1>1. floor \in Nat /\ Height[b] \in Nat /\ t \in Tx
  BY HeightType, TxTypes DEF TypeInv, TypeOK
<1>2. txs[t].blockHeight # ABSENT
  BY <1>1 DEF Recorded, ABSENT, CONFLICTING
<1>3. pc = "reorg" => ~(txs[t].blockHeight >= floor)
  BY <1>1 DEF Recorded, Spared, CONFLICTING
<1>4. (\E w \in Worker : job[w].updates # {}) => ~NoRivals  BY DEF NoneInvalid
<1>5. pc = "import" /\ t \in TxsOf[cur] => blocks[cur].height = Height[b]
  BY ImportedBlock DEF Spared
<1>6. NoRivals' = NoRivals  BY DEF NoRivals
<1> QED BY <1>1, <1>2, <1>3, <1>4, <1>5, <1>6, RecordChanges DEF Recorded

\* And its spends, if the cut spares the coins too.
LEMMA SpentByStays ==
    ASSUME TypeInv, AbsentUnspent, [Next]_vars,
           NEW b \in Block, Spared(b), NEW t, NEW c \in Coin, SpentBy(b, t, c),
           pc = "reorg" => coins[c].mintHeight < floor
    PROVE  SpentBy(b, t, c)'
<1>1. floor \in Nat /\ Height[b] \in Nat  BY HeightType DEF TypeInv, TypeOK
<1>2. coins[c].mintHeight \in Int
  BY DEF TypeInv, TypeOK, CoinDoc, HeightField, PENDING, CONFLICTING, ABSENT
<1>3. coins[c].spentHeight >= 0  BY <1>1 DEF SpentBy
<1>4. pc = "reorg" => ~(coins[c].mintHeight >= floor) /\ ~(coins[c].spentHeight >= floor)
  BY <1>1, <1>2 DEF SpentBy, Spared
<1> QED BY <1>3, <1>4, SpendChanges DEF SpentBy

-----------------------------------------------------------------------------
(* The processed blocks are written completely. *)

\* As long as the index is whole, no crash comes in the middle of a reorg.
LEMMA WholeGrows ==
    ASSUME TypeInv, Onward, [Next]_vars, Whole'
    PROVE  /\ Whole /\ lates = 0 /\ lates' = 0
           /\ Crash \/ RejectBlock => pc # "reorg"
<1>1. lates' = 0 /\ lates = 0  BY LatesGrow DEF Whole
<1>2. CASE crashes' = 0  BY <1>1, <1>2, CrashesGrow DEF Whole
<1>3. CASE Linear  BY <1>1, <1>3 DEF Whole, Onward
<1> QED BY <1>1, <1>2, <1>3 DEF Whole, Linear

\* A block that is processed and above no cut after a step was so before, or
\* is the one that was imported.
LEMMA NewProcessed ==
    ASSUME TypeInv, BranchInv, CutDone, [Next]_vars, Crash \/ RejectBlock => pc # "reorg",
           NEW b \in Processed', Settled(Height[b])'
    PROVE  /\ b \in Block
           /\ \/ MarkProcessed /\ b = cur
              \/ b \in Processed /\ (pc = "reorg" => Height[b] < floor)
<1>1. b \in Block  BY DEF Processed
<1>2. b \in Processed \/ (MarkProcessed /\ b = cur)
  <2>1. CASE DeleteBlocks
    BY <2>1 DEF DeleteBlocks, Processed, NoBlockDoc
  <2>2. CASE InsertBlock
    BY <2>2 DEF InsertBlock, Processed, TypeInv, TypeOK
  <2>3. CASE LinkPrevious
    BY <2>3, LinkBranch
  <2>4. CASE MarkProcessed
    BY <2>4 DEF MarkProcessed, Processed, TypeInv, TypeOK
  <2>5. CASE UNCHANGED blocks  BY <2>5, BlocksFrame
  <2> QED BY <2>1, <2>2, <2>3, <2>4, <2>5, BlockWrites
<1>3. ASSUME b \in Processed, pc = "reorg" PROVE Height[b] < floor
  <2>1. CASE UnspendCoins
    <3>1. BlockStored(b) /\ blocks[b].height = Height[b]
      BY <1>1, <1>3 DEF Processed, BlockStored, BranchInv, HeightsOK
    <3> QED BY <1>1, <2>1, <3>1 DEF UnspendCoins, CutDone
  <2>2. CASE ~UnspendCoins
    <3>1. pc' = "reorg" /\ floor' = floor  BY <1>3, <2>2, ReorgStays
    <3> QED BY <3>1 DEF Settled
  <2> QED BY <2>1, <2>2
<1> QED BY <1>1, <1>2, <1>3

\* The branch of a processed block is processed.
LEMMA BranchProcessed ==
    ASSUME BranchInv, NEW b \in Processed, NEW a \in Chain[b]
    PROVE  a \in Processed /\ a \in Block /\ b \in Block /\ Height[a] <= Height[b]
<1>1. b \in Block  BY DEF Processed
<1>2. PICK t \in Block : Processed = Chain[t]  BY DEF BranchInv, IsBranch
<1>3. Chain[b] \subseteq Chain[t]  BY <1>2, BlockTree
<1> QED BY <1>1, <1>2, <1>3, ChainOrder

\* The block being imported is the end of the branch it extends.
LEMMA ImportOnBranch ==
    ASSUME TypeInv, BranchInv, pc = "import"
    PROVE  /\ Processed \subseteq Chain[cur] /\ cur \notin Processed
           /\ Chain[cur] = Processed \cup {cur}
<1>1. cur \in Block /\ AtCursor /\ (cur = Genesis => Processed = {})
  BY DEF TypeInv, JobOK, BranchInv, CursorOK
<1>2. CASE cur = Genesis  BY <1>1, <1>2, BlockTree
<1>3. CASE cur # Genesis  BY <1>1, <1>3, ParentChain DEF AtCursor
<1> QED BY <1>2, <1>3

\* So what it writes is no other block's, and a cut spares the others.
LEMMA ProcessedSpared ==
    ASSUME TypeInv, BranchInv, NEW b \in Processed, pc = "reorg" => Height[b] < floor
    PROVE  Spared(b)
<1> SUFFICES ASSUME pc = "import", TxsOf[b] \cap TxsOf[cur] # {} PROVE b = cur
  BY DEF Spared
<1>1. cur \in Block /\ b \in Chain[cur] /\ cur \in Chain[cur]
  BY ImportedBlock, ImportOnBranch, ChainMember
<1> QED BY <1>1, ValidBranches

\* The coins a processed block spends are minted by its branch.
LEMMA InputsMinted ==
    ASSUME TypeInv, BranchInv, BlocksWritten, NEW b \in Processed, Settled(Height[b]),
           NEW t \in TxsOf[b], NEW c \in Inputs[t]
    PROVE  \E a \in Chain[b] : Minted(a, c) /\ Height[a] \in Nat /\ Height[a] <= Height[b]
<1>1. b \in Block /\ b \in Chain[b] /\ t \in Tx /\ c \in Coin
  BY ChainMember, TxTypes DEF Processed
<1>2. PICK a \in Chain[b] : Minter[c] \in TxsOf[a]  BY <1>1, ValidBranches
<1>3. a \in Processed /\ Height[a] <= Height[b] /\ Height[a] \in Nat /\ Height[b] \in Nat
  BY <1>2, BranchProcessed, HeightType
<1>4. Settled(Height[a])  BY <1>3 DEF Settled, TypeInv, TypeOK
<1>5. Minted(a, c)  BY <1>1, <1>2, <1>3, <1>4 DEF BlocksWritten, Written, OutputsOf
<1> QED BY <1>3, <1>5

\* Every step keeps what the processed blocks have written complete.
LEMMA BlocksWrittenStep ==
    ASSUME TypeInv, BranchInv, CutDone, AbsentUnspent, NoneInvalid, BlocksWritten, ImportSoFar,
           [Next]_vars, Crash \/ RejectBlock => pc # "reorg"
    PROVE  BlocksWritten'
<1> SUFFICES ASSUME NEW b \in Processed', Settled(Height[b])', NEW t \in TxsOf[b]
             PROVE  Written(b, t)'
  BY DEF BlocksWritten
<1>1. b \in Block  BY NewProcessed
<1>2. t \in Tx /\ Inputs[t] \subseteq Coin  BY <1>1, TxTypes
<1>3. CASE MarkProcessed /\ b = cur
  <2>1. job[Sync].phase = "done" /\ pc = "import" /\ UNCHANGED <<coins, txs>>
    BY <1>3 DEF MarkProcessed
  <2>2. \A c : ~ToMint(c) /\ ~ToSpend(t, c)  BY <2>1 DEF ToMint, ToSpend
  <2>3. ~ToRecord(t)  BY <2>1 DEF ToRecord
  <2>4. Written(b, t)  BY <1>3, <2>1, <2>2, <2>3 DEF ImportSoFar, Written
  <2>5. NoRivals' = NoRivals  BY DEF NoRivals
  <2> QED BY <2>1, <2>4, <2>5 DEF Written, Minted, SpentBy, Recorded
<1>4. CASE b \in Processed /\ (pc = "reorg" => Height[b] < floor)
  <2>1. Spared(b) /\ Settled(Height[b])  BY <1>4, ProcessedSpared DEF Settled
  <2>2. Written(b, t)  BY <1>4, <2>1 DEF BlocksWritten
  <2>3. ASSUME NEW c \in OutputsOf({t}) PROVE Minted(b, c)'
    <3>1. c \in Coin /\ Minter[c] \in TxsOf[b]  BY DEF OutputsOf
    <3> QED BY <1>1, <2>1, <2>2, <3>1, MintedStays DEF Written
  <2>4. ASSUME NEW c \in Inputs[t] PROVE SpentBy(b, t, c)'
    <3>1. PICK a \in Chain[b] : Minted(a, c) /\ Height[a] \in Nat /\ Height[a] <= Height[b]
      BY <1>4, <2>1, InputsMinted
    <3>2. floor \in Nat /\ Height[b] \in Nat  BY <1>1, HeightType DEF TypeInv, TypeOK
    <3>3. pc = "reorg" => coins[c].mintHeight < floor
      BY <1>4, <3>1, <3>2 DEF Minted, CONFLICTING
    <3> QED BY <1>1, <1>2, <2>1, <2>2, <3>3, SpentByStays DEF Written
  <2>5. Recorded(b, t)'  BY <1>1, <2>1, <2>2, RecordedStays DEF Written
  <2> QED BY <2>3, <2>4, <2>5 DEF Written
<1> QED BY <1>3, <1>4, NewProcessed

\* A coin the import is about to spend is stored.
LEMMA ToSpendStored ==
    ASSUME TypeInv, BranchInv, BlocksWritten, ImportSoFar, pc = "import",
           job[Sync].phase = "spend", NEW t \in TxsOf[cur], NEW c \in Inputs[t]
    PROVE  CoinStored(c)
<1>1. cur \in Block /\ cur \in Chain[cur] /\ t \in Tx /\ c \in Coin
  BY ImportedBlock, ChainMember, TxTypes
<1>2. PICK a \in Chain[cur] : Minter[c] \in TxsOf[a]  BY <1>1, ValidBranches
<1>3. Height[a] \in Nat  BY <1>1, <1>2, ChainOrder, HeightType
<1>4. c \in OutputsOf({Minter[c]})  BY <1>1 DEF OutputsOf
<1>5. CASE a = cur
  <2>1. ~ToMint(c)  BY DEF ToMint
  <2>2. Minted(a, c)  BY <1>2, <1>4, <1>5, <2>1 DEF ImportSoFar
  <2> QED BY <1>3, <2>2 DEF Minted, CoinStored, ABSENT, CONFLICTING
<1>6. CASE a # cur
  <2>1. a \in Processed  BY <1>2, <1>6, ImportOnBranch
  <2>2. Settled(Height[a])  BY DEF Settled
  <2>3. Minted(a, c)  BY <1>2, <1>4, <2>1, <2>2 DEF BlocksWritten, Written
  <2> QED BY <1>3, <2>3 DEF Minted, CoinStored, ABSENT, CONFLICTING
<1> QED BY <1>5, <1>6

\* A spend the import finds made by a block is its own: blocks of the branch
\* do not spend a coin twice, and no other block is stored.
LEMMA FoundSpent ==
    ASSUME TypeInv, BranchInv, OnlyCur, Whole, SpendsSound, pc = "import",
           NEW t \in TxsOf[cur], NEW c \in Inputs[t], ~(coins[c].spentHeight < 0)
    PROVE  SpentBy(cur, t, c)
<1>1. cur \in Block /\ cur \in Chain[cur] /\ t \in Tx /\ c \in Coin
  BY ImportedBlock, ChainMember, TxTypes
<1> DEFINE u == coins[c].spentTxid
           h == coins[c].spentHeight
<1>2. h >= 0 /\ h \in Nat
  BY <1>1 DEF TypeInv, TypeOK, CoinDoc, PENDING, UNSPENT
<1>3. u \in Tx /\ c \in Inputs[u] /\ StoredAt(u, h)
  BY <1>1, <1>2 DEF SpendsSound, Settled
<1>4. PICK b \in Block : BlockStored(b) /\ blocks[b].height = h /\ u \in TxsOf[b]
  BY <1>3 DEF StoredAt
<1>5. \E d \in Block : b \in Chain[d] /\ cur \in Chain[d]
  <2>1. CASE crashes = 0
    <3>1. b \in Processed \/ b = cur  BY <1>4, <2>1 DEF OnlyCur
    <3> QED BY <1>1, <3>1, ImportOnBranch
  <2>2. CASE Linear
    BY <1>1, <1>4, <2>2, ChainMember DEF Linear
  <2> QED BY <2>1, <2>2 DEF Whole
<1>6. PICK d \in Block : b \in Chain[d] /\ cur \in Chain[d]  BY <1>5
<1>7. t = u
  <2>1. {t, u} \subseteq UNION {TxsOf[a] : a \in Chain[d]}  BY <1>4, <1>6
  <2>2. Inputs[t] \cap Inputs[u] # {}  BY <1>3
  <2> QED BY <2>1, <2>2, ValidBranches
<1>8. b = cur
  <2>1. TxsOf[b] \cap TxsOf[cur] # {}  BY <1>4, <1>7
  <2> QED BY <1>6, <2>1, ValidBranches
<1>9. h = Height[cur]  BY <1>4, <1>8, ImportedBlock
<1> QED BY <1>7, <1>9 DEF SpentBy

\* The importer's record changes by its own steps only, between the link of a
\* block and the end of its import.
LEMMA SyncJob ==
    ASSUME TypeInv, [Next]_vars, pc = "import", pc' = "import"
    PROVE  ImportStep(Sync) \/ job'[Sync] = job[Sync]
<1>1. job \in [Worker -> JobDoc] /\ Sync \in Worker  BY DEF TypeInv, TypeOK, Worker
<1>2. ASSUME NEW t \in Mempool, ImportStep(t) PROVE job'[Sync] = job[Sync]
  BY <1>1, <1>2, JobSteps, IndexAssumption DEF Worker
<1>3. ASSUME NEW t \in Mempool, ReceiveTx(t) PROVE job'[Sync] = job[Sync]
  BY <1>1, <1>3, IndexAssumption DEF ReceiveTx
<1> QED
  BY <1>2, <1>3 DEF Next, SyncStep, Announce, StartSync, AskHeaders, HandleGenesis,
     GetHeaders,
     WriteSyncedFlag, EndRound, NextBlock, DeleteBlocks, DeleteTxs, DeleteCoins, UnspendCoins,
     InsertBlock, LinkPrevious, MarkProcessed, NetworkAdvance, RejectBlock, Crash, node, vars

\* How the importer's record changes by one.
LEMMA SyncJobStep ==
    ASSUME TypeInv, ImportStep(Sync)
    PROVE  \/ /\ NextPhase(Sync)
              /\ job[Sync].phase \in {"mint", "prune", "spend", "tx"} /\ job[Sync].todo = {}
              /\ job'[Sync].phase = After(job[Sync].phase)
              /\ job'[Sync].todo = Work(Sync, After(job[Sync].phase))
           \/ job[Sync].phase = "prune" /\ job'[Sync].phase = "prune"
           \/ \E x \in job[Sync].todo :
                 /\ job'[Sync].phase = job[Sync].phase
                 /\ job'[Sync].todo = job[Sync].todo \ {x}
                 /\ job[Sync].phase \in {"mint", "spend", "tx"}
                 /\ job[Sync].phase = "mint" => MintCoin(Sync, x)
                 /\ job[Sync].phase = "spend" => SpendCoin(Sync, x[1], x[2])
                 /\ job[Sync].phase = "tx" => StoreTx(Sync, x)
<1>1. job \in [Worker -> JobDoc] /\ Sync \in Worker  BY DEF TypeInv, TypeOK, Worker
<1>2. CASE NextPhase(Sync)
  BY <1>1, <1>2 DEF NextPhase, NoJob
<1>3. ASSUME NEW x, job' = Done(Sync, x)
      PROVE  job'[Sync].phase = job[Sync].phase /\ job'[Sync].todo = job[Sync].todo \ {x}
  BY <1>1, <1>3 DEF Done, JobDoc
<1> QED BY <1>1, <1>2, <1>3, JobSteps

\* The mints of the import: one is written, or is still to write.
LEMMA ToMintStep ==
    ASSUME TypeInv, BranchInv, NoneInvalid, [Next]_vars, pc = "import", pc' = "import", cur' = cur,
           NEW c \in Coin, Minter[c] \in TxsOf[cur], Minted(cur, c) \/ ToMint(c)
    PROVE  (Minted(cur, c) \/ ToMint(c))'
<1>1. cur \in Block /\ blocks[cur].height = Height[cur]  BY ImportedBlock
<1>2. CASE Minted(cur, c)
  <2> DEFINE b == cur
  <2>1. Spared(b)  BY DEF Spared
  <2>2. b \in Block /\ Minted(b, c) /\ Minter[c] \in TxsOf[b]  BY <1>1, <1>2
  <2> HIDE DEF b
  <2>3. ASSUME NEW d \in Block, Spared(d), Minter[c] \in TxsOf[d], Minted(d, c)
        PROVE  Minted(d, c)'
    BY <2>3, MintedStays
  <2>4. coins'[c].mintHeight = Height[b] \/ (~NoRivals /\ coins'[c].mintHeight = CONFLICTING)
    BY <2>1, <2>2, <2>3 DEF Minted, NoRivals
  <2> QED BY <2>4 DEF Minted, NoRivals, b
<1>3. CASE ToMint(c)
  <2>1. job[Sync].phase = "mint" /\ c \in job[Sync].todo  BY <1>3 DEF ToMint
  <2>2. CASE job'[Sync] = job[Sync]  BY <2>1, <2>2 DEF ToMint
  <2>3. CASE ImportStep(Sync)
    <3>1. PICK x \in job[Sync].todo :
             /\ job'[Sync].phase = "mint" /\ job'[Sync].todo = job[Sync].todo \ {x}
             /\ MintCoin(Sync, x)
      BY <2>1, <2>3, SyncJobStep
    <3>2. CASE x # c  BY <2>1, <3>1, <3>2 DEF ToMint
    <3>3. CASE x = c
      <4>1. coins'[c] = MintedCoin(c, Height[cur])
        BY <1>1, <3>1, <3>3 DEF MintCoin, JobHeight, TypeInv, TypeOK
      <4>2. coins[c] \in CoinDoc /\ Height[cur] >= 0 /\ Height[cur] \in Nat
        BY <1>1, HeightType DEF TypeInv, TypeOK
      <4>3. coins'[c].mintHeight = Height[cur]
        BY <4>1, <4>2 DEF MintedCoin, CoinDoc
      <4> QED BY <4>3 DEF Minted
    <3> QED BY <3>2, <3>3
  <2> QED BY <2>2, <2>3, SyncJob
<1> QED BY <1>2, <1>3

\* The same of its spends.
LEMMA ToSpendStep ==
    ASSUME TypeInv, BranchInv, AbsentUnspent, OnlyCur, Whole, SpendsSound, BlocksWritten,
           ImportSoFar, [Next]_vars, pc = "import", pc' = "import", cur' = cur,
           NEW t \in TxsOf[cur], NEW c \in Inputs[t], SpentBy(cur, t, c) \/ ToSpend(t, c)
    PROVE  (SpentBy(cur, t, c) \/ ToSpend(t, c))'
<1>1. cur \in Block /\ blocks[cur].height = Height[cur] /\ t \in Tx /\ c \in Coin
  BY ImportedBlock, TxTypes
<1>2. ASSUME SpentBy(cur, t, c) PROVE (SpentBy(cur, t, c))'
  <2>1. coins[c].spentHeight >= 0  BY <1>1, <1>2, HeightType DEF SpentBy
  <2>2. /\ coins'[c].spentHeight = coins[c].spentHeight
        /\ coins'[c].spentTxid = coins[c].spentTxid
    BY <1>1, <2>1, SpendChanges
  <2> QED BY <1>2, <2>2 DEF SpentBy
<1>3. CASE ToSpend(t, c)
  <2>1. CASE job'[Sync] = job[Sync]  BY <1>3, <2>1 DEF ToSpend
  <2>2. <<t, c>> \in SpendOps(Sync)
    <3>1. t \in Spenders(Sync)  BY DEF Spenders, JobTxs, IsCoinbase
    <3> QED BY <3>1 DEF SpendOps
  <2>3. CASE ImportStep(Sync) /\ job[Sync].phase = "mint"
    <3>1. job'[Sync].phase \in {"mint", "prune"}  BY <2>3, SyncJobStep DEF After
    <3> QED BY <3>1 DEF ToSpend
  <2>4. CASE ImportStep(Sync) /\ job[Sync].phase = "prune"
    <3>1. CASE job'[Sync].phase = "prune"  BY <3>1 DEF ToSpend
    <3>2. CASE job'[Sync].phase # "prune"
      <4>1. job'[Sync].phase = "spend" /\ job'[Sync].todo = SpendOps(Sync)
        BY <2>4, <3>2, SyncJobStep DEF After, Work
      <4> QED BY <4>1, <2>2 DEF ToSpend
    <3> QED BY <3>1, <3>2
  <2>5. CASE ImportStep(Sync) /\ job[Sync].phase = "spend"
    <3>1. <<t, c>> \in job[Sync].todo  BY <1>3, <2>5 DEF ToSpend
    <3>2. PICK x \in job[Sync].todo :
             /\ job'[Sync].phase = "spend" /\ job'[Sync].todo = job[Sync].todo \ {x}
             /\ SpendCoin(Sync, x[1], x[2])
      BY <2>5, <3>1, SyncJobStep
    <3>3. CASE x # <<t, c>>  BY <3>1, <3>2, <3>3 DEF ToSpend
    <3>4. CASE x = <<t, c>>
      <4>1. SpendCoin(Sync, t, c)  BY <3>2, <3>4
      <4>2. CASE Spendable(c)
        <5>1. coins' = [coins EXCEPT ![c].spentTxid = t, ![c].spentHeight = Height[cur]]
          BY <1>1, <4>1, <4>2 DEF SpendCoin, JobHeight
        <5>2. coins \in [Coin -> CoinDoc]  BY DEF TypeInv, TypeOK
        <5>3. coins'[c].spentTxid = t /\ coins'[c].spentHeight = Height[cur]
          BY <1>1, <5>1, <5>2 DEF CoinDoc
        <5> QED BY <5>3 DEF SpentBy
      <4>3. CASE ~Spendable(c)
        <5>1. ~(coins[c].spentHeight < 0)
          BY <2>5, <4>3, ToSpendStored DEF Spendable
        <5> QED BY <1>2, <5>1, FoundSpent
      <4> QED BY <4>2, <4>3
    <3> QED BY <3>3, <3>4
  <2> QED BY <1>3, <2>1, <2>3, <2>4, <2>5, SyncJob DEF ToSpend
<1> QED BY <1>2, <1>3

\* And of the heights of its transactions.
LEMMA ToRecordStep ==
    ASSUME TypeInv, BranchInv, NoneInvalid, [Next]_vars, pc = "import", pc' = "import", cur' = cur,
           NEW t \in TxsOf[cur], Recorded(cur, t) \/ ToRecord(t)
    PROVE  (Recorded(cur, t) \/ ToRecord(t))'
<1>1. cur \in Block /\ blocks[cur].height = Height[cur] /\ t \in Tx
  BY ImportedBlock, TxTypes
<1>2. CASE Recorded(cur, t)
  <2> DEFINE b == cur
  <2>1. Spared(b)  BY DEF Spared
  <2>2. b \in Block /\ Recorded(b, t) /\ t \in TxsOf[b]  BY <1>1, <1>2
  <2> HIDE DEF b
  <2>3. ASSUME NEW d \in Block, Spared(d), t \in TxsOf[d], Recorded(d, t)
        PROVE  Recorded(d, t)'
    BY <2>3, RecordedStays
  <2>4. txs'[t].blockHeight = Height[b] \/ (~NoRivals /\ txs'[t].blockHeight = CONFLICTING)
    BY <2>1, <2>2, <2>3 DEF Recorded, NoRivals
  <2> QED BY <2>4 DEF Recorded, NoRivals, b
<1>3. CASE ToRecord(t)
  <2>1. CASE job'[Sync] = job[Sync]  BY <1>3, <2>1 DEF ToRecord
  <2>2. CASE ImportStep(Sync) /\ job[Sync].phase \in {"mint", "prune"}
    <3>1. job'[Sync].phase \in {"mint", "prune", "spend"}  BY <2>2, SyncJobStep DEF After
    <3> QED BY <3>1 DEF ToRecord
  <2>3. CASE ImportStep(Sync) /\ job[Sync].phase = "spend"
    <3>1. CASE job'[Sync].phase = "spend"  BY <3>1 DEF ToRecord
    <3>2. CASE job'[Sync].phase # "spend"
      <4>1. job'[Sync].phase = "tx" /\ job'[Sync].todo = TxsOf[cur]
        BY <2>3, <3>2, SyncJobStep DEF After, Work, JobTxs
      <4> QED BY <4>1 DEF ToRecord
    <3> QED BY <3>1, <3>2
  <2>4. CASE ImportStep(Sync) /\ job[Sync].phase = "tx"
    <3>1. t \in job[Sync].todo  BY <1>3, <2>4 DEF ToRecord
    <3>2. PICK x \in job[Sync].todo :
             /\ job'[Sync].phase = "tx" /\ job'[Sync].todo = job[Sync].todo \ {x}
             /\ StoreTx(Sync, x)
      BY <2>4, <3>1, SyncJobStep
    <3>3. CASE x # t  BY <3>1, <3>2, <3>3 DEF ToRecord
    <3>4. CASE x = t
      <4>1. txs'[t] = StoredTx(t, Height[cur])
        BY <1>1, <3>2, <3>4 DEF StoreTx, JobHeight, TypeInv, TypeOK
      <4>2. txs[t] \in TxDoc /\ Height[cur] >= 0 /\ Height[cur] \in Nat
        BY <1>1, HeightType DEF TypeInv, TypeOK
      <4>3. txs'[t].blockHeight = Height[cur]
        BY <4>1, <4>2 DEF StoredTx, TxDoc
      <4> QED BY <4>3 DEF Recorded
    <3> QED BY <3>3, <3>4
  <2> QED BY <1>3, <2>1, <2>2, <2>3, <2>4, SyncJob DEF ToRecord
<1> QED BY <1>2, <1>3

\* A block starts with all its writes to do, and every step does one or keeps it.
LEMMA ImportSoFarStep ==
    ASSUME TypeInv, BranchInv, AbsentUnspent, NoneInvalid, OnlyCur, Whole, SpendsSound,
           BlocksWritten, ImportSoFar, [Next]_vars
    PROVE  ImportSoFar'
<1> SUFFICES ASSUME pc' = "import", NEW t \in TxsOf[cur']
             PROVE  /\ \A c \in OutputsOf({t}) : (Minted(cur, c) \/ ToMint(c))'
                    /\ \A c \in Inputs[t] : (SpentBy(cur, t, c) \/ ToSpend(t, c))'
                    /\ (Recorded(cur, t) \/ ToRecord(t))'
  BY DEF ImportSoFar
<1>1. CASE LinkPrevious
  <2>1. cur' = cur /\ cur \in Block /\ t \in TxsOf[cur]
    BY <1>1 DEF LinkPrevious, TypeInv, JobOK
  <2>2. job'[Sync].phase = "mint" /\ job'[Sync].todo = OutputsOf(TxsOf[cur])
    BY <1>1 DEF LinkPrevious, TypeInv, TypeOK, Worker, NoJob
  <2>3. OutputsOf({t}) \subseteq OutputsOf(TxsOf[cur])  BY <2>1 DEF OutputsOf
  <2> QED BY <2>2, <2>3 DEF ToMint, ToSpend, ToRecord
<1>2. CASE pc = "import" /\ cur' = cur
  <2>1. t \in TxsOf[cur]  BY <1>2
  <2>2. ASSUME NEW c \in OutputsOf({t}) PROVE (Minted(cur, c) \/ ToMint(c))'
    <3>1. c \in Coin /\ Minter[c] \in TxsOf[cur]  BY <2>1 DEF OutputsOf
    <3>2. Minted(cur, c) \/ ToMint(c)  BY <1>2, <2>1 DEF ImportSoFar
    <3> QED BY <1>2, <3>1, <3>2, ToMintStep
  <2>3. ASSUME NEW c \in Inputs[t] PROVE (SpentBy(cur, t, c) \/ ToSpend(t, c))'
    <3>1. SpentBy(cur, t, c) \/ ToSpend(t, c)  BY <1>2, <2>1 DEF ImportSoFar
    <3> QED BY <1>2, <2>1, <3>1, ToSpendStep
  <2>4. (Recorded(cur, t) \/ ToRecord(t))'
    <3>1. Recorded(cur, t) \/ ToRecord(t)  BY <1>2, <2>1 DEF ImportSoFar
    <3> QED BY <1>2, <2>1, <3>1, ToRecordStep
  <2> QED BY <2>2, <2>3, <2>4
<1> QED BY <1>1, <1>2, ImportStays

-----------------------------------------------------------------------------
(* The invariant of the index, and what follows from it. *)

\* An empty index satisfies it.
LEMMA InitIndex == Init => IndexInv
<1> SUFFICES ASSUME Init PROVE IndexInv
  OBVIOUS
<1>1. TypeInv /\ BranchInv  BY InitType, InitBranch
<1>2. Processed = {} /\ \A b \in Block : ~BlockStored(b)
  BY DEF Init, Processed, BlockStored, NoBlockDoc
<1>3. pc = "start" /\ headers = {} /\ cur = NoBlock /\ reply = {}  BY DEF Init
<1>4. TreeInv  BY <1>1, <1>2, <1>3 DEF TreeInv, Linked, NextLinks
<1>5. CutDone /\ OnlyCur  BY <1>2, <1>3 DEF CutDone, OnlyCur
<1>6. Onward  BY <1>2, <1>3 DEF Onward
<1>7. AbsentUnspent /\ PendingKnown
  BY DEF Init, AbsentUnspent, PendingKnown, CoinStored, NoCoinDoc, PENDING, UNSPENT
<1>8. NoneInvalid  BY DEF Init, NoneInvalid, NoJob
<1>9. SpendsSound  BY DEF Init, SpendsSound, NoCoinDoc, UNSPENT
<1>10. BlocksWritten /\ ImportSoFar  BY <1>2, <1>3 DEF BlocksWritten, ImportSoFar
<1> QED
  BY <1>1, <1>4, <1>5, <1>6, <1>7, <1>8, <1>9, <1>10 DEF IndexInv, DataInv

\* Every step keeps what is known of the data.
LEMMA DataStep ==
    ASSUME TypeInv, TypeInv', TreeInv, TreeInv', CutDone, OnlyCur, Onward, AbsentUnspent,
           NoneInvalid, DataInv, [Next]_vars
    PROVE  DataInv'
<1> SUFFICES ASSUME Whole' PROVE SpendsSound' /\ BlocksWritten' /\ ImportSoFar'
  BY DEF DataInv
<1>1. Whole /\ lates = 0 /\ lates' = 0 /\ (Crash \/ RejectBlock => pc # "reorg")
  BY WholeGrows
<1>2. BranchInv /\ BranchInv'  BY <1>1 DEF TreeInv
<1>3. SpendsSound /\ BlocksWritten /\ ImportSoFar  BY <1>1 DEF DataInv
<1>4. SpendsSound'  BY <1>1, <1>2, <1>3, SpendsSoundStep DEF IInv
<1>5. BlocksWritten'  BY <1>1, <1>2, <1>3, BlocksWrittenStep
<1>6. ImportSoFar'  BY <1>1, <1>2, <1>3, ImportSoFarStep
<1> QED BY <1>4, <1>5, <1>6

\* Every step keeps the invariant of the index.
LEMMA IndexStep == IndexInv /\ [Next]_vars => IndexInv'
<1> SUFFICES ASSUME IndexInv, [Next]_vars PROVE IndexInv'
  OBVIOUS
<1>1. /\ TypeInv /\ TreeInv /\ CutDone /\ OnlyCur /\ Onward
      /\ AbsentUnspent /\ PendingKnown /\ NoneInvalid /\ DataInv
  BY DEF IndexInv
<1>2. TypeInv'  BY <1>1, TypeStep
<1>3. TreeInv'  BY <1>1, TreeStep
<1>4. CutDone' /\ OnlyCur'  BY <1>1, <1>2, CutStep, OnlyCurStep
<1>5. Onward'  BY <1>1, OnwardStep
<1>6. AbsentUnspent' /\ PendingKnown' /\ NoneInvalid'
  BY <1>1, AbsentStep, PendingKnownStep, NoneInvalidStep
<1>7. DataInv'  BY <1>1, <1>2, <1>3, DataStep
<1> QED BY <1>2, <1>3, <1>4, <1>5, <1>6, <1>7 DEF IndexInv

\* The inductive invariant of the index, whatever the bounds: until a reply
\* comes late, the blocks are a linked branch; until, besides, a crash can have
\* left writes of a branch that is then abandoned, what every processed block
\* writes to the coins and the transactions is there, and what the import under
\* way has not written is what its job still has to do.
THEOREM IndexInvHolds == Spec => []IndexInv
BY InitIndex, IndexStep, PTL DEF Spec

\* Crashes are counted, and to the bound.
LEMMA NoCrashes == ASSUME MaxCrashes = 0 PROVE Spec => [](crashes = 0)
<1> DEFINE I == TypeInv /\ crashes = 0
<1>1. Init => I  BY InitType DEF Init
<1>2. I /\ [Next]_vars => I'
  <2> SUFFICES ASSUME I, [Next]_vars PROVE I'
    OBVIOUS
  <2>1. TypeInv'  BY TypeStep
  <2>2. ASSUME NEW w \in Worker, ImportStep(w) PROVE crashes' = crashes
    BY <2>2 DEF ImportStep, NextPhase, MintCoin, PruneQuery, InvalidateTx, InvalidateOutputs,
       ReleaseInputs, SpendCoin, StoreTx, env
  <2>3. ~Crash /\ ~RejectBlock  BY DEF Crash, RejectBlock
  <2>4. crashes' = crashes
    BY <2>2, <2>3 DEF Next, SyncStep, Worker, Announce, StartSync, AskHeaders, HandleGenesis,
     GetHeaders,
       WriteSyncedFlag, EndRound, NextBlock, DeleteBlocks, DeleteTxs, DeleteCoins, UnspendCoins,
       InsertBlock, LinkPrevious, MarkProcessed, ReceiveTx, NetworkAdvance, env, vars
  <2> QED BY <2>1, <2>4
<1>3. I => crashes = 0  OBVIOUS
<1> HIDE DEF I
<1> QED BY <1>1, <1>2, <1>3, PTL DEF Spec

\* Without late replies, and without crashes or other branches, the index stays
\* whole.
LEMMA StaysWhole ==
    ASSUME MaxLate = 0, MaxCrashes = 0 \/ Linear PROVE Spec => []Whole
<1>1. CASE MaxCrashes = 0
  <2>1. lates = 0 /\ crashes = 0 => Whole  BY DEF Whole
  <2> QED BY <1>1, <2>1, NoLates, NoCrashes, PTL
<1>2. CASE Linear
  <2>1. lates = 0 => Whole  BY <1>2 DEF Whole
  <2> QED BY <2>1, NoLates, PTL
<1> QED BY <1>1, <1>2

\* A processed block is stored at its height.
LEMMA ProcessedHeights ==
    ASSUME TypeInv, BranchInv, NEW b \in Processed
    PROVE  b \in Block /\ blocks[b].height = Height[b]
BY DEF BranchInv, HeightsOK, Processed, BlockStored

\* What the invariant says of the spends of the processed blocks.
LEMMA WrittenSpends ==
    ASSUME IndexInv, Whole PROVE SpendsComplete
<1>1. TypeInv /\ BranchInv /\ BlocksWritten
  BY DEF IndexInv, TreeInv, DataInv, Whole
<1>2. ASSUME NEW b \in Processed, NEW t \in TxsOf[b], NEW c \in Inputs[t],
             Settled(blocks[b].height)
      PROVE  coins[c].spentTxid = t /\ coins[c].spentHeight = blocks[b].height
  <2>1. blocks[b].height = Height[b]  BY <1>1, ProcessedHeights
  <2>2. Written(b, t)  BY <1>1, <1>2, <2>1 DEF BlocksWritten
  <2> QED BY <2>1, <2>2 DEF Written, SpentBy
<1> QED BY <1>2 DEF SpendsComplete

\* And of their mints, when no relayed transaction has a rival.
LEMMA WrittenMints ==
    ASSUME IndexInv, Whole, NoRivals PROVE MintsComplete
<1>1. TypeInv /\ BranchInv /\ BlocksWritten
  BY DEF IndexInv, TreeInv, DataInv, Whole
<1>2. ASSUME NEW b \in Processed, NEW t \in TxsOf[b], Settled(blocks[b].height)
      PROVE  /\ txs[t].blockHeight = blocks[b].height
             /\ \A c \in OutputsOf({t}) : coins[c].mintHeight = blocks[b].height
  <2>1. blocks[b].height = Height[b]  BY <1>1, ProcessedHeights
  <2>2. Written(b, t)  BY <1>1, <1>2, <2>1 DEF BlocksWritten
  <2> QED BY <2>1, <2>2 DEF Written, Minted, Recorded
<1> QED BY <1>2 DEF MintsComplete

\* nextBlockHash always leads up the processed branch, for every tree, however
\* often the process crashes between the insertion of a block, the link to it
\* and the end of its import, and through every reorg: a link left to a block
\* that is abandoned is overwritten before the next one is processed.
THEOREM NextLinksHolds == ASSUME MaxLate = 0 PROVE Spec => []NextLinks
<1>1. IndexInv /\ lates = 0 => NextLinks  BY DEF IndexInv, TreeInv
<1> QED BY <1>1, IndexInvHolds, NoLates, PTL

\* No orphan confirmation, for every tree, every set of relayed transactions
\* and every reorg: while replies come in order, and no crash can leave the
\* spends of a branch that is then abandoned, a coin spent at a height is spent
\* by a transaction of the block stored there.
THEOREM SpendsSoundHolds ==
    ASSUME MaxLate = 0, MaxCrashes = 0 \/ Linear PROVE Spec => []SpendsSound
<1>1. IndexInv /\ Whole => SpendsSound  BY DEF IndexInv, DataInv
<1> QED BY <1>1, IndexInvHolds, StaysWhole, PTL

\* The same of mint heights and of the heights of transactions: what a reorg
\* removes is removed from all three collections before sync() starts over.
THEOREM MintsSoundHolds ==
    ASSUME MaxLate = 0, MaxCrashes = 0 \/ Linear PROVE Spec => []MintsSound
<1> DEFINE I == ReorgDone /\ (Whole => MintsSound)
<1>1. Init => I
  BY DEF Init, MintsSound, ReorgDone, NoCoinDoc, NoTxDoc, ABSENT
<1>2. I /\ IndexInv /\ IndexInv' /\ [Next]_vars => I'
  <2> SUFFICES ASSUME I, IndexInv, IndexInv', [Next]_vars PROVE I'
    OBVIOUS
  <2>1. TypeInv /\ TypeInv' /\ Onward  BY DEF IndexInv
  <2>2. ReorgDone'  BY <2>1, ReorgDoneStep
  <2>3. ASSUME Whole' PROVE MintsSound'
    <3>1. Whole /\ lates = 0 /\ lates' = 0 /\ (Crash \/ RejectBlock => pc # "reorg")
      BY <2>1, <2>3, WholeGrows
    <3>2. IInv /\ IInv'  BY <2>1, <3>1 DEF IndexInv, TreeInv, IInv
    <3> QED BY <3>1, <3>2, MintsSoundStep
  <2> QED BY <2>2, <2>3
<1>3. I /\ Whole => MintsSound  OBVIOUS
<1> HIDE DEF I
<1> QED BY <1>1, <1>2, <1>3, IndexInvHolds, StaysWhole, PTL DEF Spec

\* No processed block misses a spend: whatever is relayed, replaced or confirmed
\* while the block is imported, and whatever reorgs came before, each input of
\* each of its transactions is spent by it at its height.  Crashes are allowed
\* as long as there is no other branch to go to.
THEOREM SpendsCompleteHolds ==
    ASSUME MaxLate = 0, MaxCrashes = 0 \/ Linear PROVE Spec => []SpendsComplete
<1>1. IndexInv /\ Whole => SpendsComplete  BY WrittenSpends
<1> QED BY <1>1, IndexInvHolds, StaysWhole, PTL

\* Over every tree and every sequence of reorgs, as long as nothing has been
\* interrupted, the processed blocks miss no mint and no transaction: a reorg
\* deletes nothing below its cut, and the import that follows writes all of the
\* rest.  The transactions relayed are rivals of none: a replacement that arrives
\* with the block of the original marks its mints conflicting.
THEOREM MintsCompleteUnlessCrashHolds ==
    ASSUME MaxLate = 0, NoRivals PROVE Spec => []MintsCompleteUnlessCrash
<1>1. IndexInv /\ lates = 0 => MintsCompleteUnlessCrash
  BY WrittenMints DEF MintsCompleteUnlessCrash, Whole
<1> QED BY <1>1, IndexInvHolds, NoLates, PTL

\* On a single branch, however often and wherever the process stops or addBlock
\* fails, the import that follows completes what was interrupted: no processed
\* block ever lacks a mint or a spend, until a reply comes late.
THEOREM CrashRepairedHolds ==
    ASSUME Linear, NoRivals PROVE Spec => []CrashRepaired
<1>1. IndexInv => CrashRepaired
  BY WrittenMints, WrittenSpends DEF CrashRepaired, Whole
<1> QED BY <1>1, IndexInvHolds, PTL
=============================================================================
