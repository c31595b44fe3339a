------------------------- MODULE MultiThreadSyncProofs -------------------------
(***************************************************************************)
(* Proofs about MultiThreadSync: types, that the initial sync processes    *)
(* the blocks by height, and that it loses none, for any threads, batches  *)
(* and faults.                                                             *)
(*                                                                         *)
(* The argument: until the initial sync has ended nothing but its          *)
(* processing loop changes the stored tip (ModesInv).  From the batch on,  *)
(* the heights from nextProcessHeight to the head of the queue are each in *)
(* one place (Whole), and nextProcessHeight follows the tip until a block  *)
(* fails, which keeps it where no thread delivers it again (BatchInv).     *)
(***************************************************************************)
EXTENDS MultiThreadSync, FiniteSetTheorems, TLAPS

ModesInv == listening => ~memDone /\ single = "off"

\* Every height from n up to q is in one place: with a thread (j), in the
\* buffer (b), being processed (p), or the one that failed (f).
Whole(j, n, q, b, p, f) ==
    /\ \A t \in Thread : j[t] # 0 =>
          n <= j[t] /\ j[t] < q /\ j[t] \notin b /\ j[t] # p /\ (f => j[t] # n)
    /\ \A s, t \in Thread : j[s] = j[t] /\ j[s] # 0 => s = t
    /\ \A h \in b : h \in Nat /\ n <= h /\ h < q /\ h # p /\ (f => h # n)
    /\ p # 0 => p = n /\ ~f
    /\ p # 0 \/ f => n < q
    /\ \A h \in Nat : n <= h /\ h < q =>
          (\E t \in Thread : j[t] = h) \/ h \in b \/ h = p \/ (f /\ h = n)

QuietInv ==
    listening /\ mt # "batch" =>
        /\ \A t \in Thread : job[t] = 0
        /\ buffer = {} /\ processing = 0 /\ owner = NoThread /\ ~rejected
        /\ mt \in {"headers", "asked"} => current = tip

BatchInv ==
    listening /\ mt = "batch" =>
        /\ 0 < next /\ next <= target /\ next <= queue /\ queue <= target + 1
        /\ current = next - 1
        /\ Whole(job, next, queue, buffer, processing, rejected)
        /\ ~rejected => next = tip + 1
        /\ owner \in Thread => processing # 0 /\ job[owner] = 0

IInv == TypeOK /\ ModesInv /\ QuietInv /\ BatchInv

-----------------------------------------------------------------------------
(* Whole, under what happens to a block. *)

LEMMA Deliver ==
    ASSUME NEW j \in [Thread -> Nat], NEW n \in Nat, NEW q \in Nat, NEW b \in SUBSET Nat,
           NEW p \in Nat, NEW f \in BOOLEAN, NEW t \in Thread,
           0 < n, j[t] # 0, Whole(j, n, q, b, p, f)
    PROVE  Whole([s \in Thread |-> IF s = t THEN 0 ELSE j[s]], n, q, b \cup {j[t]}, p, f)
<1> DEFINE k == [s \in Thread |-> IF s = t THEN 0 ELSE j[s]]
<1>1. k \in [Thread -> Nat] /\ k[t] = 0 /\ \A s \in Thread : s # t => k[s] = j[s]
  OBVIOUS
<1> HIDE DEF k
<1>2. \A s \in Thread : k[s] # 0 => k[s] = j[s] /\ s # t /\ k[s] # j[t]
  BY <1>1 DEF Whole
<1>3. /\ \A s \in Thread : k[s] # 0 =>
            n <= k[s] /\ k[s] < q /\ k[s] \notin b \cup {j[t]} /\ k[s] # p /\ (f => k[s] # n)
      /\ \A s, u \in Thread : k[s] = k[u] /\ k[s] # 0 => s = u
  BY <1>2 DEF Whole
<1>4. \A h \in b \cup {j[t]} : h \in Nat /\ n <= h /\ h < q /\ h # p /\ (f => h # n)
  BY DEF Whole
<1>5. (p # 0 => p = n /\ ~f) /\ (p # 0 \/ f => n < q)
  BY DEF Whole
<1>6. ASSUME NEW h \in Nat, n <= h, h < q
      PROVE  (\E s \in Thread : k[s] = h) \/ h \in b \cup {j[t]} \/ h = p \/ (f /\ h = n)
  <2>1. CASE \E s \in Thread : j[s] = h
    BY <1>1, <2>1
  <2>2. QED
    BY <1>6, <2>1 DEF Whole
<1>7. Whole(k, n, q, b \cup {j[t]}, p, f)
  BY <1>3, <1>4, <1>5, <1>6 DEF Whole
<1>8. QED
  BY <1>7 DEF k

LEMMA Give ==
    ASSUME NEW j \in [Thread -> Nat], NEW n \in Nat, NEW q \in Nat, NEW b \in SUBSET Nat,
           NEW p \in Nat, NEW f \in BOOLEAN, NEW t \in Thread, NEW k,
           0 < n, n <= q, j[t] = 0, Whole(j, n, q, b, p, f),
           k \in [Thread -> Nat], k[t] = q, \A s \in Thread : s # t => k[s] = j[s]
    PROVE  Whole(k, n, q + 1, b, p, f)
<1>1. ASSUME NEW s \in Thread, k[s] # 0
      PROVE  n <= k[s] /\ k[s] < q + 1 /\ k[s] \notin b /\ k[s] # p /\ (f => k[s] # n)
  BY <1>1 DEF Whole
<1>2. \A s, u \in Thread : k[s] = k[u] /\ k[s] # 0 => s = u
  BY DEF Whole
<1>3. \A h \in b : h \in Nat /\ n <= h /\ h < q + 1 /\ h # p /\ (f => h # n)
  BY DEF Whole
<1>4. (p # 0 => p = n /\ ~f) /\ (p # 0 \/ f => n < q + 1)
  BY DEF Whole
<1>5. ASSUME NEW h \in Nat, n <= h, h < q + 1
      PROVE  (\E s \in Thread : k[s] = h) \/ h \in b \/ h = p \/ (f /\ h = n)
  <2>1. CASE h = q
    BY <2>1
  <2>2. CASE h < q
    <3>1. CASE \E s \in Thread : j[s] = h
      BY <1>5, <3>1
    <3>2. QED
      BY <1>5, <2>2, <3>1 DEF Whole
  <2>3. QED
    BY <1>5, <2>1, <2>2
<1>6. QED
  BY <1>1, <1>2, <1>3, <1>4, <1>5 DEF Whole

LEMMA TakeNext ==
    ASSUME NEW j \in [Thread -> Nat], NEW n \in Nat, NEW q \in Nat, NEW b \in SUBSET Nat,
           NEW f \in BOOLEAN, 0 < n, n \in b, Whole(j, n, q, b, 0, f)
    PROVE  ~f /\ Whole(j, n, q, b \ {n}, n, f)
  BY DEF Whole

LEMMA Finish ==
    ASSUME NEW j \in [Thread -> Nat], NEW n \in Nat, NEW q \in Nat, NEW b \in SUBSET Nat,
           NEW f \in BOOLEAN, 0 < n, Whole(j, n, q, b, n, f)
    PROVE  ~f /\ n < q /\ Whole(j, n + 1, q, b, 0, f)
<1>1. ~f /\ n < q
  BY DEF Whole
<1>2. \A t \in Thread : j[t] # 0 => n + 1 <= j[t] /\ j[t] < q /\ j[t] \notin b /\ j[t] # 0
  BY DEF Whole
<1>3. \A h \in b : h \in Nat /\ n + 1 <= h /\ h < q /\ h # 0
  BY DEF Whole
<1>4. \A h \in Nat : n + 1 <= h /\ h < q => (\E t \in Thread : j[t] = h) \/ h \in b
  BY <1>1 DEF Whole
<1>5. QED
  BY <1>1, <1>2, <1>3, <1>4 DEF Whole

LEMMA FailedBlock ==
    ASSUME NEW j \in [Thread -> Nat], NEW n \in Nat, NEW q \in Nat, NEW b \in SUBSET Nat,
           NEW f \in BOOLEAN, 0 < n, Whole(j, n, q, b, n, f)
    PROVE  n \notin b /\ Whole(j, n, q, b, 0, TRUE)
  BY DEF Whole

\* What Whole says, as the property does.
LEMMA WholeAccounted ==
    ASSUME TypeOK, 0 < next, Whole(job, next, queue, buffer, processing, rejected)
    PROVE  /\ next .. queue - 1 =
                 Given \cup buffer \cup ({processing} \ {0}) \cup (IF rejected THEN {next} ELSE {})
           /\ Given \cap buffer = {} /\ processing \notin Given \cup buffer
           /\ rejected => next \notin Given \cup buffer
           /\ \A s, t \in Thread : job[s] = job[t] /\ job[s] # 0 => s = t
<1>t. /\ next \in Nat /\ queue \in Nat /\ processing \in Nat /\ job \in [Thread -> Nat]
      /\ buffer \in SUBSET Nat /\ rejected \in BOOLEAN
  BY DEF TypeOK
<1> DEFINE all == Given \cup buffer \cup ({processing} \ {0}) \cup (IF rejected THEN {next} ELSE {})
<1>1. \A h : h \in Given <=> h # 0 /\ \E t \in Thread : h = job[t]
  BY DEF Given
<1>2. ASSUME NEW h \in next .. queue - 1 PROVE h \in all
  <2>1. h \in Nat /\ next <= h /\ h < queue /\ h # 0
    BY <1>t
  <2>2. (\E t \in Thread : job[t] = h) \/ h \in buffer \/ h = processing \/ (rejected /\ h = next)
    BY <2>1 DEF Whole
  <2>3. QED
    BY <1>1, <2>1, <2>2
<1>3. ASSUME NEW h \in all PROVE h \in next .. queue - 1
  <2>1. CASE h \in Given
    <3>1. PICK t \in Thread : h = job[t] /\ h # 0
      BY <1>1, <2>1
    <3>2. h \in Nat /\ next <= h /\ h < queue
      BY <1>t, <3>1 DEF Whole
    <3>3. QED
      BY <1>t, <3>2
  <2>2. CASE h \in buffer
    <3>1. h \in Nat /\ next <= h /\ h < queue
      BY <2>2 DEF Whole
    <3>2. QED
      BY <1>t, <3>1
  <2>3. CASE (h = processing /\ h # 0) \/ (rejected /\ h = next)
    <3>1. h = next /\ next < queue
      BY <2>3 DEF Whole
    <3>2. QED
      BY <1>t, <3>1
  <2>4. QED
    BY <2>1, <2>2, <2>3
<1>4. next .. queue - 1 = all
  <2> HIDE DEF all
  <2>1. QED
    BY <1>2, <1>3
<1>5. \A h \in Given : h \notin buffer /\ h # processing /\ (rejected => h # next)
  BY <1>1 DEF Whole
<1>6. processing \notin buffer /\ (rejected => next \notin buffer)
  BY DEF Whole
<1>7. \A s, t \in Thread : job[s] = job[t] /\ job[s] # 0 => s = t
  BY DEF Whole
<1>8. QED
  BY <1>4, <1>5, <1>6, <1>7

-----------------------------------------------------------------------------
(* Types. *)

LEMMA LeastType ==
    ASSUME NEW m \in Nat, NEW n \in Nat
    PROVE  Least(m, n) \in Nat /\ Least(m, n) <= m /\ Least(m, n) <= n /\ Least(m, n) \in {m, n}
  BY DEF Least

LEMMA ThreadCount ==
    ASSUME TypeOK
    PROVE  Cardinality(threads) \in Nat
<1>1. IsFiniteSet(threads)
  BY SyncAssumption, FS_Subset DEF TypeOK
<1>2. QED
  BY <1>1, FS_CardinalityType

LEMMA AssignTypes ==
    ASSUME TypeOK, NEW t \in Thread \cup {NoThread}, Assign(t)
    PROVE  /\ job' \in [Thread -> Nat] /\ queue' \in Nat
           /\ \A s \in Thread : s # t => job'[s] = job[s]
<1>1. job \in [Thread -> Nat] /\ queue \in Nat /\ queue + 1 \in Nat
  BY DEF TypeOK
<1>2. CASE t \in Thread /\ queue <= target /\ up = "running"
  <2>1. job' = [job EXCEPT ![t] = queue] /\ queue' = queue + 1
    BY <1>2 DEF Assign
  <2>2. QED
    BY <1>1, <1>2, <2>1
<1>3. CASE ~(t \in Thread /\ queue <= target /\ up = "running")
  <2>1. job' = [s \in Thread |-> IF s = t THEN 0 ELSE job[s]] /\ queue' = queue
    BY <1>3 DEF Assign
  <2>2. QED
    BY <1>1, <2>1
<1>4. QED
  BY <1>2, <1>3

LEMMA TurnTypes ==
    ASSUME TypeOK, NEW n \in Nat, NEW b \in SUBSET Nat, NEW c \in Thread \cup {NoThread},
           Turn(n, b, c)
    PROVE  /\ job' \in [Thread -> Nat] /\ queue' \in Nat
           /\ processing' \in Nat /\ buffer' \in SUBSET Nat /\ owner' \in Thread \cup {NoThread}
<1>1. CASE n \in b /\ up = "running"
  <2>1. /\ processing' = n /\ buffer' = b \ {n} /\ owner' = c /\ queue' = queue
        /\ job' = [s \in Thread |-> IF s = c THEN 0 ELSE job[s]]
    BY <1>1 DEF Turn
  <2>2. job \in [Thread -> Nat] /\ queue \in Nat
    BY DEF TypeOK
  <2>3. QED
    BY <2>1, <2>2
<1>2. CASE ~(n \in b /\ up = "running")
  <2>1. processing' = 0 /\ buffer' = b /\ owner' = NoThread /\ Assign(c)
    BY <1>2 DEF Turn
  <2>2. QED
    BY <2>1, AssignTypes
<1>3. QED
  BY <1>1, <1>2

LEMMA TipTypes ==
    ASSUME TypeOK, AddBlockFails
    PROVE  tip' \in Nat /\ faults' \in Nat
  BY DEF TypeOK, AddBlockFails, TakenBack, Fault

LEMMA TypeInit == Init => TypeOK
<1> SUFFICES ASSUME Init PROVE TypeOK
  OBVIOUS
<1>1. netTip \in Nat /\ tip \in Nat
  BY SyncAssumption DEF Init
<1>2. job \in [Thread -> Nat] /\ buffer \in SUBSET Nat /\ threads \in SUBSET Thread
  BY DEF Init
<1>3. QED
  BY <1>1, <1>2 DEF Init, TypeOK

LEMMA TypeWorker ==
    ASSUME TypeOK, Start \/ Announce \/ EnterMultiThread \/ Saved \/ ReadState \/ Stop \/ Exit
    PROVE  TypeOK'
<1>1. CASE Start
  BY <1>1 DEF TypeOK, Start, stored, pool, batch, answer
<1>2. CASE Announce
  <2>1. entering' \in BOOLEAN /\ single' \in {"off", "state", "headers", "asked", "blocks"}
    <3>1. CASE up = "running"
      <4>1. Sync
        BY <1>2, <3>1 DEF Announce
      <4>2. QED
        BY <4>1 DEF Sync, TypeOK
    <3>2. CASE up # "running"
      BY <1>2, <3>2 DEF Announce, TypeOK
    <3>3. QED
      BY <3>1, <3>2
  <2>2. QED
    BY <1>2, <2>1 DEF TypeOK, Announce, pool, batch, answer
<1>3. CASE EnterMultiThread
  <2>1. entering' \in BOOLEAN /\ mt' \in {"off", "start", "headers", "asked", "batch"}
    BY <1>3 DEF EnterMultiThread, TypeOK
  <2>2. UNCHANGED <<stored, up, memDone, listening, saving, single, block, lastBlock, pool, batch,
                    answer, faults>>
    BY <1>3 DEF EnterMultiThread
  <2>3. QED
    BY <2>1, <2>2 DEF TypeOK, stored, pool, batch, answer
<1>4. CASE Saved
  <2>1. saving' \in BOOLEAN /\ savedDone' \in BOOLEAN
    BY <1>4 DEF Saved
  <2>2. UNCHANGED <<netTip, tip, up, memDone, listening, entering, single, block, lastBlock, mt,
                    pool, batch, answer, faults>>
    BY <1>4 DEF Saved
  <2>3. QED
    BY <2>1, <2>2 DEF TypeOK, pool, batch, answer
<1>5. CASE ReadState
  BY <1>5 DEF TypeOK, ReadState, stored, pool, batch, answer
<1>6. CASE Stop
  BY <1>6 DEF TypeOK, Stop, Fault, stored, worker, batch, answer
<1>7. CASE Exit
  <2>1. faults' \in Nat
    BY <1>7 DEF Exit, Fault, TypeOK
  <2>2. job' \in [Thread -> Nat] /\ buffer' \in SUBSET Nat /\ threads' \in SUBSET Thread
    BY <1>7 DEF Exit
  <2>3. QED
    BY <1>7, <2>1, <2>2 DEF TypeOK, Exit, stored, answer
<1>8. QED
  BY <1>1, <1>2, <1>3, <1>4, <1>5, <1>6, <1>7

LEMMA RequestTypes ==
    ASSUME TypeOK, Request
    PROVE  reply' \in Nat /\ missed' \in BOOLEAN
<1>1. tip \in Nat /\ netTip \in Nat /\ MaxHeaders \in Nat
  BY SyncAssumption DEF TypeOK
<1>2. CASE netTip <= tip
  BY <1>2 DEF Request
<1>3. CASE ~(netTip <= tip)
  <2>1. netTip - tip \in Nat
    BY <1>1, <1>3
  <2>2. QED
    BY <1>1, <1>3, <2>1, LeastType DEF Request
<1>4. QED
  BY <1>2, <1>3

LEMMA TypeAsk ==
    ASSUME TypeOK, AskSingle \/ AskMulti
    PROVE  TypeOK'
<1>1. reply' \in Nat /\ missed' \in BOOLEAN
  BY RequestTypes DEF AskSingle, AskMulti
<1>2. CASE AskSingle
  BY <1>1, <1>2 DEF TypeOK, AskSingle, stored, pool, batch
<1>3. CASE AskMulti
  BY <1>1, <1>3 DEF TypeOK, AskMulti, stored, worker, pool, batch
<1>4. QED
  BY <1>2, <1>3

LEMMA TypeSingle ==
    ASSUME TypeOK, SingleHeaders \/ SingleBlock
    PROVE  TypeOK'
<1>1. CASE SingleHeaders
  <2>1. tip + 1 \in Nat /\ tip + reply \in Nat
    BY DEF TypeOK
  <2>2. /\ single' \in {"off", "state", "headers", "asked", "blocks"} /\ saving' \in BOOLEAN
        /\ block' \in Nat /\ lastBlock' \in Nat
    BY <1>1, <2>1 DEF TypeOK, SingleHeaders
  <2>3. UNCHANGED <<stored, up, memDone, listening, entering, mt, pool, batch, answer, faults>>
    BY <1>1 DEF SingleHeaders
  <2>4. QED
    BY <2>2, <2>3 DEF TypeOK, stored, pool, batch, answer
<1>2. CASE SingleBlock
  <2>1. tip' \in Nat /\ faults' \in Nat
    BY <1>2, TipTypes DEF TypeOK, SingleBlock
  <2>2. /\ entering' \in BOOLEAN /\ single' \in {"off", "state", "headers", "asked", "blocks"}
        /\ block' \in Nat /\ lastBlock' \in Nat
    <3>1. memDone \in BOOLEAN /\ entering \in BOOLEAN /\ block \in Nat /\ lastBlock \in Nat
          /\ single \in {"off", "state", "headers", "asked", "blocks"}
      BY DEF TypeOK
    <3>2. CASE entering' = entering
      BY <1>2, <3>1, <3>2 DEF SingleBlock
    <3>3. CASE entering' = ~memDone
      BY <1>2, <3>1, <3>3 DEF SingleBlock
    <3>4. QED
      BY <1>2, <3>2, <3>3 DEF SingleBlock
  <2>3. QED
    BY <1>2, <2>1, <2>2 DEF TypeOK, SingleBlock, pool, batch, answer
<1>3. QED
  BY <1>1, <1>2

LEMMA TypeBatch ==
    ASSUME TypeOK, NewBatch
    PROVE  TypeOK'
<1>1. target' \in Nat /\ Least(tip + Cardinality(threads), target') + 1 \in Nat
  <2>1. tip \in Nat /\ reply \in Nat /\ tip + Cardinality(threads) \in Nat
    BY ThreadCount DEF TypeOK
  <2>2. target' \in Nat
    BY <2>1 DEF NewBatch
  <2>3. Least(tip + Cardinality(threads), target') \in Nat
    BY <2>1, <2>2, LeastType
  <2>4. QED
    BY <2>2, <2>3
<1>2. target' \in Nat /\ queue' \in Nat /\ next' \in Nat
  BY <1>1 DEF NewBatch, TypeOK
<1>3. job' \in [Thread -> Nat]
  <2>1. PICK kicks \in [Thread -> 0 .. target'] : job' = kicks
    BY DEF NewBatch
  <2>2. QED
    BY <1>2, <2>1
<1>4. mt' \in {"off", "start", "headers", "asked", "batch"}
  BY DEF NewBatch
<1>5. QED
  BY <1>2, <1>3, <1>4 DEF TypeOK, NewBatch, stored, worker, pool, answer

LEMMA TypeFetch ==
    ASSUME TypeOK, NEW t \in Thread, Fetched(t) \/ FetchFailed(t) \/ ThreadExit(t)
    PROVE  TypeOK'
<1>1. CASE Fetched(t)
  <2>1. buffer \cup {job[t]} \in SUBSET Nat
    BY DEF TypeOK
  <2>2. CASE processing # 0
    <3>1. buffer' \in SUBSET Nat /\ Assign(t) /\ processing' = processing /\ owner' = owner
      BY <1>1, <2>1, <2>2 DEF Fetched
    <3>2. QED
      BY <1>1, <3>1, AssignTypes DEF TypeOK, Fetched, stored, worker, pool, answer
  <2>3. CASE processing = 0
    <3>1. Turn(next, buffer \cup {job[t]}, t)
      BY <1>1, <2>3 DEF Fetched
    <3>2. /\ job' \in [Thread -> Nat] /\ queue' \in Nat
          /\ processing' \in Nat /\ buffer' \in SUBSET Nat /\ owner' \in Thread \cup {NoThread}
      BY <2>1, <3>1, TurnTypes DEF TypeOK
    <3>3. QED
      BY <1>1, <3>2 DEF TypeOK, Fetched, stored, worker, pool, answer
  <2>4. QED
    BY <2>2, <2>3
<1>2. CASE FetchFailed(t)
  BY <1>2 DEF TypeOK, FetchFailed, Fault, Retried, stored, worker, pool, answer
<1>3. CASE ThreadExit(t)
  BY <1>3 DEF TypeOK, ThreadExit, stored, worker, batch, answer
<1>4. QED
  BY <1>1, <1>2, <1>3

LEMMA TypeMulti ==
    ASSUME TypeOK, MultiStart \/ FinishSync \/ Processed \/ ProcessFailed
    PROVE  TypeOK'
<1>1. CASE MultiStart
  <2>1. /\ mt' \in {"off", "start", "headers", "asked", "batch"} /\ current' \in Nat
        /\ threads' \in SUBSET Thread /\ leaving' \in BOOLEAN
    BY <1>1 DEF TypeOK, MultiStart, pool, answer
  <2>2. UNCHANGED <<stored, up, worker, job, queue, target, next, buffer, processing, owner,
                    rejected, answer, faults>>
    BY <1>1 DEF MultiStart
  <2>3. QED
    BY <2>1, <2>2 DEF TypeOK, stored, worker, answer
<1>2. CASE FinishSync
  BY <1>2 DEF TypeOK, FinishSync, stored, batch, answer
<1>3. CASE Processed
  <2>1. tip' \in Nat /\ current' \in Nat /\ next' \in Nat /\ next' = next + 1
    BY <1>3 DEF Processed, TypeOK
  <2>2. mt' \in {"off", "start", "headers", "asked", "batch"}
    BY <1>3 DEF Processed, TypeOK
  <2>3. Turn(next + 1, buffer, owner)
    BY <1>3, <2>1 DEF Processed
  <2>4. /\ job' \in [Thread -> Nat] /\ queue' \in Nat
        /\ processing' \in Nat /\ buffer' \in SUBSET Nat /\ owner' \in Thread \cup {NoThread}
    BY <2>3, TurnTypes DEF TypeOK
  <2>5. QED
    BY <1>3, <2>1, <2>2, <2>4 DEF TypeOK, Processed, worker, pool, answer
<1>4. CASE ProcessFailed
  <2>1. tip' \in Nat /\ faults' \in Nat /\ next' = next
    BY <1>4, TipTypes DEF ProcessFailed, AfterFailure
  <2>2. Turn(next, buffer, NoThread)
    BY <1>4, <2>1 DEF ProcessFailed
  <2>3. /\ job' \in [Thread -> Nat] /\ queue' \in Nat
        /\ processing' \in Nat /\ buffer' \in SUBSET Nat /\ owner' \in Thread \cup {NoThread}
    BY <2>2, TurnTypes DEF TypeOK
  <2>4. QED
    BY <1>4, <2>1, <2>3 DEF TypeOK, ProcessFailed, worker, pool, answer
<1>5. QED
  BY <1>1, <1>2, <1>3, <1>4

\* The steps of the specification.
LEMMA Steps ==
    ASSUME [Next]_vars
    PROVE  \/ Start \/ Announce \/ EnterMultiThread \/ Saved \/ ReadState \/ Stop \/ Exit
           \/ AskSingle \/ AskMulti \/ SingleHeaders \/ SingleBlock \/ NewBatch
           \/ MultiStart \/ FinishSync \/ Processed \/ ProcessFailed
           \/ \E t \in Thread : Fetched(t) \/ FetchFailed(t) \/ ThreadExit(t)
           \/ UNCHANGED vars
  BY DEF Next, P2P, MultiThread

LEMMA TypeNext ==
    ASSUME TypeOK, [Next]_vars
    PROVE  TypeOK'
<1>1. CASE UNCHANGED vars
  BY <1>1 DEF TypeOK, vars
<1>2. QED
  BY <1>1, Steps, TypeWorker, TypeAsk, TypeSingle, TypeBatch, TypeFetch, TypeMulti

-----------------------------------------------------------------------------
(* The batch, when a thread is given a block or the next one is processed.  *)

\* What the batch gains: BatchInv without the tip.
Sound ==
    /\ next <= queue /\ queue <= target + 1
    /\ Whole(job, next, queue, buffer, processing, rejected)
    /\ owner \in Thread => processing # 0 /\ job[owner] = 0

Cleared(c) == [s \in Thread |-> IF s = c THEN 0 ELSE job[s]]

LEMMA ClearedType ==
    ASSUME TypeOK, NEW c
    PROVE  Cleared(c) \in [Thread -> Nat] /\ (c \in Thread => Cleared(c)[c] = 0)
           /\ \A s \in Thread : s # c => Cleared(c)[s] = job[s]
<1>1. job \in [Thread -> Nat]
  BY DEF TypeOK
<1>2. QED
  BY <1>1 DEF Cleared

LEMMA AssignBatch ==
    ASSUME TypeOK, NEW n \in Nat, NEW b \in SUBSET Nat, NEW p \in Nat, NEW f \in BOOLEAN,
           NEW c \in Thread \cup {NoThread}, 0 < n, n <= queue, queue <= target + 1,
           Whole(Cleared(c), n, queue, b, p, f), Assign(c)
    PROVE  n <= queue' /\ queue' <= target + 1 /\ Whole(job', n, queue', b, p, f)
<1>1. /\ job \in [Thread -> Nat] /\ queue \in Nat /\ target \in Nat
  BY DEF TypeOK
<1>2. CASE c \in Thread /\ queue <= target /\ up = "running"
  <2>1. job' = [job EXCEPT ![c] = queue] /\ queue' = queue + 1
    BY <1>2 DEF Assign
  <2>2. job' \in [Thread -> Nat] /\ job'[c] = queue /\ \A s \in Thread : s # c => job'[s] = job[s]
    BY <1>1, <1>2, <2>1
  <2>3. \A s \in Thread : s # c => job'[s] = Cleared(c)[s]
    BY <2>2, ClearedType
  <2>4. Whole(job', n, queue + 1, b, p, f)
    BY <1>1, <1>2, <2>2, <2>3, ClearedType, Give
  <2>5. QED
    BY <1>1, <1>2, <2>1, <2>4
<1>3. CASE ~(c \in Thread /\ queue <= target /\ up = "running")
  <2>1. job' = Cleared(c) /\ queue' = queue
    BY <1>3 DEF Assign, Cleared
  <2>2. QED
    BY <2>1
<1>4. QED
  BY <1>2, <1>3

LEMMA TurnBatch ==
    ASSUME TypeOK, NEW n \in Nat, NEW b \in SUBSET Nat, NEW f \in BOOLEAN,
           NEW c \in Thread \cup {NoThread}, 0 < n, n <= queue, queue <= target + 1,
           Whole(Cleared(c), n, queue, b, 0, f), Turn(n, b, c)
    PROVE  /\ n <= queue' /\ queue' <= target + 1
           /\ Whole(job', n, queue', buffer', processing', f)
           /\ owner' \in Thread => processing' # 0 /\ job'[owner'] = 0
<1>1. CASE n \in b /\ up = "running"
  <2>1. /\ processing' = n /\ buffer' = b \ {n} /\ owner' = c /\ queue' = queue
        /\ job' = Cleared(c)
    BY <1>1 DEF Turn, Cleared
  <2>2. Whole(Cleared(c), n, queue, b \ {n}, n, f)
    BY <1>1, ClearedType, TakeNext DEF TypeOK
  <2>3. QED
    BY <2>1, <2>2, ClearedType
<1>2. CASE ~(n \in b /\ up = "running")
  <2>1. processing' = 0 /\ buffer' = b /\ owner' = NoThread /\ Assign(c)
    BY <1>2 DEF Turn
  <2>2. n <= queue' /\ queue' <= target + 1 /\ Whole(job', n, queue', b, 0, f)
    BY <2>1, AssignBatch
  <2>3. NoThread \notin Thread
    BY SyncAssumption
  <2>4. QED
    BY <2>1, <2>2, <2>3
<1>3. QED
  BY <1>1, <1>2

\* The state of a batch.
LEMMA InBatch ==
    ASSUME IInv, listening, mt = "batch"
    PROVE  /\ job \in [Thread -> Nat] /\ next \in Nat /\ queue \in Nat /\ target \in Nat
           /\ buffer \in SUBSET Nat /\ processing \in Nat /\ rejected \in BOOLEAN
           /\ owner \in Thread \cup {NoThread} /\ tip \in Nat /\ current \in Nat
           /\ 0 < next /\ next <= target /\ current = next - 1 /\ Sound
           /\ ~rejected => next = tip + 1
  BY DEF IInv, TypeOK, BatchInv, Sound

\* Nothing goes on outside a batch.
LEMMA NotInBatch ==
    ASSUME IInv, listening, mt # "batch"
    PROVE  /\ \A t \in Thread : job[t] = 0
           /\ buffer = {} /\ processing = 0 /\ owner = NoThread /\ ~rejected
           /\ mt \in {"headers", "asked"} => current = tip
  BY DEF IInv, QuietInv

-----------------------------------------------------------------------------
(* The steps. *)

\* The initial sync is over: nothing is claimed any more.
LEMMA Over ==
    ASSUME ~listening', TypeOK'
    PROVE  IInv'
  BY DEF IInv, ModesInv, QuietInv, BatchInv

LEMMA ModesNext ==
    ASSUME IInv, [Next]_vars, listening'
    PROVE  ModesInv'
<1>1. ModesInv /\ TypeOK
  BY DEF IInv
<1>2. CASE Exit
  BY <1>2 DEF ModesInv, Exit
<1>3. CASE Start \/ Announce \/ EnterMultiThread \/ Saved \/ ReadState \/ Stop
  BY <1>1, <1>3 DEF ModesInv, Start, Announce, Sync, EnterMultiThread, Saved, ReadState, Stop,
                    worker
<1>4. CASE AskSingle \/ AskMulti \/ SingleHeaders \/ SingleBlock \/ MultiStart \/ FinishSync
  BY <1>1, <1>4
     DEF ModesInv, AskSingle, AskMulti, SingleHeaders, SingleBlock, MultiStart, FinishSync, worker
<1>5. CASE NewBatch \/ Processed \/ ProcessFailed
  BY <1>1, <1>5 DEF ModesInv, NewBatch, Processed, ProcessFailed, worker
<1>6. CASE \E t \in Thread : Fetched(t) \/ FetchFailed(t) \/ ThreadExit(t)
  BY <1>1, <1>6 DEF ModesInv, Fetched, FetchFailed, ThreadExit, worker
<1>7. CASE UNCHANGED vars
  BY <1>1, <1>7 DEF ModesInv, vars
<1>8. QED
  BY <1>2, <1>3, <1>4, <1>5, <1>6, <1>7, Steps

ModeKept ==
    \/ mt' = mt
    \/ mt = "headers" /\ mt' = "asked"
    \/ mt # "batch" /\ mt' \in {"off", "start"}

\* Steps that leave the batch and the stored tip alone.
LEMMA BatchKept ==
    ASSUME IInv, UNCHANGED <<tip, batch>>, listening' => listening,
           listening' => ModeKept
    PROVE  QuietInv' /\ BatchInv'
<1>1. /\ UNCHANGED <<job, queue, target, next, current, buffer, processing, owner, rejected>>
  BY DEF batch
<1>2. QuietInv'
  BY <1>1, NotInBatch DEF QuietInv, ModeKept
<1>3. ASSUME listening', mt' = "batch" PROVE BatchInv'
  <2>1. listening /\ mt = "batch" /\ BatchInv
    BY <1>3 DEF IInv, ModeKept
  <2>2. Whole(job, next, queue, buffer, processing, rejected)'
    BY <1>1, <2>1 DEF BatchInv, Whole
  <2>3. QED
    BY <1>1, <2>1, <2>2 DEF BatchInv
<1>4. QED
  BY <1>2, <1>3 DEF BatchInv

LEMMA KeptNext ==
    ASSUME IInv, listening',
           \/ AskSingle \/ AskMulti \/ Start \/ Announce \/ EnterMultiThread
           \/ Saved \/ ReadState \/ Stop
           \/ SingleHeaders \/ SingleBlock \/ FinishSync \/ UNCHANGED vars
           \/ \E t \in Thread : FetchFailed(t) \/ ThreadExit(t)
    PROVE  QuietInv' /\ BatchInv'
<1>1. CASE Start \/ Announce \/ EnterMultiThread \/ Saved \/ ReadState \/ Stop
  <2>1. UNCHANGED <<tip, batch>> /\ listening
    BY <1>1 DEF Start, Announce, EnterMultiThread, Saved, ReadState, Stop, stored, worker
  <2>2. ModeKept
    <3>1. CASE EnterMultiThread
      BY <3>1 DEF EnterMultiThread, ModeKept
    <3>2. CASE ~EnterMultiThread
      BY <1>1, <3>2 DEF ModeKept, Start, Announce, Saved, ReadState, Stop
    <3>3. QED
      BY <3>1, <3>2
  <2>3. QED
    BY <2>1, <2>2, BatchKept
<1>m. CASE AskMulti
  <2>1. UNCHANGED <<tip, batch>> /\ listening /\ ModeKept
    BY <1>m DEF AskMulti, ModeKept, stored, worker
  <2>2. QED
    BY <2>1, BatchKept
<1>2. CASE AskSingle \/ SingleHeaders \/ SingleBlock \/ FinishSync
  <2>1. listening => single = "off"
    BY DEF IInv, ModesInv
  <2>2. UNCHANGED <<tip, batch>> /\ listening /\ ModeKept
    BY <1>2, <2>1 DEF ModeKept, AskSingle, SingleHeaders, SingleBlock, FinishSync, stored
  <2>3. QED
    BY <2>2, BatchKept
<1>3. CASE UNCHANGED vars
  <2>1. UNCHANGED <<tip, batch>> /\ (listening' => listening) /\ ModeKept
    BY <1>3 DEF ModeKept, vars, batch
  <2>2. QED
    BY <2>1, BatchKept
<1>4. CASE \E t \in Thread : FetchFailed(t) \/ ThreadExit(t)
  <2>1. UNCHANGED <<tip, batch>> /\ (listening' => listening) /\ ModeKept
    BY <1>4 DEF ModeKept, FetchFailed, Retried, ThreadExit, stored, worker, batch
  <2>2. QED
    BY <2>1, BatchKept
<1>5. QED
  BY <1>1, <1>m, <1>2, <1>3, <1>4

LEMMA ExitNext ==
    ASSUME Exit
    PROVE  QuietInv' /\ BatchInv'
<1>1. \A t \in Thread : job'[t] = 0
  BY DEF Exit
<1>2. mt' = "off" /\ buffer' = {} /\ processing' = 0 /\ owner' = NoThread /\ rejected' = FALSE
  BY DEF Exit
<1>3. QED
  BY <1>1, <1>2 DEF QuietInv, BatchInv

LEMMA StartNext ==
    ASSUME IInv, MultiStart
    PROVE  QuietInv' /\ BatchInv'
<1>1. /\ UNCHANGED <<job, tip, buffer, processing, owner, rejected, listening>>
      /\ mt = "start" /\ mt' = "headers" /\ current' = tip
  BY DEF MultiStart, stored, worker
<1>2. QED
  BY <1>1, NotInBatch DEF QuietInv, BatchInv

LEMMA Between ==
    ASSUME NEW a \in Nat, NEW q \in Nat, NEW h \in Nat, a + 1 <= h, h < q
    PROVE  h \in a + 1 .. q - 1 /\ h # 0
  OBVIOUS

\* The first blocks of the batch are with the threads.
LEMMA BatchNext ==
    ASSUME IInv, TypeOK', NewBatch, listening'
    PROVE  QuietInv' /\ BatchInv'
<1>1. listening /\ mt = "asked" /\ UNCHANGED <<tip, current, buffer, processing, owner, rejected>>
  BY DEF NewBatch, stored, worker
<1>2. buffer = {} /\ processing = 0 /\ owner = NoThread /\ ~rejected /\ current = tip
  BY <1>1, NotInBatch
<1>n. NoThread \notin Thread
  BY SyncAssumption
<1>t. /\ tip \in Nat /\ reply \in Nat /\ Cardinality(threads) \in Nat
      /\ target' \in Nat /\ queue' \in Nat
      /\ threads \in SUBSET Thread /\ \A t \in Thread : job[t] = 0
  BY <1>1, ThreadCount, NotInBatch DEF IInv, TypeOK
<1>4. tip < target'
  BY <1>t DEF NewBatch
<1>5. mt' = "batch"
  BY <1>1, <1>2, <1>t, <1>4 DEF NewBatch
<1>6. next' = tip + 1 /\ queue' = Least(tip + Cardinality(threads), target') + 1
  BY DEF NewBatch
<1>7. /\ Least(tip + Cardinality(threads), target') \in Nat
      /\ Least(tip + Cardinality(threads), target') <= target'
      /\ Least(tip + Cardinality(threads), target') \in {tip + Cardinality(threads), target'}
  <2>1. tip + Cardinality(threads) \in Nat
    BY <1>t
  <2>2. QED
    BY <1>t, <2>1, LeastType
<1>8. next' <= queue' /\ queue' <= target' + 1
  BY <1>t, <1>4, <1>6, <1>7
<1>9. PICK kicks \in [Thread -> 0 .. target'] : Kicked(kicks, tip + 1, target') /\ job' = kicks
  BY DEF NewBatch
<1>10. /\ \A t \in Thread : t \notin threads => kicks[t] = 0
       /\ {kicks[t] : t \in threads} \ {0} = tip + 1 .. queue' - 1
       /\ \A s, t \in threads : kicks[s] = kicks[t] => s = t \/ kicks[s] = 0
  <2>1. tip + 1 + Cardinality(threads) - 1 = tip + Cardinality(threads)
    BY <1>t
  <2>2. Least(tip + 1 + Cardinality(threads) - 1, target') = queue' - 1
    BY <1>6, <1>7, <2>1
  <2>3. QED
    BY <1>9, <1>t, <2>2 DEF Kicked
<1>11. \A t \in Thread : kicks[t] # 0 => tip + 1 <= kicks[t] /\ kicks[t] < queue'
  <2>1. ASSUME NEW t \in Thread, kicks[t] # 0 PROVE tip + 1 <= kicks[t] /\ kicks[t] < queue'
    <3>1. kicks[t] \in tip + 1 .. queue' - 1
      BY <1>10, <2>1
    <3>2. QED
      BY <1>t, <3>1
  <2>2. QED
    BY <2>1
<1>12. \A s, t \in Thread : kicks[s] = kicks[t] /\ kicks[s] # 0 => s = t
  BY <1>10
<1>13. ASSUME NEW h \in Nat, tip + 1 <= h, h < queue'
       PROVE  \E t \in Thread : kicks[t] = h
  <2>1. h \in tip + 1 .. queue' - 1 /\ h # 0
    <3>1. tip \in Nat /\ queue' \in Nat /\ h \in Nat /\ tip + 1 <= h /\ h < queue'
      BY <1>t, <1>13
    <3>2. QED
      BY <3>1, Between
  <2>2. PICK t \in threads : kicks[t] = h
    BY <1>10, <2>1
  <2>3. QED
    BY <1>t, <2>2
<1>14. Whole(kicks, tip + 1, queue', {}, 0, FALSE)
  BY <1>11, <1>12, <1>13 DEF Whole
<1>15. Whole(job, next, queue, buffer, processing, rejected)'
  <2>1. rejected' = FALSE
    BY <1>1, <1>2 DEF IInv, TypeOK
  <2>2. QED
    BY <1>1, <1>2, <1>6, <1>9, <1>14, <2>1
<1>16. QED
  BY <1>1, <1>2, <1>n, <1>t, <1>4, <1>5, <1>6, <1>8, <1>15 DEF QuietInv, BatchInv

\* A thread delivers its block.
LEMMA FetchedNext ==
    ASSUME IInv, listening', NEW t \in Thread, Fetched(t)
    PROVE  QuietInv' /\ BatchInv'
<1>1. listening /\ job[t] # 0 /\ UNCHANGED <<mt, tip, target, next, current, rejected>>
  BY DEF Fetched, stored, worker
<1>2. mt = "batch"
  BY <1>1, NotInBatch
<1>3. /\ job \in [Thread -> Nat] /\ next \in Nat /\ queue \in Nat /\ target \in Nat
      /\ buffer \in SUBSET Nat /\ processing \in Nat /\ rejected \in BOOLEAN
      /\ 0 < next /\ next <= target /\ current = next - 1 /\ Sound
      /\ ~rejected => next = tip + 1
  BY <1>1, <1>2, InBatch
<1>4. TypeOK
  BY DEF IInv
<1>5. /\ Whole(Cleared(t), next, queue, buffer \cup {job[t]}, processing, rejected)
      /\ buffer \cup {job[t]} \in SUBSET Nat
  <2>1. Whole(job, next, queue, buffer, processing, rejected)
    BY <1>3 DEF Sound
  <2>2. Whole([s \in Thread |-> IF s = t THEN 0 ELSE job[s]], next, queue, buffer \cup {job[t]},
              processing, rejected)
    BY <1>1, <1>3, <2>1, Deliver
  <2>3. QED
    BY <1>3, <2>2 DEF Cleared
<1>6. CASE processing # 0
  <2>1. buffer' = buffer \cup {job[t]} /\ Assign(t) /\ processing' = processing /\ owner' = owner
    BY <1>6 DEF Fetched
  <2>2. /\ next <= queue' /\ queue' <= target + 1
        /\ Whole(job', next, queue', buffer \cup {job[t]}, processing, rejected)
    BY <1>3, <1>4, <1>5, <2>1, AssignBatch DEF Sound
  <2>3. owner \in Thread => owner # t /\ job'[owner] = 0
    BY <1>1, <1>3, <1>4, <2>1, AssignTypes DEF Sound
  <2>4. Whole(job, next, queue, buffer, processing, rejected)'
    BY <1>1, <2>1, <2>2
  <2>5. QED
    BY <1>1, <1>2, <1>3, <1>6, <2>1, <2>2, <2>3, <2>4 DEF QuietInv, BatchInv
<1>7. CASE processing = 0
  <2>1. Turn(next, buffer \cup {job[t]}, t)
    BY <1>7 DEF Fetched
  <2>2. /\ next <= queue' /\ queue' <= target + 1
        /\ Whole(job', next, queue', buffer', processing', rejected)
        /\ owner' \in Thread => processing' # 0 /\ job'[owner'] = 0
    BY <1>3, <1>4, <1>5, <1>7, <2>1, TurnBatch DEF Sound
  <2>3. Whole(job, next, queue, buffer, processing, rejected)'
    BY <1>1, <2>2
  <2>4. QED
    BY <1>1, <1>2, <1>3, <2>2, <2>3 DEF QuietInv, BatchInv
<1>8. QED
  BY <1>6, <1>7

\* The block that was processed is the tip; the next one is looked for.
LEMMA ProcessedNext ==
    ASSUME IInv, listening', Processed
    PROVE  QuietInv' /\ BatchInv'
<1>1. /\ listening /\ processing # 0 /\ processing = tip + 1 /\ tip' = processing
      /\ current' = next /\ next' = next + 1 /\ UNCHANGED <<target, rejected>>
  BY DEF Processed, worker
<1>2. mt = "batch"
  BY <1>1, NotInBatch
<1>3. /\ job \in [Thread -> Nat] /\ next \in Nat /\ queue \in Nat /\ target \in Nat
      /\ buffer \in SUBSET Nat /\ processing \in Nat /\ rejected \in BOOLEAN
      /\ owner \in Thread \cup {NoThread} /\ tip \in Nat
      /\ 0 < next /\ next <= target /\ Sound
  BY <1>1, <1>2, InBatch
<1>4. TypeOK
  BY DEF IInv
<1>5. processing = next
  BY <1>1, <1>3 DEF Sound, Whole
<1>6. ~rejected /\ next < queue /\ Whole(job, next + 1, queue, buffer, 0, rejected)
  BY <1>3, <1>5, Finish DEF Sound
<1>7. Cleared(owner) = job
  <2>1. \A s \in Thread : (IF s = owner THEN 0 ELSE job[s]) = job[s]
    BY <1>3 DEF Sound
  <2>2. job = [s \in Thread |-> job[s]]
    BY <1>3
  <2>3. QED
    BY <2>1, <2>2 DEF Cleared
<1>8. Turn(next + 1, buffer, owner)
  BY <1>1 DEF Processed
<1>9. /\ next + 1 <= queue' /\ queue' <= target + 1
      /\ Whole(job', next + 1, queue', buffer', processing', rejected)
      /\ owner' \in Thread => processing' # 0 /\ job'[owner'] = 0
  <2>1. next + 1 \in Nat /\ 0 < next + 1 /\ next + 1 <= queue /\ queue <= target + 1
    BY <1>3, <1>6 DEF Sound
  <2>2. QED
    BY <1>3, <1>4, <1>6, <1>7, <1>8, <2>1, TurnBatch
<1>10. Whole(job, next, queue, buffer, processing, rejected)'
  BY <1>1, <1>9
<1>11. CASE next < target
  <2>1. mt' = "batch"
    BY <1>1, <1>2, <1>3, <1>11 DEF Processed
  <2>2. QED
    BY <1>1, <1>3, <1>5, <1>6, <1>9, <1>10, <1>11, <2>1 DEF QuietInv, BatchInv
<1>12. CASE next = target
  <2>1. mt' = "headers"
    BY <1>1, <1>2, <1>3, <1>12 DEF Processed
  <2>2. queue = next + 1
    BY <1>3, <1>6, <1>12 DEF Sound
  <2>3. /\ \A s \in Thread : job[s] = 0
        /\ buffer = {}
    BY <1>3, <1>6, <2>2 DEF Whole
  <2>4. ~(queue <= target)
    BY <1>3, <1>12, <2>2
  <2>5. processing' = 0 /\ buffer' = {} /\ owner' = NoThread /\ job' = job
    <3>1. processing' = 0 /\ buffer' = buffer /\ owner' = NoThread /\ Assign(owner)
      BY <1>8, <2>3 DEF Turn
    <3>2. job' = Cleared(owner)
      BY <3>1, <2>4 DEF Assign, Cleared
    <3>3. QED
      BY <1>7, <2>3, <3>1, <3>2
  <2>6. QED
    BY <1>1, <1>5, <1>6, <2>1, <2>3, <2>5 DEF QuietInv, BatchInv
<1>13. QED
  BY <1>3, <1>11, <1>12

\* The block that failed is where no thread delivers it again.
LEMMA FailedNext ==
    ASSUME IInv, listening', ProcessFailed
    PROVE  QuietInv' /\ BatchInv'
<1>1. /\ listening /\ processing # 0 /\ next' = next /\ rejected' = TRUE
      /\ UNCHANGED <<mt, target, current>>
  BY DEF ProcessFailed, AfterFailure, worker
<1>2. mt = "batch"
  BY <1>1, NotInBatch
<1>3. /\ job \in [Thread -> Nat] /\ next \in Nat /\ queue \in Nat /\ target \in Nat
      /\ buffer \in SUBSET Nat /\ processing \in Nat /\ rejected \in BOOLEAN
      /\ 0 < next /\ next <= target /\ current = next - 1 /\ Sound
  BY <1>1, <1>2, InBatch
<1>4. TypeOK
  BY DEF IInv
<1>5. processing = next
  BY <1>1, <1>3 DEF Sound, Whole
<1>6. next \notin buffer /\ Whole(job, next, queue, buffer, 0, TRUE)
  BY <1>3, <1>5, FailedBlock DEF Sound
<1>7. Turn(next, buffer, NoThread)
  BY <1>1 DEF ProcessFailed
<1>8. processing' = 0 /\ buffer' = buffer /\ owner' = NoThread /\ Assign(NoThread)
  BY <1>6, <1>7 DEF Turn
<1>n. NoThread \notin Thread
  BY SyncAssumption
<1>9. queue' = queue /\ \A s \in Thread : job'[s] = job[s]
  BY <1>8, <1>n DEF Assign
<1>10. Whole(job, next, queue, buffer, processing, rejected)'
  <2>1. Whole(job', next, queue, buffer, 0, TRUE)
    BY <1>6, <1>9 DEF Whole
  <2>2. QED
    BY <1>1, <1>8, <1>9, <2>1
<1>11. QED
  BY <1>1, <1>2, <1>3, <1>8, <1>n, <1>9, <1>10 DEF QuietInv, BatchInv, Sound

-----------------------------------------------------------------------------
(* The theorems. *)

LEMMA InvInit == Init => IInv
<1> SUFFICES ASSUME Init PROVE IInv
  OBVIOUS
<1>1. \A t \in Thread : job[t] = 0
  BY DEF Init
<1>2. QED
  BY <1>1, TypeInit DEF Init, IInv, ModesInv, QuietInv, BatchInv

LEMMA InvNext ==
    ASSUME IInv, [Next]_vars
    PROVE  IInv'
<1>1. TypeOK'
  BY TypeNext DEF IInv
<1>2. CASE ~listening'
  BY <1>1, <1>2, Over
<1>3. CASE listening'
  <2>1. ModesInv'
    BY <1>3, ModesNext
  <2>2. QuietInv' /\ BatchInv'
    BY <1>1, <1>3, Steps, KeptNext, ExitNext, StartNext, BatchNext, FetchedNext, ProcessedNext,
       FailedNext
  <2>3. QED
    BY <1>1, <2>1, <2>2 DEF IInv
<1>4. QED
  BY <1>2, <1>3

LEMMA Invariance == Spec => []IInv
<1>1. IInv /\ [Next]_vars => IInv'
  BY InvNext
<1>2. QED
  BY <1>1, InvInit, PTL DEF Spec

\* The type invariant of MultiThreadSync holds for any number of threads,
\* headers and faults.
THEOREM SyncTypes == Spec => []TypeOK
<1>1. IInv => TypeOK
  BY DEF IInv
<1>2. QED
  BY <1>1, Invariance, PTL

\* Whatever order the threads deliver in, the block the initial sync
\* processes (sync.ts processOrderedBlocks) is the one that follows the tip.
THEOREM SyncInOrder == Spec => []InOrder
<1>1. IInv => InOrder
  <2> SUFFICES ASSUME IInv, processing # 0, listening PROVE processing = tip + 1
    BY DEF InOrder
  <2>1. mt = "batch"
    BY NotInBatch
  <2>2. processing = next /\ ~rejected /\ next = tip + 1
    BY <2>1, InBatch DEF Sound, Whole
  <2>3. QED
    BY <2>2
<1>2. QED
  BY <1>1, Invariance, PTL

\* No height of a batch of the initial sync is lost or fetched twice between
\* the queue, the threads, the buffer and the processing loop (sync.ts).
THEOREM SyncAccounted == Spec => []Accounted
<1>1. IInv => Accounted
  <2> SUFFICES ASSUME IInv, mt = "batch", listening PROVE Accounted
    BY DEF Accounted
  <2>1. TypeOK /\ 0 < next /\ Whole(job, next, queue, buffer, processing, rejected)
    BY InBatch DEF IInv, Sound
  <2>2. QED
    BY <2>1, WholeAccounted DEF Accounted
<1>2. QED
  BY <1>1, Invariance, PTL
==============================================================================
