--------------------------- MODULE SyncElectionProofs ---------------------------
(***************************************************************************)
(* Proofs about SyncElection: types, and that no two running processes     *)
(* find that they are the syncing node, for any processes, expiry, stalls  *)
(* and faults; and, while everyone keeps up, that no two import and that   *)
(* the syncing node stays so until it ends.                                *)
(*                                                                         *)
(* The argument for the first: a running process finds that it is the syncing node only  *)
(* while the stored heartbeat has its name (Held).  Another's name is      *)
(* stored over it only by a registration that matches, and such a          *)
(* registration is due when the heartbeat has expired (Timed); what the    *)
(* syncing node read of its heartbeat is no younger than it (Aged).        *)
(*                                                                         *)
(* The argument for the others: a process that imports holds an unexpired  *)
(* heartbeat (Kept), so that no registration of another matches.  A tick   *)
(* waits for a turn of its loop, for its answer and for the registrations  *)
(* that are due, and one of them stores the heartbeat anew (Renewing): it  *)
(* is at most a tick old.                                                  *)
(***************************************************************************)
EXTENDS SyncElection, TLAPS

\* What p read, and the heartbeat still is, has its age; its owner may have
\* ended.
Read(p) ==
    answer[p].same =>
        /\ answer[p].age = beat.age
        /\ \/ answer[p].by = beat.by
           \/ beat.by = Gone /\ answer[p].by \notin {p, Nobody}

Aged(p) ==
    beat.by = p =>
        /\ seen[p].by = p => beat.age <= seen[p].age
        /\ answer[p].by = p => beat.age <= answer[p].age

Timed(p) ==
    \A r \in regs[p] :
        r.same /\ beat.by \notin {p, Nobody} => Expiry <= beat.age + r.due

Held(p) ==
    up[p] = "up" =>
        /\ IsSyncing(p, seen[p]) => beat.by = p
        /\ IsSyncing(p, answer[p]) => beat.by = p

Ended(p) == up[p] = "down" => seen[p] = None /\ answer[p] = NoAnswer /\ regs[p] = {}

Sound(p) == Read(p) /\ Aged(p) /\ Timed(p) /\ Held(p) /\ Ended(p)

IInv == TypeOK /\ \A p \in Process : Sound(p)

\* What p finds of itself: it imports once it found that it is the syncing node.
Knows(p) ==
    /\ flag[p] => importing[p]
    /\ was[p] => importing[p]
    /\ up[p] = "up" /\ IsSyncing(p, seen[p]) => importing[p]
    /\ up[p] = "down" => ~importing[p] /\ ~asked[p]

\* p is running and imports, or is about to.
Syncing(p) ==
    /\ up[p] \in {"up", "stopping"}
    /\ importing[p] \/ (asked[p] /\ IsSyncing(p, answer[p]))

\* The heartbeat of p is renewed in this tick, or will be.
Renewing(p) ==
    \/ beat.age = 0
    \/ asked[p] /\ answer[p].same
    \/ \E r \in regs[p] : r.due = 0 /\ r.same

Kept(p) ==
    stalls = 0 =>
        /\ Syncing(p) => IsSyncing(p, beat)
        /\ Syncing(p) /\ up[p] = "up" /\ turns[p] > 0 => Renewing(p)
        /\ flag[p] /\ asked[p] => IsSyncing(p, answer[p])
        /\ Syncing(p) /\ asked[p] => IsSyncing(p, answer[p])

KInv == IInv /\ \A p \in Process : Knows(p) /\ Kept(p)

-----------------------------------------------------------------------------
(* The operators. *)

LEMMA OlderBeat ==
    ASSUME NEW c \in Beat
    PROVE  /\ Older(c) \in Beat
           /\ Older(c).by = c.by
           /\ Older(c).age = IF c.by # Nobody /\ c.age < Expiry THEN c.age + 1 ELSE c.age
BY ElectionAssumption DEF Older, Beat

LEMMA OlderAnswer ==
    ASSUME NEW c \in Answer
    PROVE  /\ Older(c) \in Answer
           /\ Older(c).by = c.by
           /\ Older(c).same = c.same
           /\ Older(c).age = IF c.by # Nobody /\ c.age < Expiry THEN c.age + 1 ELSE c.age
BY ElectionAssumption DEF Older, Answer

LEMMA NearerRegistration ==
    ASSUME NEW r \in Registration
    PROVE  /\ Nearer(r) \in Registration
           /\ Nearer(r).same = r.same
           /\ Nearer(r).due = IF r.due > 0 THEN r.due - 1 ELSE r.due
BY ElectionAssumption DEF Nearer, Registration

LEMMA OutdatedAnswer ==
    ASSUME NEW c \in Answer
    PROVE  /\ Outdated(c) \in Answer /\ ~Outdated(c).same
           /\ Outdated(c).by = c.by /\ Outdated(c).age = c.age
BY DEF Outdated, Answer

LEMMA NoneTyped == None \in Beat /\ NoAnswer \in Answer
BY ElectionAssumption DEF None, NoAnswer, Beat, Answer

LEMMA OutdatedNone == Outdated(NoAnswer) = NoAnswer
<1>1. Outdated(NoAnswer) \in Answer /\ ~Outdated(NoAnswer).same
      /\ Outdated(NoAnswer).by = Nobody /\ Outdated(NoAnswer).age = 0
  BY OutdatedAnswer, NoneTyped DEF NoAnswer
<1>2. QED
  BY <1>1 DEF Answer, NoAnswer

LEMMA OutdatedRegistration ==
    ASSUME NEW r \in Registration
    PROVE  Outdated(r) \in Registration /\ ~Outdated(r).same
BY DEF Outdated, Registration

LEMMA DelayBounds ==
    ASSUME NEW p \in Process, NEW c
    PROVE  Delay(p, c) \in 0 .. Expiry
BY ElectionAssumption DEF Delay

-----------------------------------------------------------------------------
(* The types. *)

LEMMA TypeInit == Init => TypeOK
BY NoneTyped DEF Init, TypeOK

\* The registrations that remain, and the ones whose timer is cleared.
LEMMA TypeStopWorker ==
    ASSUME TypeOK, NEW p \in Process, StopWorker(p)
    PROVE  /\ up' \in [Process -> {"down", "up", "stopping", "resigned"}]
           /\ regs' \in [Process -> SUBSET Registration]
BY DEF TypeOK, StopWorker

LEMMA TypeStore ==
    ASSUME TypeOK, NEW b \in Beat, NEW p, NEW r, Store(b, p, r)
    PROVE  /\ beat' \in Beat /\ answer' \in [Process -> Answer]
           /\ regs' \in [Process -> SUBSET Registration]
<1>1. \A q \in Process : Outdated(answer[q]) \in Answer
  BY OutdatedAnswer DEF TypeOK
<1>2. \A q \in Process, s \in Registration : Outdated(s) \in Registration
  BY OutdatedRegistration
<1>3. \A q \in Process : regs[q] \subseteq Registration
  BY DEF TypeOK
<1>4. \A q \in Process :
         {Outdated(s) : s \in regs[q] \ (IF q = p THEN {r} ELSE {})} \subseteq Registration
  BY <1>2, <1>3
<1>5. QED
  BY <1>1, <1>4 DEF Store

LEMMA TypeAsk ==
    ASSUME TypeOK, NEW p \in Process, Ask(p)
    PROVE  TypeOK'
<1>1. [by |-> beat.by, age |-> beat.age, same |-> TRUE] \in Answer
  BY DEF TypeOK, Beat, Answer
<1>2. IsSyncing(p, seen[p]) \in BOOLEAN
  BY DEF IsSyncing
<1>3. QED
  BY <1>1, <1>2 DEF TypeOK, Ask

LEMMA TypeResume ==
    ASSUME TypeOK, NEW p \in Process, Resume(p)
    PROVE  TypeOK'
<1>1. answer[p] \in Answer
  BY DEF TypeOK
<1>2. [by |-> answer[p].by, age |-> answer[p].age] \in Beat
  BY <1>1 DEF Answer, Beat
<1>3. [due |-> Delay(p, answer[p]), same |-> answer[p].same] \in Registration
  BY <1>1, DelayBounds DEF Answer, Registration
<1>4. /\ IsSyncing(p, answer[p]) \in BOOLEAN
      /\ (importing[p] \/ (~was[p] /\ IsSyncing(p, answer[p]))) \in BOOLEAN
  BY DEF IsSyncing
<1>5. /\ beat' = beat /\ turns' = turns /\ stalls' = stalls /\ faults' = faults
      /\ asked' \in [Process -> BOOLEAN] /\ was' \in [Process -> BOOLEAN]
      /\ answer' \in [Process -> Answer] /\ seen' \in [Process -> Beat]
      /\ flag' \in [Process -> BOOLEAN]
  BY <1>2, <1>4, NoneTyped DEF TypeOK, Resume
<1>6. /\ up' \in [Process -> {"down", "up", "stopping", "resigned"}]
      /\ regs' \in [Process -> SUBSET Registration]
      /\ importing' \in [Process -> BOOLEAN]
  <2>1. CASE RenewalFails(p)
    BY <2>1, TypeStopWorker DEF Resume, TypeOK
  <2>2. CASE ~RenewalFails(p)
    <3>1. regs' \in [Process -> SUBSET Registration]
      BY <2>2, <1>3 DEF Resume, TypeOK
    <3>2. importing' \in [Process -> BOOLEAN] /\ up' = up
      BY <2>2, <1>4 DEF Resume, TypeOK
    <3>3. QED
      BY <3>1, <3>2 DEF TypeOK
  <2>3. QED
    BY <2>1, <2>2
<1>7. QED
  BY <1>5, <1>6 DEF TypeOK

LEMMA TypeNominate ==
    ASSUME TypeOK, NEW p \in Process, NEW r, Nominate(p, r)
    PROVE  TypeOK'
<1>1. [by |-> p, age |-> 0] \in Beat
  BY ElectionAssumption DEF Beat
<1>2. /\ beat' \in Beat /\ answer' \in [Process -> Answer]
      /\ regs' \in [Process -> SUBSET Registration]
  <2>1. CASE Matches(r)
    BY <2>1, <1>1, TypeStore DEF Nominate
  <2>2. CASE ~Matches(r)
    BY <2>2 DEF Nominate, TypeOK
  <2>3. QED
    BY <2>1, <2>2
<1>3. QED
  BY <1>2 DEF TypeOK, Nominate

LEMMA TypeResign ==
    ASSUME TypeOK, NEW p \in Process, Resign(p)
    PROVE  TypeOK'
<1>1. /\ beat' \in Beat /\ answer' \in [Process -> Answer]
      /\ regs' \in [Process -> SUBSET Registration]
  <2>1. CASE Store(None, Nobody, NoAnswer)
    BY <2>1, TypeStore, NoneTyped
  <2>2. CASE UNCHANGED <<beat, answer, regs>>
    BY <2>2 DEF TypeOK
  <2>3. QED
    BY <2>1, <2>2 DEF Resign
<1>2. QED
  BY <1>1 DEF TypeOK, Resign

LEMMA TypeExit ==
    ASSUME TypeOK, NEW p \in Process, Exit(p)
    PROVE  TypeOK'
<1>1. beat' \in Beat
  BY DEF TypeOK, Exit, Beat
<1>2. faults' \in Nat
  BY DEF TypeOK, Exit, Fault
<1>3. regs' \in [Process -> SUBSET Registration]
  BY DEF TypeOK, Exit
<1>4. QED
  BY <1>1, <1>2, <1>3, NoneTyped DEF TypeOK, Exit

LEMMA TypePass ==
    ASSUME TypeOK, Pass, stalls' \in Nat
    PROVE  TypeOK'
<1>1. beat' \in Beat /\ seen' \in [Process -> Beat]
  BY OlderBeat DEF TypeOK, Pass
<1>2. answer' \in [Process -> Answer]
  BY OlderAnswer DEF TypeOK, Pass
<1>3. \A p \in Process : {Nearer(r) : r \in regs[p]} \subseteq Registration
  <2>1. \A p \in Process : regs[p] \subseteq Registration
    BY DEF TypeOK
  <2>2. QED
    BY <2>1, NearerRegistration
<1>4. QED
  BY <1>1, <1>2, <1>3 DEF TypeOK, Pass

LEMMA TypeNext ==
    ASSUME TypeOK, [Next]_vars
    PROVE  TypeOK'
<1>1. CASE Tick \/ Stall
  BY <1>1, TypePass DEF Tick, Stall, TypeOK
<1>2. ASSUME NEW p \in Process, Start(p) PROVE TypeOK'
  BY <1>2 DEF Start, TypeOK
<1>3. ASSUME NEW p \in Process, Stop(p) PROVE TypeOK'
  <2>1. faults' \in Nat
    BY <1>3 DEF Stop, Fault, TypeOK
  <2>2. QED
    BY <2>1, <1>3, TypeStopWorker DEF Stop, TypeOK
<1>4. CASE UNCHANGED vars
  BY <1>4 DEF vars, TypeOK
<1>5. QED
  BY <1>1, <1>2, <1>3, <1>4, TypeAsk, TypeResume, TypeNominate, TypeResign, TypeExit
     DEF Next, Turn, Nomination

-----------------------------------------------------------------------------
(* What is sound of a process, step by step. *)

LEMMA SoundInit == Init => \A q \in Process : Sound(q)
BY ElectionAssumption
   DEF Init, Sound, Read, Aged, Timed, Held, Ended, IsSyncing, None, NoAnswer

LEMMA SoundPass ==
    ASSUME TypeOK, Pass, NEW q \in Process, Sound(q)
    PROVE  Sound(q)'
<1>1. /\ beat \in Beat /\ seen[q] \in Beat /\ answer[q] \in Answer
      /\ \A r \in regs[q] : r \in Registration
  BY DEF TypeOK
<1>2. /\ beat' = Older(beat) /\ seen'[q] = Older(seen[q]) /\ answer'[q] = Older(answer[q])
      /\ regs'[q] = {Nearer(r) : r \in regs[q]} /\ up'[q] = up[q]
  BY DEF Pass, TypeOK
<1>3. /\ beat.age \in 0 .. Expiry /\ seen[q].age \in 0 .. Expiry /\ answer[q].age \in 0 .. Expiry
      /\ Expiry \in Nat /\ q # Nobody /\ Gone # Nobody
  BY <1>1, ElectionAssumption DEF Beat, Answer
<1>4. /\ beat'.by = beat.by /\ seen'[q].by = seen[q].by /\ answer'[q].by = answer[q].by
      /\ answer'[q].same = answer[q].same
      /\ beat'.age = IF beat.by # Nobody /\ beat.age < Expiry THEN beat.age + 1 ELSE beat.age
      /\ seen'[q].age =
            IF seen[q].by # Nobody /\ seen[q].age < Expiry THEN seen[q].age + 1 ELSE seen[q].age
      /\ answer'[q].age =
            IF answer[q].by # Nobody /\ answer[q].age < Expiry
            THEN answer[q].age + 1 ELSE answer[q].age
  BY <1>1, <1>2, OlderBeat, OlderAnswer
<1>5. Read(q)'
  BY <1>3, <1>4 DEF Sound, Read
<1>6. Aged(q)'
  BY <1>3, <1>4 DEF Sound, Aged
<1>7. Timed(q)'
  <2> SUFFICES ASSUME NEW s \in regs'[q], s.same, beat'.by \notin {q, Nobody}
               PROVE  Expiry <= beat'.age + s.due
    BY DEF Timed
  <2>1. PICK r \in regs[q] : s = Nearer(r)
    BY <1>2
  <2>2. r \in Registration /\ s.same = r.same /\ s.due = IF r.due > 0 THEN r.due - 1 ELSE r.due
    BY <1>1, <2>1, NearerRegistration
  <2>3. Expiry <= beat.age + r.due /\ beat.by # Nobody
    BY <1>4, <2>2 DEF Sound, Timed
  <2>4. r.due \in 0 .. Expiry
    BY <2>2 DEF Registration
  <2>5. QED
    BY <1>3, <1>4, <2>2, <2>3, <2>4
<1>8. Held(q)'
  BY <1>2, <1>3, <1>4 DEF Sound, Held, IsSyncing
<1>9. Ended(q)'
  <2>1. up[q] = "down" => Older(None) = None /\ Older(NoAnswer) = NoAnswer
    BY DEF Older, None, NoAnswer
  <2>2. QED
    BY <1>2, <2>1 DEF Sound, Ended
<1>10. QED
  BY <1>5, <1>6, <1>7, <1>8, <1>9 DEF Sound

\* A heartbeat is stored while q is not the syncing node by another's name.
LEMMA SoundStore ==
    ASSUME TypeOK, NEW q \in Process, Sound(q), NEW b \in Beat, NEW p, NEW r, Store(b, p, r),
           up' = up, seen' = seen,
           b.by = q => b.age = 0,
           up[q] = "up" /\ (IsSyncing(q, seen[q]) \/ IsSyncing(q, answer[q])) => b.by = q
    PROVE  Sound(q)'
<1>1. /\ beat' = b /\ answer'[q] = Outdated(answer[q])
      /\ regs'[q] = {Outdated(s) : s \in regs[q] \ (IF q = p THEN {r} ELSE {})}
  BY DEF Store
<1>2. answer[q] \in Answer /\ seen[q] \in Beat /\ regs[q] \subseteq Registration
  BY DEF TypeOK
<1>3. /\ ~answer'[q].same /\ answer'[q].by = answer[q].by /\ answer'[q].age = answer[q].age
      /\ \A s \in regs'[q] : ~s.same
  BY <1>1, <1>2, OutdatedAnswer, OutdatedRegistration
<1>4. Read(q)' /\ Timed(q)'
  BY <1>3 DEF Read, Timed
<1>5. Aged(q)'
  <2>1. seen[q].age \in 0 .. Expiry /\ answer[q].age \in 0 .. Expiry
    BY <1>2 DEF Beat, Answer
  <2>2. QED
    BY <1>1, <1>3, <2>1 DEF Aged
<1>6. Held(q)'
  BY <1>1, <1>3 DEF Held, IsSyncing
<1>7. Ended(q)'
  <2>1. Outdated(NoAnswer) = NoAnswer
    BY OutdatedNone
  <2>2. QED
    BY <1>1, <2>1 DEF Sound, Ended
<1>8. QED
  BY <1>4, <1>5, <1>6, <1>7 DEF Sound

\* A registration of another process that matches finds q's heartbeat expired.
LEMMA SoundNominate ==
    ASSUME IInv, NEW p \in Process, NEW r, Nominate(p, r), NEW q \in Process
    PROVE  Sound(q)'
<1>1. TypeOK /\ Sound(q) /\ Sound(p) /\ up' = up /\ seen' = seen /\ r \in regs[p] /\ r.due = 0
  BY DEF IInv, Nominate
<1>2. CASE Matches(r)
  <2> DEFINE b == [by |-> p, age |-> 0]
  <2>1. b \in Beat /\ Store(b, p, r)
    BY <1>2, ElectionAssumption DEF Beat, Nominate
  <2>2. ASSUME up[q] = "up", IsSyncing(q, seen[q]) \/ IsSyncing(q, answer[q]), q # p
        PROVE  FALSE
    <3>1. beat.by = q
      BY <1>1, <2>2 DEF Sound, Held
    <3>2. r.same
      BY <1>2, <3>1, ElectionAssumption DEF Matches
    <3>3. Expiry <= beat.age + r.due
      BY <1>1, <2>2, <3>1, <3>2, ElectionAssumption DEF Sound, Timed
    <3>4. /\ beat.age \in 0 .. Expiry /\ seen[q].age \in 0 .. Expiry
          /\ answer[q].age \in 0 .. Expiry /\ Expiry \in Nat
      BY <1>1, ElectionAssumption DEF TypeOK, Beat, Answer
    <3>5. /\ seen[q].by = q => beat.age <= seen[q].age
          /\ answer[q].by = q => beat.age <= answer[q].age
      BY <1>1, <3>1 DEF Sound, Aged
    <3>6. QED
      BY <1>1, <2>2, <3>3, <3>4, <3>5 DEF IsSyncing
  <2>3. QED
    BY <1>1, <2>1, <2>2, SoundStore
<1>3. CASE ~Matches(r)
  <2>1. beat' = beat /\ answer' = answer /\ regs'[q] \subseteq regs[q]
    BY <1>1, <1>3 DEF Nominate, TypeOK
  <2>2. QED
    BY <1>1, <2>1 DEF Sound, Read, Aged, Timed, Held, Ended, IsSyncing
<1>4. QED
  BY <1>2, <1>3

LEMMA SoundResign ==
    ASSUME IInv, NEW p \in Process, Resign(p), NEW q \in Process
    PROVE  Sound(q)'
<1>1. /\ TypeOK /\ Sound(q) /\ up'[q] = (IF q = p THEN "resigned" ELSE up[q])
      /\ seen'[q] = (IF q = p THEN beat ELSE seen[q])
  BY DEF IInv, Resign, TypeOK
<1>2. beat \in Beat /\ answer[q] \in Answer /\ regs[q] \subseteq Registration
  BY <1>1 DEF TypeOK
<1>3. CASE UNCHANGED <<beat, answer, regs>>
  <2>1. beat.age <= beat.age
    BY <1>2 DEF Beat
  <2>2. QED
    BY <1>1, <1>3, <2>1 DEF Sound, Read, Aged, Timed, Held, Ended, IsSyncing
<1>4. CASE IsSyncing(p, beat) /\ Store(None, Nobody, NoAnswer)
  <2>1. /\ beat' = None /\ answer'[q] = Outdated(answer[q])
        /\ \A s \in regs'[q] : \E t \in regs[q] : s = Outdated(t)
    BY <1>4 DEF Store
  <2>2. /\ ~answer'[q].same /\ answer'[q].by = answer[q].by /\ answer'[q].age = answer[q].age
        /\ \A s \in regs'[q] : ~s.same
    BY <1>2, <2>1, OutdatedAnswer, OutdatedRegistration
  <2>3. Read(q)' /\ Timed(q)'
    BY <2>2 DEF Read, Timed
  <2>4. Aged(q)'
    BY <2>1, ElectionAssumption DEF Aged, None
  <2>5. Held(q)'
    <3>1. q # p => beat.by # q
      BY <1>4 DEF IsSyncing
    <3>2. QED
      BY <1>1, <2>2, <3>1 DEF Sound, Held, IsSyncing
  <2>6. Ended(q)'
    <3>1. Outdated(NoAnswer) = NoAnswer
      BY OutdatedNone
    <3>2. regs[q] = {} => regs'[q] = {}
      BY <2>1
    <3>3. QED
      BY <1>1, <2>1, <3>1, <3>2 DEF Sound, Ended
  <2>7. QED
    BY <2>3, <2>4, <2>5, <2>6 DEF Sound
<1>5. QED
  BY <1>3, <1>4 DEF Resign

\* Only the process that ends leaves a heartbeat nobody has the name of.
LEMMA SoundExit ==
    ASSUME IInv, NEW p \in Process, Exit(p), NEW q \in Process
    PROVE  Sound(q)'
<1>1. TypeOK /\ Sound(q) /\ beat \in Beat /\ Gone # Nobody /\ q \notin {Nobody, Gone}
  BY ElectionAssumption DEF IInv, TypeOK
<1>2. /\ beat'.age = beat.age
      /\ beat'.by = beat.by \/ (beat.by = p /\ beat'.by = Gone)
  BY <1>1 DEF Exit, Beat
<1>3. CASE q = p
  <2>1. up'[q] = "down" /\ seen'[q] = None /\ answer'[q] = NoAnswer /\ regs'[q] = {}
    BY <1>1, <1>3 DEF Exit, TypeOK
  <2>2. QED
    BY <1>1, <2>1
       DEF Sound, Read, Aged, Timed, Held, Ended, None, NoAnswer
<1>4. CASE q # p
  <2>1. up'[q] = up[q] /\ seen'[q] = seen[q] /\ answer'[q] = answer[q] /\ regs'[q] = regs[q]
    BY <1>1, <1>4 DEF Exit, TypeOK
  <2>2. Read(q)'
    BY <1>1, <1>2, <1>4, <2>1, ElectionAssumption DEF Sound, Read
  <2>3. Aged(q)'
    BY <1>1, <1>2, <2>1 DEF Sound, Aged
  <2>4. Timed(q)'
    BY <1>1, <1>2, <1>4, <2>1, ElectionAssumption DEF Sound, Timed
  <2>5. Held(q)' /\ Ended(q)'
    BY <1>1, <1>2, <1>4, <2>1 DEF Sound, Held, Ended, IsSyncing
  <2>6. QED
    BY <2>2, <2>3, <2>4, <2>5 DEF Sound
<1>5. QED
  BY <1>3, <1>4

LEMMA SoundAsk ==
    ASSUME IInv, NEW p \in Process, Ask(p), NEW q \in Process
    PROVE  Sound(q)'
<1>1. /\ TypeOK /\ Sound(q) /\ beat' = beat /\ up' = up /\ seen' = seen /\ regs' = regs
      /\ beat \in Beat
  BY DEF IInv, Ask, TypeOK
<1>2. CASE q # p
  <2>1. answer'[q] = answer[q]
    BY <1>1, <1>2 DEF Ask, TypeOK
  <2>2. QED
    BY <1>1, <2>1 DEF Sound, Read, Aged, Timed, Held, Ended, IsSyncing
<1>3. CASE q = p
  <2>1. /\ answer'[q].by = beat.by /\ answer'[q].age = beat.age /\ up[q] = "up"
        /\ beat.age <= beat.age
    BY <1>1, <1>3 DEF Ask, TypeOK, Beat
  <2>2. QED
    BY <1>1, <2>1 DEF Sound, Read, Aged, Timed, Held, Ended, IsSyncing
<1>4. QED
  BY <1>2, <1>3

LEMMA SoundStopWorker ==
    ASSUME IInv, NEW p \in Process, StopWorker(p), beat' = beat, NEW q \in Process,
           answer'[q] = answer[q] \/ answer'[q] = NoAnswer,
           seen'[q] = seen[q] \/ seen'[q] = [by |-> answer[q].by, age |-> answer[q].age],
           q # p => answer'[q] = answer[q] /\ seen'[q] = seen[q]
    PROVE  Sound(q)'
<1>1. TypeOK /\ Sound(q) /\ q # Nobody
  BY ElectionAssumption DEF IInv
<1>2. regs'[q] \subseteq regs[q] /\ up'[q] = IF q = p THEN "stopping" ELSE up[q]
  BY <1>1 DEF StopWorker, TypeOK
<1>3. Read(q)' /\ Aged(q)'
  BY <1>1 DEF Sound, Read, Aged, NoAnswer
<1>4. Timed(q)'
  BY <1>1, <1>2 DEF Sound, Timed
<1>5. Held(q)'
  BY <1>1, <1>2 DEF Sound, Held, IsSyncing
<1>6. Ended(q)'
  BY <1>1, <1>2 DEF Sound, Ended
<1>7. QED
  BY <1>3, <1>4, <1>5, <1>6 DEF Sound

LEMMA SoundResume ==
    ASSUME IInv, NEW p \in Process, Resume(p), NEW q \in Process
    PROVE  Sound(q)'
<1>1. /\ TypeOK /\ Sound(q) /\ q # Nobody /\ beat' = beat
      /\ answer'[q] = (IF q = p THEN NoAnswer ELSE answer[q])
      /\ seen'[q] = IF q = p THEN [by |-> answer[q].by, age |-> answer[q].age] ELSE seen[q]
  BY ElectionAssumption DEF IInv, Resume, TypeOK
<1>2. CASE RenewalFails(p)
  BY <1>1, <1>2, SoundStopWorker DEF Resume
<1>3. CASE ~RenewalFails(p)
  <2> DEFINE r == [due |-> Delay(p, answer[p]), same |-> answer[p].same]
  <2>1. /\ up' = up
        /\ \A s \in regs'[q] : s \in regs[q] \/ (q = p /\ s = r)
    BY <1>1, <1>3 DEF Resume, TypeOK
  <2>2. q = p => up[q] # "down"
    BY DEF Resume
  <2>3. Read(q)' /\ Aged(q)'
    BY <1>1 DEF Sound, Read, Aged, NoAnswer
  <2>4. Timed(q)'
    <3> SUFFICES ASSUME q = p, answer[q].same, beat.by \notin {q, Nobody}
                 PROVE  Expiry <= beat.age + Delay(q, answer[q])
      BY <1>1, <2>1 DEF Sound, Timed
    <3>1. answer[q].by \notin {q, Nobody}
      BY <1>1 DEF Sound, Read
    <3>2. Delay(q, answer[q]) = Expiry
      BY <3>1 DEF Delay, IsSyncing
    <3>3. beat.age \in Nat /\ Expiry \in Nat
      BY <1>1, ElectionAssumption DEF TypeOK, Beat
    <3>4. QED
      BY <3>2, <3>3
  <2>5. Held(q)'
    BY <1>1, <2>1 DEF Sound, Held, IsSyncing, NoAnswer
  <2>6. Ended(q)'
    BY <1>1, <2>1, <2>2 DEF Sound, Ended
  <2>7. QED
    BY <2>3, <2>4, <2>5, <2>6 DEF Sound
<1>4. QED
  BY <1>2, <1>3

LEMMA SoundStart ==
    ASSUME IInv, NEW p \in Process, Start(p), NEW q \in Process
    PROVE  Sound(q)'
<1>1. /\ TypeOK /\ Sound(q) /\ q # Nobody
      /\ beat' = beat /\ seen' = seen /\ answer' = answer /\ regs' = regs
      /\ up'[q] = IF q = p THEN "up" ELSE up[q]
  BY ElectionAssumption DEF IInv, Start, TypeOK
<1>2. q = p => up[q] = "down"
  BY DEF Start
<1>3. QED
  BY <1>1, <1>2 DEF Sound, Read, Aged, Timed, Held, Ended, IsSyncing, None, NoAnswer

LEMMA SoundNext ==
    ASSUME IInv, [Next]_vars, NEW q \in Process
    PROVE  Sound(q)'
<1>1. TypeOK /\ Sound(q)
  BY DEF IInv
<1>2. CASE Tick \/ Stall
  BY <1>1, <1>2, SoundPass DEF Tick, Stall
<1>3. ASSUME NEW p \in Process, Stop(p) PROVE Sound(q)'
  BY <1>3, SoundStopWorker DEF Stop
<1>4. CASE UNCHANGED vars
  BY <1>1, <1>4 DEF vars, Sound, Read, Aged, Timed, Held, Ended, IsSyncing
<1>5. QED
  BY <1>2, <1>3, <1>4, SoundStart, SoundAsk, SoundResume, SoundNominate, SoundResign, SoundExit
     DEF Next, Turn, Nomination

LEMMA Invariance == Spec => []IInv
<1>1. Init => IInv
  BY TypeInit, SoundInit DEF IInv
<1>2. IInv /\ [Next]_vars => IInv'
  BY TypeNext, SoundNext DEF IInv
<1>3. QED
  BY <1>1, <1>2, PTL DEF Spec

-----------------------------------------------------------------------------
(* While everyone keeps up. *)

\* While q has an unexpired heartbeat no registration of another matches.
LEMMA Unmatched ==
    ASSUME IInv, NEW q \in Process, IsSyncing(q, beat),
           NEW p \in Process, p # q, NEW r \in regs[p], r.due = 0
    PROVE  ~Matches(r)
<1>1. beat.by = q /\ beat.age < Expiry /\ q # Nobody /\ Timed(p)
  BY ElectionAssumption DEF IsSyncing, IInv, Sound
<1>2. beat.age \in Nat /\ Expiry \in Nat
  BY ElectionAssumption DEF IInv, TypeOK, Beat
<1>3. r.same => Expiry <= beat.age
  BY <1>1, <1>2 DEF Timed
<1>4. QED
  BY <1>1, <1>2, <1>3 DEF Matches

\* A step that takes nothing of q's, and of its heartbeat only when it has none.
LEMMA KeptStays ==
    ASSUME NEW q \in Process, Knows(q), Kept(q),
           up'[q] = up[q], seen'[q] = seen[q], flag'[q] = flag[q],
           importing'[q] = importing[q], asked'[q] = asked[q], was'[q] = was[q],
           turns'[q] = turns[q], stalls' = stalls,
           answer'[q].by = answer[q].by, answer'[q].age = answer[q].age,
           stalls = 0 /\ Syncing(q) =>
               beat' = beat /\ answer'[q] = answer[q] /\ regs'[q] = regs[q]
    PROVE  Knows(q)' /\ Kept(q)'
<1>1. IsSyncing(q, answer[q])' = IsSyncing(q, answer[q])
      /\ IsSyncing(q, seen[q])' = IsSyncing(q, seen[q])
  BY DEF IsSyncing
<1>2. Knows(q)'
  BY <1>1 DEF Knows
<1>3. Syncing(q)' = Syncing(q)
  BY <1>1 DEF Syncing
<1>4. stalls = 0 /\ Syncing(q) =>
         IsSyncing(q, beat)' = IsSyncing(q, beat) /\ Renewing(q)' = Renewing(q)
  BY DEF IsSyncing, Renewing
<1>5. QED
  BY <1>1, <1>2, <1>3, <1>4 DEF Kept

LEMMA KnowsInit == Init => \A q \in Process : Knows(q) /\ Kept(q)
<1> SUFFICES ASSUME Init, NEW q \in Process PROVE Knows(q) /\ Kept(q)
  OBVIOUS
<1>1. /\ up[q] = "down" /\ ~flag[q] /\ ~importing[q] /\ ~asked[q] /\ ~was[q]
  BY DEF Init
<1>2. QED
  BY <1>1 DEF Knows, Kept, Syncing

LEMMA KnowsStart ==
    ASSUME KInv, NEW p \in Process, Start(p), NEW q \in Process
    PROVE  Knows(q)' /\ Kept(q)'
<1>1. TypeOK /\ Knows(q) /\ Kept(q) /\ Ended(q) /\ q # Nobody
  BY ElectionAssumption DEF KInv, IInv, Sound
<1>2. CASE q = p
  <2>1. /\ up[q] = "down" /\ seen'[q] = None /\ seen[q] = None
        /\ flag'[q] = flag[q] /\ was'[q] = was[q]
        /\ importing'[q] = importing[q] /\ asked'[q] = asked[q]
    BY <1>1, <1>2 DEF Start, Ended
  <2>2. ~importing'[q] /\ ~asked'[q] /\ ~flag'[q] /\ ~was'[q]
    BY <1>1, <2>1 DEF Knows
  <2>3. ~IsSyncing(q, seen[q])'
    BY <1>1, <2>1 DEF IsSyncing, None
  <2>4. QED
    BY <2>2, <2>3 DEF Knows, Kept, Syncing
<1>3. CASE q # p
  BY <1>1, <1>3, KeptStays DEF Start, TypeOK
<1>4. QED
  BY <1>2, <1>3

LEMMA KnowsAsk ==
    ASSUME KInv, NEW p \in Process, Ask(p), NEW q \in Process
    PROVE  Knows(q)' /\ Kept(q)'
<1>1. TypeOK /\ Knows(q) /\ Kept(q)
  BY DEF KInv, IInv
<1>2. CASE q # p
  BY <1>1, <1>2, KeptStays DEF Ask, TypeOK
<1>3. CASE q = p
  <2>1. /\ up[q] = "up" /\ up'[q] = "up" /\ ~asked[q] /\ asked'[q]
        /\ was'[q] = IsSyncing(q, seen[q]) /\ stalls' = stalls /\ beat' = beat
        /\ answer'[q] = [by |-> beat.by, age |-> beat.age, same |-> TRUE]
        /\ seen'[q] = seen[q] /\ flag'[q] = flag[q] /\ importing'[q] = importing[q]
    BY <1>1, <1>3 DEF Ask, TypeOK
  <2>2. Knows(q)'
    BY <1>1, <2>1 DEF Knows, IsSyncing
  <2>3. /\ IsSyncing(q, answer[q])' = IsSyncing(q, beat)
        /\ IsSyncing(q, beat)' = IsSyncing(q, beat)
    BY <2>1 DEF IsSyncing
  <2>4. Renewing(q)'
    BY <2>1 DEF Renewing
  <2>5. stalls = 0 /\ importing[q] => IsSyncing(q, beat)
    BY <1>1, <2>1 DEF Kept, Syncing
  <2>6. flag[q] => importing[q]
    BY <1>1 DEF Knows
  <2>7. stalls = 0 /\ Syncing(q)' => IsSyncing(q, beat)
    BY <2>1, <2>3, <2>5 DEF Syncing
  <2>8. Kept(q)'
    BY <2>1, <2>3, <2>4, <2>5, <2>6, <2>7 DEF Kept
  <2>9. QED
    BY <2>2, <2>8
<1>4. QED
  BY <1>2, <1>3

\* The answer p acts on: while everyone keeps up it never fails to renew.
LEMMA KnowsResume ==
    ASSUME KInv, NEW p \in Process, Resume(p), NEW q \in Process
    PROVE  Knows(q)' /\ Kept(q)'
<1>1. TypeOK /\ Knows(q) /\ Kept(q) /\ Read(q)
  BY DEF KInv, IInv, Sound
<1>2. CASE q # p
  <2>1. /\ answer'[q] = answer[q] /\ seen'[q] = seen[q] /\ flag'[q] = flag[q]
        /\ asked'[q] = asked[q] /\ was'[q] = was[q] /\ beat' = beat
        /\ turns' = turns /\ stalls' = stalls
    BY <1>1, <1>2 DEF Resume, TypeOK
  <2>2. up'[q] = up[q] /\ importing'[q] = importing[q] /\ regs'[q] = regs[q]
    BY <1>1, <1>2 DEF Resume, StopWorker, TypeOK
  <2>3. QED
    BY <1>1, <2>1, <2>2, KeptStays
<1>3. CASE q = p
  <2>1. /\ answer[q] \in Answer /\ up[q] # "down" /\ asked[q] /\ ~asked'[q] /\ ~was'[q]
        /\ seen'[q] = [by |-> answer[q].by, age |-> answer[q].age]
        /\ flag'[q] = IsSyncing(q, answer[q])
        /\ beat' = beat /\ turns' = turns /\ stalls' = stalls
    BY <1>1, <1>3 DEF Resume, TypeOK
  <2>2. /\ IsSyncing(q, seen[q])' = IsSyncing(q, answer[q])
        /\ IsSyncing(q, beat)' = IsSyncing(q, beat)
    BY <2>1 DEF IsSyncing
  <2>3. CASE RenewalFails(p)
    <3>1. /\ importing'[q] = importing[q] /\ up[q] = "up" /\ up'[q] = "stopping"
          /\ ~IsSyncing(q, answer[q]) /\ importing[q]
      BY <1>1, <1>3, <2>1, <2>3 DEF Resume, StopWorker, RenewalFails, TypeOK, Knows
    <3>2. Knows(q)'
      BY <2>1, <3>1 DEF Knows
    <3>3. stalls # 0
      BY <1>1, <2>1, <3>1 DEF Kept, Syncing
    <3>4. QED
      BY <2>1, <3>2, <3>3 DEF Kept
  <2>4. CASE ~RenewalFails(p)
    <3> DEFINE n == [due |-> Delay(q, answer[q]), same |-> answer[q].same]
    <3>1. /\ importing'[q] = (importing[q] \/ (~was[q] /\ IsSyncing(q, answer[q])))
          /\ up'[q] = up[q]
      BY <1>1, <1>3, <2>4 DEF Resume, TypeOK
    <3>2. regs'[q] = regs[q] \cup {n}
      BY <1>1, <1>3, <2>4 DEF Resume, TypeOK
    <3>3. importing'[q] <=> importing[q] \/ IsSyncing(q, answer[q])
      BY <1>1, <3>1 DEF Knows
    <3>4. Knows(q)'
      BY <2>1, <2>2, <3>1, <3>3 DEF Knows
    <3>5. Syncing(q)' => Syncing(q)
      BY <2>1, <3>1, <3>3 DEF Syncing
    <3>6. ASSUME stalls = 0, Syncing(q) PROVE IsSyncing(q, answer[q])
      BY <1>1, <2>1, <3>6 DEF Kept
    <3>7. ASSUME stalls = 0, Syncing(q), Renewing(q) PROVE Renewing(q)'
      <4>1. CASE beat.age = 0
        BY <2>1, <4>1 DEF Renewing
      <4>2. CASE asked[q] /\ answer[q].same
        <5>1. n.due = 0 /\ n.same
          BY <3>6, <3>7, <4>2 DEF Delay
        <5>2. QED
          BY <3>2, <5>1 DEF Renewing
      <4>3. CASE \E r \in regs[q] : r.due = 0 /\ r.same
        BY <3>2, <4>3 DEF Renewing
      <4>4. QED
        BY <3>7, <4>1, <4>2, <4>3 DEF Renewing
    <3>8. Kept(q)'
      BY <1>1, <2>1, <2>2, <3>1, <3>5, <3>7 DEF Kept
    <3>9. QED
      BY <3>4, <3>8
  <2>5. QED
    BY <2>3, <2>4
<1>4. QED
  BY <1>2, <1>3

\* A heartbeat is stored that is p's, or while no other has an unexpired one.
LEMMA KnowsNominate ==
    ASSUME KInv, NEW p \in Process, NEW r, Nominate(p, r), NEW q \in Process
    PROVE  Knows(q)' /\ Kept(q)'
<1>1. /\ TypeOK /\ IInv /\ Knows(q) /\ Kept(q) /\ r \in regs[p] /\ r.due = 0
      /\ up' = up /\ seen' = seen /\ flag' = flag /\ importing' = importing
      /\ asked' = asked /\ was' = was /\ turns' = turns /\ stalls' = stalls
      /\ answer[q] \in Answer
  BY DEF KInv, IInv, Nominate, TypeOK
<1>2. CASE Matches(r)
  <2>1. /\ beat' = [by |-> p, age |-> 0] /\ answer'[q] = Outdated(answer[q])
    BY <1>2 DEF Nominate, Store
  <2>2. answer'[q].by = answer[q].by /\ answer'[q].age = answer[q].age
    BY <1>1, <2>1, OutdatedAnswer
  <2>3. CASE q = p
    <3>1. /\ IsSyncing(q, answer[q])' = IsSyncing(q, answer[q])
          /\ IsSyncing(q, seen[q])' = IsSyncing(q, seen[q])
      BY <1>1, <2>2 DEF IsSyncing
    <3>2. IsSyncing(q, beat)' /\ Renewing(q)'
      BY <2>1, <2>3, ElectionAssumption DEF IsSyncing, Renewing
    <3>3. Knows(q)'
      BY <1>1, <3>1 DEF Knows
    <3>4. Syncing(q)' = Syncing(q)
      BY <1>1, <3>1 DEF Syncing
    <3>5. Kept(q)'
      BY <1>1, <3>1, <3>2, <3>4 DEF Kept
    <3>6. QED
      BY <3>3, <3>5
  <2>4. CASE q # p
    <3>1. stalls = 0 => ~Syncing(q)
      BY <1>1, <1>2, <2>4, Unmatched DEF Kept
    <3>2. QED
      BY <1>1, <2>2, <3>1, KeptStays
  <2>5. QED
    BY <2>3, <2>4
<1>3. CASE ~Matches(r)
  <2>1. beat' = beat /\ answer' = answer
        /\ regs'[q] = (IF q = p THEN regs[q] \ {r} ELSE regs[q])
    BY <1>1, <1>3 DEF Nominate, TypeOK
  <2>2. Renewing(q) => Renewing(q)'
    BY <1>1, <1>3, <2>1 DEF Renewing, Matches
  <2>3. /\ IsSyncing(q, answer[q])' = IsSyncing(q, answer[q])
        /\ IsSyncing(q, seen[q])' = IsSyncing(q, seen[q])
        /\ IsSyncing(q, beat)' = IsSyncing(q, beat)
    BY <1>1, <2>1 DEF IsSyncing
  <2>4. Syncing(q)' = Syncing(q) /\ Knows(q)'
    BY <1>1, <2>3 DEF Syncing, Knows
  <2>5. Kept(q)'
    BY <1>1, <2>2, <2>3, <2>4 DEF Kept
  <2>6. QED
    BY <2>4, <2>5
<1>4. QED
  BY <1>2, <1>3

LEMMA KnowsStop ==
    ASSUME KInv, NEW p \in Process, Stop(p), NEW q \in Process
    PROVE  Knows(q)' /\ Kept(q)'
<1>1. /\ TypeOK /\ Knows(q) /\ Kept(q)
      /\ beat' = beat /\ seen' = seen /\ flag' = flag /\ importing' = importing
      /\ asked' = asked /\ was' = was /\ turns' = turns /\ stalls' = stalls
      /\ answer' = answer
  BY DEF KInv, IInv, Stop
<1>2. CASE q # p
  <2>1. up'[q] = up[q] /\ regs'[q] = regs[q]
    BY <1>1, <1>2 DEF Stop, StopWorker, TypeOK
  <2>2. QED
    BY <1>1, <2>1, KeptStays
<1>3. CASE q = p
  <2>1. up[q] = "up" /\ up'[q] = "stopping"
    BY <1>1, <1>3 DEF Stop, StopWorker, TypeOK
  <2>2. /\ IsSyncing(q, answer[q])' = IsSyncing(q, answer[q])
        /\ IsSyncing(q, beat)' = IsSyncing(q, beat)
    BY <1>1 DEF IsSyncing
  <2>3. Syncing(q)' => Syncing(q)
    BY <1>1, <2>1, <2>2 DEF Syncing
  <2>4. Knows(q)'
    BY <1>1, <2>1 DEF Knows
  <2>5. Kept(q)'
    BY <1>1, <2>1, <2>2, <2>3 DEF Kept
  <2>6. QED
    BY <2>4, <2>5
<1>4. QED
  BY <1>2, <1>3

LEMMA KnowsResign ==
    ASSUME KInv, NEW p \in Process, Resign(p), NEW q \in Process
    PROVE  Knows(q)' /\ Kept(q)'
<1>1. /\ TypeOK /\ Knows(q) /\ Kept(q) /\ answer[q] \in Answer
      /\ flag' = flag /\ importing' = importing
      /\ asked' = asked /\ was' = was /\ turns' = turns /\ stalls' = stalls
      /\ up'[q] = (IF q = p THEN "resigned" ELSE up[q])
      /\ q # p => seen'[q] = seen[q]
  BY DEF KInv, IInv, Resign, TypeOK
<1>2. answer'[q].by = answer[q].by /\ answer'[q].age = answer[q].age
  <2>1. CASE Store(None, Nobody, NoAnswer)
    BY <1>1, <2>1, OutdatedAnswer DEF Store
  <2>2. CASE UNCHANGED <<beat, answer, regs>>
    BY <2>2
  <2>3. QED
    BY <2>1, <2>2 DEF Resign
<1>3. CASE q # p
  <2>1. stalls = 0 /\ Syncing(q) => UNCHANGED <<beat, answer, regs>>
    BY <1>1, <1>3 DEF Resign, Kept, IsSyncing
  <2>2. QED
    BY <1>1, <1>2, <1>3, <2>1, KeptStays
<1>4. CASE q = p
  <2>1. IsSyncing(q, answer[q])' = IsSyncing(q, answer[q])
    BY <1>2 DEF IsSyncing
  <2>2. ~Syncing(q)'
    BY <1>1, <1>4 DEF Syncing
  <2>3. QED
    BY <1>1, <1>4, <2>1, <2>2 DEF Knows, Kept
<1>5. QED
  BY <1>3, <1>4

LEMMA KnowsExit ==
    ASSUME KInv, NEW p \in Process, Exit(p), NEW q \in Process
    PROVE  Knows(q)' /\ Kept(q)'
<1>1. TypeOK /\ Knows(q) /\ Kept(q)
  BY DEF KInv, IInv
<1>2. CASE q = p
  <2>1. ~flag'[q] /\ ~importing'[q] /\ ~asked'[q] /\ ~was'[q] /\ up'[q] = "down"
    BY <1>1, <1>2 DEF Exit, TypeOK
  <2>2. QED
    BY <2>1 DEF Knows, Kept, Syncing
<1>3. CASE q # p
  <2>1. /\ up'[q] = up[q] /\ seen'[q] = seen[q] /\ flag'[q] = flag[q]
        /\ importing'[q] = importing[q] /\ asked'[q] = asked[q] /\ was'[q] = was[q]
    BY <1>1, <1>3 DEF Exit, TypeOK
  <2>2. /\ answer'[q] = answer[q] /\ regs'[q] = regs[q]
        /\ turns'[q] = turns[q] /\ stalls' = stalls
    BY <1>1, <1>3 DEF Exit, TypeOK
  <2>3. stalls = 0 /\ Syncing(q) => beat' = beat
    BY <1>1, <1>3 DEF Exit, Kept, IsSyncing
  <2>4. QED
    BY <1>1, <2>1, <2>2, <2>3, KeptStays
<1>4. QED
  BY <1>2, <1>3

\* Time passes: what a process finds of itself only grows old.
LEMMA KnowsPass ==
    ASSUME KInv, Pass, NEW q \in Process
    PROVE  Knows(q)'
<1>1. /\ TypeOK /\ Knows(q) /\ seen[q] \in Beat
      /\ up' = up /\ flag' = flag /\ importing' = importing /\ asked' = asked /\ was' = was
      /\ seen'[q] = Older(seen[q])
  BY DEF KInv, IInv, Pass, TypeOK
<1>2. Expiry \in Nat /\ seen[q].age \in Nat
  BY <1>1, ElectionAssumption DEF Beat
<1>3. IsSyncing(q, seen[q])' => IsSyncing(q, seen[q])
  BY <1>1, <1>2, OlderBeat DEF IsSyncing
<1>4. QED
  BY <1>1, <1>3 DEF Knows

\* A tick everyone keeps up with finds the heartbeat of who imports just stored.
LEMMA KeptTick ==
    ASSUME Expiry > 1, KInv, Tick, NEW q \in Process
    PROVE  Kept(q)'
<1>1. /\ TypeOK /\ Kept(q) /\ Knows(q) /\ KeepsUp(q) /\ stalls' = stalls
      /\ up' = up /\ flag' = flag /\ importing' = importing /\ asked' = asked
      /\ beat \in Beat /\ beat' = Older(beat) /\ turns'[q] = 0 /\ Expiry \in Nat
      /\ up[q] \in {"down", "up", "stopping", "resigned"} /\ q # Nobody
  BY ElectionAssumption DEF KInv, IInv, Tick, Pass, TypeOK
<1>2. CASE up[q] = "up"
  <2>1. turns[q] > 0 /\ ~asked[q] /\ \A r \in regs[q] : r.due > 0
    BY <1>1, <1>2 DEF KeepsUp
  <2>2. \A r \in regs[q] : r.due # 0
    <3>1. \A r \in regs[q] : r \in Registration
      BY <1>1 DEF TypeOK
    <3>2. QED
      BY <2>1, <3>1 DEF Registration
  <2>3. Syncing(q)' => Syncing(q)
    BY <1>1, <2>1 DEF Syncing
  <2>4. ASSUME stalls = 0, Syncing(q) PROVE IsSyncing(q, beat)'
    <3>1. IsSyncing(q, beat) /\ beat.age = 0
      BY <1>1, <1>2, <2>1, <2>2, <2>4 DEF Kept, Renewing
    <3>2. beat'.by = q /\ beat'.age = 1
      BY <1>1, <3>1, OlderBeat DEF IsSyncing
    <3>3. QED
      BY <3>2 DEF IsSyncing
  <2>5. QED
    BY <1>1, <2>1, <2>3, <2>4 DEF Kept
<1>3. CASE up[q] = "down"
  BY <1>1, <1>3 DEF Knows, Kept, Syncing
<1>4. QED
  BY <1>1, <1>2, <1>3 DEF KeepsUp

LEMMA KnowsNext ==
    ASSUME Expiry > 1, KInv, [Next]_vars, NEW q \in Process
    PROVE  Knows(q)' /\ Kept(q)'
<1>1. Knows(q) /\ Kept(q)
  BY DEF KInv
<1>2. CASE Tick
  BY <1>2, KnowsPass, KeptTick DEF Tick
<1>3. CASE Stall
  <2>1. stalls' # 0
    BY <1>3 DEF Stall, KInv, IInv, TypeOK
  <2>2. QED
    BY <1>3, <2>1, KnowsPass DEF Stall, Kept
<1>4. CASE UNCHANGED vars
  BY <1>1, <1>4, KeptStays DEF vars
<1>5. QED
  BY <1>2, <1>3, <1>4, KnowsStart, KnowsAsk, KnowsResume, KnowsNominate, KnowsStop,
     KnowsResign, KnowsExit
     DEF Next, Turn, Nomination

LEMMA KeptInvariance ==
    ASSUME Expiry > 1
    PROVE  Spec => []KInv
<1>1. Init => KInv
  BY TypeInit, SoundInit, KnowsInit DEF KInv, IInv
<1>2. KInv /\ [Next]_vars => KInv'
  BY TypeNext, SoundNext, KnowsNext DEF KInv, IInv
<1>3. QED
  BY <1>1, <1>2, PTL DEF Spec

\* What Renewed says of a step.
LEMMA RenewedStep ==
    ASSUME KInv, [Next]_vars, NEW p \in Process, flag[p], ~flag'[p]
    PROVE  stalls > 0 \/ up'[p] = "down"
<1>1. TypeOK /\ Knows(p) /\ Kept(p) /\ stalls \in Nat
  BY DEF KInv, IInv, TypeOK
<1>2. ASSUME NEW q \in Process, Resume(q) PROVE stalls > 0
  <2>1. p = q /\ asked[p] /\ ~IsSyncing(p, answer[p])
    BY <1>1, <1>2 DEF Resume, TypeOK
  <2>2. stalls # 0
    BY <1>1, <2>1 DEF Kept
  <2>3. QED
    BY <1>1, <2>2
<1>3. ASSUME NEW q \in Process, Exit(q) PROVE up'[p] = "down"
  BY <1>1, <1>3 DEF Exit, TypeOK
<1>4. CASE flag' = flag
  BY <1>4
<1>5. QED
  BY <1>2, <1>3, <1>4
     DEF Next, vars, Turn, Nomination, Tick, Stall, Pass, Start, Ask, Nominate, Stop, Resign

-----------------------------------------------------------------------------
\* The type invariant of SyncElection holds for any number of processes, any
\* expiry and any number of stalls and faults.
THEOREM ElectionTypes == Spec => []TypeOK
<1>1. IInv => TypeOK
  BY DEF IInv
<1>2. QED
  BY <1>1, Invariance, PTL

\* However far behind the processes are, no two running ones find that they
\* are the syncing node of the chain (services/p2p.ts getIsSyncingNode, over
\* the compare-and-set of models/state.ts).
THEOREM ElectionOnePrimary == Spec => []OnePrimary
<1>1. IInv => OnePrimary
  BY DEF IInv, Sound, Held, OnePrimary
<1>2. QED
  BY <1>1, Invariance, PTL

\* While everyone keeps up, and nobody who resigned is still importing, no two
\* processes import blocks at the same time (sync of services/p2p.ts), for any
\* number of processes, turns, stops and crashes.  A heartbeat outlives a tick:
\* five minutes against the half second of the loop.
THEOREM ElectionOneImporter ==
    ASSUME Expiry > 1
    PROVE  Spec => []OneImporter
<1>1. KInv => OneImporter
  <2> SUFFICES ASSUME KInv, stalls = 0, \A p \in Process : up[p] # "resigned",
                      NEW p \in Process, NEW q \in Process, importing[p], importing[q]
               PROVE  p = q
    BY DEF OneImporter
  <2>1. \A s \in Process : importing[s] => IsSyncing(s, beat)
    <3> SUFFICES ASSUME NEW s \in Process, importing[s] PROVE IsSyncing(s, beat)
      OBVIOUS
    <3>1. Knows(s) /\ Kept(s) /\ up[s] \in {"down", "up", "stopping", "resigned"}
      BY DEF KInv, IInv, TypeOK
    <3>2. Syncing(s)
      BY <3>1 DEF Knows, Syncing
    <3>3. QED
      BY <3>1, <3>2 DEF Kept
  <2>2. QED
    BY <2>1 DEF IsSyncing
<1>2. QED
  BY <1>1, KeptInvariance, PTL

\* While everyone keeps up the syncing node stays so until it ends: no answer
\* finds its heartbeat expired or another's ('Syncing Node Renewal Failure' of
\* services/p2p.ts), whatever the others register.
THEOREM ElectionRenewed ==
    ASSUME Expiry > 1
    PROVE  Spec => Renewed
<1>1. KInv /\ [Next]_vars =>
         [\A p \in Process : flag[p] /\ ~flag'[p] => stalls > 0 \/ up'[p] = "down"]_vars
  BY RenewedStep
<1>2. QED
  BY <1>1, KeptInvariance, PTL DEF Spec, Renewed
==============================================================================
