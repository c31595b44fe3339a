------------------------------ MODULE SyncElection ------------------------------
(***************************************************************************)
(* Which of the bitcore-node processes on one database imports the blocks  *)
(* of a chain (BaseP2PWorker of services/p2p.ts, StateModel of             *)
(* models/state.ts).  The state document holds a heartbeat, the name and   *)
(* the time of the syncing node, written by compare-and-set; every process *)
(* reads it twice a second, renews it when it is its own, and otherwise    *)
(* registers to take over in five minutes if it has not changed by then.   *)
(*                                                                         *)
(* Time is counted in ticks.  The loops, timers and commands of a process  *)
(* that keeps up are done within a tick; a tick that does not wait for     *)
(* them is a stall.  A heartbeat is its owner and its age; what was read   *)
(* of it says whether the stored one is still the same.  The clocks of the *)
(* processes agree, and Date.now() is the time the command is executed.    *)
(***************************************************************************)
EXTENDS Integers

CONSTANTS
    Process,
    Nobody,     \* no heartbeat
    Gone,       \* the heartbeat of a process that ended
    Expiry,     \* five minutes, in ticks
    MaxTurns,   \* bound: turns of the loop of a process in a tick
    MaxStalls,  \* bound: ticks some process does not keep up with
    MaxFaults   \* bound: stops and crashes

ASSUME ElectionAssumption ==
    /\ Nobody \notin Process /\ Gone \notin Process /\ Gone # Nobody
    /\ Expiry \in Nat \ {0}
    /\ MaxTurns \in Nat \ {0} /\ MaxStalls \in Nat /\ MaxFaults \in Nat

VARIABLES
    beat,       \* syncingNode in the state document
    up,         \* "down", "up", "stopping" until it resigned, or "resigned"
    seen,       \* lastHeartBeat
    flag,       \* isSyncingNode
    importing,  \* sync() was called, and may go on
    asked,      \* getSyncingNode is under way
    was,        \* wasSyncingNode, while asked
    answer,     \* what it read, while asked
    regs,       \* registrations: the ticks until their timer is due, and then
                \* until their command is executed
    turns,      \* turns of the loop since the last tick
    stalls, faults

vars == <<beat, up, seen, flag, importing, asked, was, answer, regs, turns, stalls, faults>>

None == [by |-> Nobody, age |-> 0]
NoAnswer == [by |-> Nobody, age |-> 0, same |-> FALSE]

\* getIsSyncingNode of p, when its lastHeartBeat is c.
IsSyncing(p, c) == c.by = p /\ c.age < Expiry

Init ==
    /\ beat = None
    /\ up = [p \in Process |-> "down"]
    /\ seen = [p \in Process |-> None]
    /\ flag = [p \in Process |-> FALSE]
    /\ importing = [p \in Process |-> FALSE]
    /\ asked = [p \in Process |-> FALSE]
    /\ was = [p \in Process |-> FALSE]
    /\ answer = [p \in Process |-> NoAnswer]
    /\ regs = [p \in Process |-> {}]
    /\ turns = [p \in Process |-> 0]
    /\ stalls = 0 /\ faults = 0

Fault == faults < MaxFaults /\ faults' = faults + 1

-----------------------------------------------------------------------------
(* refreshSyncingNode.                                                      *)

Start(p) ==
    /\ up[p] = "down"
    /\ up' = [up EXCEPT ![p] = "up"]
    /\ UNCHANGED <<beat, seen, flag, importing, asked, was, answer, regs, turns, stalls, faults>>

\* A turn of the loop reads the heartbeat.
Ask(p) ==
    /\ up[p] = "up" /\ ~asked[p]
    /\ turns[p] < MaxTurns
    /\ turns' = [turns EXCEPT ![p] = @ + 1]
    /\ asked' = [asked EXCEPT ![p] = TRUE]
    /\ was' = [was EXCEPT ![p] = IsSyncing(p, seen[p])]
    /\ answer' = [answer EXCEPT ![p] = [by |-> beat.by, age |-> beat.age, same |-> TRUE]]
    /\ UNCHANGED <<beat, up, seen, flag, importing, regs, stalls, faults>>

\* Mutant: a process that is not the syncing node registers at once.
Delay_None(p, c) == 0

\* registerSyncingNode: the timer of a process that saw the heartbeat c.
Delay(p, c) == IF c.by = Nobody \/ IsSyncing(p, c) THEN 0 ELSE Expiry

\* stop() of the worker clears the timers of p, up to the wait of
\* unregisterSyncingNode: only what was sent to the database goes on.
StopWorker(p) ==
    /\ up' = [up EXCEPT ![p] = "stopping"]
    /\ \E sent \in SUBSET {r \in regs[p] : r.due = 0} :
          regs' = [regs EXCEPT ![p] = sent]

\* 'Syncing Node Renewal Failure'
RenewalFails(p) == asked[p] /\ was[p] /\ ~IsSyncing(p, answer[p])

\* The answer is there.  Nobody handles the failure of the renewal but the
\* process, which stops, or ends when it is stopping already.
Resume(p) ==
    /\ up[p] # "down" /\ asked[p]
    /\ RenewalFails(p) => up[p] = "up"
    /\ asked' = [asked EXCEPT ![p] = FALSE]
    /\ was' = [was EXCEPT ![p] = FALSE]
    /\ answer' = [answer EXCEPT ![p] = NoAnswer]
    /\ seen' = [seen EXCEPT ![p] = [by |-> answer[p].by, age |-> answer[p].age]]
    /\ flag' = [flag EXCEPT ![p] = IsSyncing(p, answer[p])]
    /\ IF RenewalFails(p)
       THEN StopWorker(p) /\ UNCHANGED importing
       ELSE /\ importing' = [importing EXCEPT ![p] = @ \/ (~was[p] /\ IsSyncing(p, answer[p]))]
            /\ regs' = [regs EXCEPT ![p] =
                          @ \cup {[due |-> Delay(p, answer[p]), same |-> answer[p].same]}]
            /\ UNCHANGED up
    /\ UNCHANGED <<beat, turns, stalls, faults>>

\* The heartbeat b is stored: whatever was read of the last one differs from
\* it.  The registration r of p, if that is what stored it, is over.
Outdated(c) == [c EXCEPT !.same = FALSE]

Store(b, p, r) ==
    /\ beat' = b
    /\ answer' = [q \in Process |-> Outdated(answer[q])]
    /\ regs' = [q \in Process |-> {Outdated(s) : s \in regs[q] \ (IF q = p THEN {r} ELSE {})}]

\* Mutant: the heartbeat that was seen is not compared.
Matches_Any(r) == TRUE

\* Mutant: the state takes a heartbeat only when it has none.
Matches_Absent(r) == beat.by = Nobody

\* selfNominateSyncingNode's filter: no heartbeat, or the one p saw.
Matches(r) == beat.by = Nobody \/ r.same

\* selfNominateSyncingNode, called by a timer of p.
Nominate(p, r) ==
    /\ r \in regs[p] /\ r.due = 0
    /\ IF Matches(r)
       THEN Store([by |-> p, age |-> 0], p, r)
       ELSE regs' = [regs EXCEPT ![p] = @ \ {r}] /\ UNCHANGED <<beat, answer>>
    /\ UNCHANGED <<up, seen, flag, importing, asked, was, turns, stalls, faults>>

-----------------------------------------------------------------------------
(* The end of a process.                                                    *)

\* The process is told to stop.
Stop(p) ==
    /\ up[p] = "up"
    /\ Fault
    /\ StopWorker(p)
    /\ UNCHANGED <<beat, seen, flag, importing, asked, was, answer, turns, stalls>>

\* unregisterSyncingNode reads the heartbeat, and resigns if it is its own.
\* It does not when a command fails or its heartbeat changes in between.
Resign(p) ==
    /\ up[p] = "stopping"
    /\ up' = [up EXCEPT ![p] = "resigned"]
    /\ seen' = [seen EXCEPT ![p] = beat]
    /\ \/ IsSyncing(p, beat) /\ Store(None, Nobody, NoAnswer)
       \/ UNCHANGED <<beat, answer, regs>>
    /\ UNCHANGED <<flag, importing, asked, was, turns, stalls, faults>>

\* The process ends: it has resigned, is stopped again, or crashes.  The next
\* one has another pid, or, in a container, the same.
Exit(p) ==
    /\ up[p] # "down"
    /\ \/ up[p] = "resigned" /\ UNCHANGED faults
       \/ up[p] # "up" /\ RenewalFails(p) /\ UNCHANGED faults
       \/ Fault
    /\ up' = [up EXCEPT ![p] = "down"]
    /\ \/ UNCHANGED beat
       \/ beat.by = p /\ beat' = [beat EXCEPT !.by = Gone]
    /\ seen' = [seen EXCEPT ![p] = None]
    /\ flag' = [flag EXCEPT ![p] = FALSE]
    /\ importing' = [importing EXCEPT ![p] = FALSE]
    /\ asked' = [asked EXCEPT ![p] = FALSE]
    /\ was' = [was EXCEPT ![p] = FALSE]
    /\ answer' = [answer EXCEPT ![p] = NoAnswer]
    /\ regs' = [regs EXCEPT ![p] = {}]
    /\ turns' = [turns EXCEPT ![p] = 0]
    /\ UNCHANGED stalls

-----------------------------------------------------------------------------
(* Time.                                                                    *)

Older(c) == [c EXCEPT !.age = IF c.by # Nobody /\ c.age < Expiry THEN c.age + 1 ELSE c.age]

\* Mutant: a timer goes on after it was due.
Nearer_Past(r) == [r EXCEPT !.due = r.due - 1]

Nearer(r) == [r EXCEPT !.due = IF r.due > 0 THEN r.due - 1 ELSE r.due]

KeepsUp(p) ==
    CASE up[p] = "up" -> turns[p] > 0 /\ ~asked[p] /\ \A r \in regs[p] : r.due > 0
      [] up[p] = "down" -> TRUE
      [] OTHER -> FALSE

Pass ==
    /\ beat' = Older(beat)
    /\ seen' = [p \in Process |-> Older(seen[p])]
    /\ answer' = [p \in Process |-> Older(answer[p])]
    /\ regs' = [p \in Process |-> {Nearer(r) : r \in regs[p]}]
    /\ turns' = [p \in Process |-> 0]
    /\ UNCHANGED <<up, flag, importing, asked, was, faults>>

Tick == (\A p \in Process : KeepsUp(p)) /\ Pass /\ UNCHANGED stalls

Stall ==
    /\ \E p \in Process : ~KeepsUp(p)
    /\ stalls < MaxStalls /\ stalls' = stalls + 1
    /\ Pass

-----------------------------------------------------------------------------
Turn(p) == Ask(p) \/ Resume(p)

Nomination(p) == \E r \in regs[p] : Nominate(p, r)

Next ==
    \/ Tick \/ Stall
    \/ \E p \in Process :
          Start(p) \/ Turn(p) \/ Nomination(p) \/ Stop(p) \/ Resign(p) \/ Exit(p)

Spec == Init /\ [][Next]_vars

\* Processes are started again, their loops and timers run, the database
\* answers, a process that stops resigns and ends, and time passes.
Fairness ==
    /\ WF_vars(Tick)
    /\ \A p \in Process :
          /\ WF_vars(Start(p)) /\ WF_vars(Turn(p)) /\ WF_vars(Nomination(p))
          /\ WF_vars(Resign(p)) /\ WF_vars(up[p] = "resigned" /\ Exit(p))

FairSpec == Spec /\ Fairness

-----------------------------------------------------------------------------
(* Properties. *)

Beat == [by : Process \cup {Nobody, Gone}, age : 0 .. Expiry]
Answer == [by : Process \cup {Nobody, Gone}, age : 0 .. Expiry, same : BOOLEAN]
Registration == [due : 0 .. Expiry, same : BOOLEAN]

\* Type invariant.
TypeOK ==
    /\ beat \in Beat
    /\ up \in [Process -> {"down", "up", "stopping", "resigned"}]
    /\ seen \in [Process -> Beat]
    /\ flag \in [Process -> BOOLEAN]
    /\ importing \in [Process -> BOOLEAN]
    /\ asked \in [Process -> BOOLEAN]
    /\ was \in [Process -> BOOLEAN]
    /\ answer \in [Process -> Answer]
    /\ regs \in [Process -> SUBSET Registration]
    /\ turns \in [Process -> Nat]
    /\ stalls \in Nat /\ faults \in Nat

\* Whatever stalls, stops or crashes, no two running processes find at the
\* same time that they are the syncing node.
OnePrimary ==
    \A p, q \in Process :
        /\ up[p] = "up" /\ IsSyncing(p, seen[p])
        /\ up[q] = "up" /\ IsSyncing(q, seen[q])
        => p = q

\* While everyone keeps up, and nobody who resigned is still importing, no
\* two processes import blocks at the same time.
OneImporter ==
    stalls = 0 /\ (\A p \in Process : up[p] # "resigned") =>
        \A p, q \in Process : importing[p] /\ importing[q] => p = q

\* A syncing node that keeps up is renewed until it ends: the others'
\* registrations never overtake it.
Renewed ==
    [][\A p \in Process : flag[p] /\ ~flag'[p] => stalls > 0 \/ up'[p] = "down"]_vars

\* Whatever happened, in the end some process is the syncing node for good.
TakesOver == <>[](\E p \in Process : up[p] = "up" /\ flag[p])
==============================================================================
