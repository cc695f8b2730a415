------------------------------- MODULE Barrier -------------------------------
(***************************************************************************)
(* A barrier for the phases of a parallel operation                        *)
(* (src/backend/storage/ipc/barrier.c in the PostgreSQL tree), over the    *)
(* condition variable that it contains.                                    *)
(*                                                                         *)
(* The phases in LastPhases end by BarrierArriveAndDetachExceptLast and    *)
(* the other ones by BarrierArriveAndWait: the callers of a barrier agree  *)
(* on one of the two for a phase.                                          *)
(***************************************************************************)
EXTENDS ConditionVariable

CONSTANTS
    StaticParties,  \* may the party be static, and may it be dynamic?
    LastPhases,
    MaxPhase        \* bound: no phase is left after this one

ASSUME BarrierAssumption ==
    /\ IsFiniteSet(Procs)
    /\ StaticParties \subseteq BOOLEAN
    /\ MaxPhase \in Nat /\ LastPhases \subseteq 0 .. MaxPhase

VARIABLES
    participants, arrived, phase, elected, static_party,  \* the barrier
    pc,         \* per process: its place in a function
    known,      \* per process: start_phase, or the phase it was last told;
                \* 0 while it is not attached
    winners,    \* history: who was told to be elected for the current phase
    finished    \* history: has anybody returned from the wait for it?

barrierVars == <<participants, arrived, phase, elected>>
vars == <<cvVars, barrierVars, static_party, pc, known, winners, finished>>

At(p, l) == pc[p] = l /\ cvpc[p] = "ready"
To(p, l) == pc' = [pc EXCEPT ![p] = l]
Knows(p, n) == known' = [known EXCEPT ![p] = n]
Wins(p) == winners' = winners \cup {p}

BarrierInit ==
    /\ static_party \in StaticParties
    /\ participants = (IF static_party THEN Cardinality(Procs) ELSE 0)
    /\ arrived = 0
    /\ phase = 0
    /\ elected = 0
    /\ ConditionVariableInit

Init ==
    /\ BarrierInit
    /\ pc = [p \in Procs |-> IF static_party THEN "in" ELSE "out"]
    /\ known = [p \in Procs |-> 0]
    /\ winners = {}
    /\ finished = FALSE

-----------------------------------------------------------------------------
(* BarrierArriveAndWait *)

\* The last participant to arrive starts the next phase and is elected; any
\* other one is going to wait.
BarrierArriveAndWait(p) ==
    /\ At(p, "in") /\ phase < MaxPhase /\ phase \notin LastPhases
    /\ \/ /\ arrived + 1 = participants
          /\ arrived' = 0 /\ phase' = phase + 1 /\ elected' = phase + 1
          /\ winners' = {p} /\ finished' = TRUE
          /\ Knows(p, phase + 1)
          /\ To(p, "release")
       \/ /\ arrived + 1 # participants
          /\ arrived' = arrived + 1
          /\ Knows(p, phase)
          /\ To(p, "prepare")
          /\ UNCHANGED <<phase, elected, winners, finished>>
    /\ UNCHANGED <<cvVars, participants>>

PrepareToWait(p) ==
    /\ pc[p] = "prepare"
    /\ ConditionVariablePrepareToSleep(p)
    /\ To(p, "wait")
    /\ UNCHANGED <<barrierVars, known, winners, finished>>

\* The phase is still the old one: sleep and look again.  The mutex of the
\* barrier is released before the sleep looks at the list.
WaitOn(p) ==
    /\ At(p, "wait") /\ phase # known[p] + 1
    /\ To(p, "sleep")
    /\ UNCHANGED <<cvVars, barrierVars, known, winners, finished>>

Sleep(p) ==
    /\ pc[p] = "sleep"
    /\ ConditionVariableSleep(p)
    /\ To(p, "wait")
    /\ UNCHANGED <<barrierVars, known, winners, finished>>

\* Mutant: every process that was released by a detach elects itself.
ReleasedElects(p) ==
    /\ At(p, "wait") /\ phase = known[p] + 1
    /\ elected' = phase
    /\ Wins(p)
    /\ finished' = TRUE
    /\ Knows(p, phase)
    /\ To(p, "cancel")
    /\ UNCHANGED <<cvVars, participants, arrived, phase>>

\* The next phase has begun.  If it began by a detach, the first process to
\* see it elects itself.
Released(p) ==
    /\ At(p, "wait") /\ phase = known[p] + 1
    /\ IF elected # known[p] + 1
       THEN elected' = phase /\ Wins(p)
       ELSE UNCHANGED <<elected, winners>>
    /\ finished' = TRUE
    /\ Knows(p, phase)
    /\ To(p, "cancel")
    /\ UNCHANGED <<cvVars, participants, arrived, phase>>

StopWaiting(p) ==
    /\ pc[p] = "cancel"
    /\ ConditionVariableCancelSleep(p)
    /\ To(p, "in")
    /\ UNCHANGED <<barrierVars, known, winners, finished>>

\* Mutant: the waiting processes are signaled one at a time.
SignalOne(p) ==
    /\ pc[p] \in {"release", "release_out"}
    /\ ConditionVariableSignal(p)
    /\ To(p, IF pc[p] = "release" THEN "in" ELSE "out")
    /\ UNCHANGED <<barrierVars, known, winners, finished>>

\* The process that began a phase wakes the others.
WakeAll(p) ==
    /\ pc[p] \in {"release", "release_out"}
    /\ ConditionVariableBroadcast(p)
    /\ To(p, IF pc[p] = "release" THEN "in" ELSE "out")
    /\ UNCHANGED <<barrierVars, known, winners, finished>>

-----------------------------------------------------------------------------
(* Attaching and detaching *)

BarrierAttach(p) ==
    /\ ~static_party
    /\ At(p, "out")
    /\ participants' = participants + 1
    /\ Knows(p, phase)
    /\ To(p, "in")
    /\ UNCHANGED <<cvVars, arrived, phase, elected, winners, finished>>

\* Mutant: a detach begins the next phase whoever has arrived.
DetachReleases(p, arrive) ==
    /\ ~static_party
    /\ At(p, "in") /\ phase < MaxPhase
    /\ participants' = participants - 1
    /\ arrived' = 0 /\ phase' = phase + 1
    /\ winners' = {} /\ finished' = FALSE
    /\ Knows(p, 0)
    /\ To(p, "release_out")
    /\ UNCHANGED <<cvVars, elected>>

\* BarrierDetach and, with arrive, BarrierArriveAndDetach.
BarrierDetachImpl(p, arrive) ==
    /\ ~static_party
    /\ At(p, "in") /\ phase < MaxPhase
    /\ participants' = participants - 1
    /\ IF (arrive \/ participants' > 0) /\ arrived = participants'
       THEN /\ arrived' = 0 /\ phase' = phase + 1
            /\ winners' = {} /\ finished' = FALSE
            /\ To(p, "release_out")
       ELSE /\ To(p, "out")
            /\ UNCHANGED <<arrived, phase, winners, finished>>
    /\ Knows(p, 0)
    /\ UNCHANGED <<cvVars, elected>>

\* All but the last participant detach; the last one starts the next phase.
BarrierArriveAndDetachExceptLast(p) ==
    /\ At(p, "in") /\ phase < MaxPhase /\ phase \in LastPhases
    /\ IF participants > 1
       THEN /\ participants' = participants - 1
            /\ Knows(p, 0)
            /\ To(p, "out")
            /\ UNCHANGED <<phase, winners, finished>>
       ELSE /\ phase' = phase + 1
            /\ Knows(p, phase + 1)
            /\ winners' = {p} /\ finished' = TRUE
            /\ UNCHANGED <<participants, pc>>
    /\ UNCHANGED <<cvVars, arrived, elected>>

-----------------------------------------------------------------------------
(* The specification *)

\* What a process does by itself once it has called BarrierArriveAndWait or
\* has to wake others.
Step(p) ==
    \/ PrepareToWait(p) \/ WaitOn(p) \/ Sleep(p) \/ Released(p)
    \/ StopWaiting(p) \/ WakeAll(p)
    \/ CVStep(p) /\ UNCHANGED <<barrierVars, pc, known, winners, finished>>

Call(p) ==
    \/ BarrierArriveAndWait(p) \/ BarrierAttach(p)
    \/ (\E arrive \in BOOLEAN : BarrierDetachImpl(p, arrive))
    \/ BarrierArriveAndDetachExceptLast(p)

Interrupt(p) ==
    LatchSetByOther(p) /\ UNCHANGED <<barrierVars, pc, known, winners, finished>>

Next ==
    /\ \E p \in Procs : Step(p) \/ Call(p) \/ Interrupt(p)
    /\ UNCHANGED static_party

Spec == Init /\ [][Next]_vars

\* A process that is inside a function goes on.
FairSpec == Spec /\ \A p \in Procs : WF_vars(Step(p) /\ UNCHANGED static_party)

-----------------------------------------------------------------------------
(* Properties *)

\* The types of the variables, and arrived never above participants.
TypeOK ==
    /\ CVTypeOK
    /\ participants \in 0 .. Cardinality(Procs)
    /\ arrived \in 0 .. participants
    /\ static_party \in StaticParties
    /\ phase \in 0 .. MaxPhase /\ elected \in 0 .. phase
    /\ pc \in [Procs -> {"out", "in", "prepare", "wait", "sleep", "cancel",
                         "release", "release_out"}]
    /\ known \in [Procs -> 0 .. MaxPhase]
    /\ winners \in SUBSET Procs /\ finished \in BOOLEAN

\* The places of a process that has arrived and waits for the next phase.
Arrived == {"prepare", "wait", "sleep"}

\* The counts fit, and the phase does not advance without an attached
\* process: one that works sees the phase that it was told, which is why
\* BarrierPhase takes no lock, and one that waits sees the old or the next
\* phase (the assertion in BarrierArriveAndWait).
PhaseInStep ==
    /\ TypeOK
    /\ \A p \in Procs :
        /\ pc[p] \in {"in", "cancel", "release"} => phase = known[p]
        /\ pc[p] \in Arrived => phase \in {known[p], known[p] + 1}

\* At most one participant is told that it is the elected one of a phase, and
\* exactly one once all who waited for it have returned, also when the phase
\* began because a process detached.
OneElected ==
    /\ Cardinality(winners) <= 1
    /\ (/\ finished
        /\ \A p \in Procs : pc[p] \in Arrived => known[p] = phase)
       => winners # {}

\* A process that sleeps though the phase that it waits for has begun is going
\* to be woken: the process that began the phase has still to broadcast, or a
\* broadcast has still to take the sleeper off the list, or its latch is about
\* to be set.
SleeperHasWaker ==
    \A p \in Procs :
        (pc[p] = "wait" /\ phase = known[p] + 1 /\ Asleep(p)) =>
            \/ \E q \in Procs : pc[q] \in {"release", "release_out"} \/ p \in due[q]
            \/ AboutToWake(p)

\* A process does not sleep through a phase: whoever waits for one that has
\* begun returns, however it began.
WaitersReturn ==
    \A p \in Procs :
        (pc[p] \in Arrived /\ phase = known[p] + 1) ~> (pc[p] = "in")
=============================================================================
