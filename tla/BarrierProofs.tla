---------------------------- MODULE BarrierProofs ----------------------------
(***************************************************************************)
(* A barrier keeps its processes in step and elects one of them for each   *)
(* phase, for any number of processes and phases, and any calls to attach  *)
(* and detach.                                                             *)
(*                                                                         *)
(* The invariant: participants counts the attached processes and arrived   *)
(* those of them that have arrived in the current phase.  A process that   *)
(* makes the phase advance is thus the only attached one that had not      *)
(* arrived.                                                                *)
(*                                                                         *)
(* Nor does a process sleep on in a phase that is over: whoever begins a   *)
(* phase that others wait for has still to broadcast, or its broadcast has *)
(* still to take the sleepers off the list, and with them those that are   *)
(* on their way to a sleep that they have prepared.                        *)
(***************************************************************************)
EXTENDS Barrier, ConditionVariableProofs, FiniteSetTheorems

\* Zenon proves the leaves that do not name a prover.
USE ZenonT(40)

Inside == {"in", "cancel", "release"}

Attached == {p \in Procs : pc[p] \in Inside \cup Arrived}
Waiting == {p \in Procs : pc[p] \in Arrived /\ known[p] = phase}
Lagging == {p \in Procs : pc[p] \in Arrived /\ known[p] # phase}

Types ==
    /\ participants \in Nat /\ arrived \in Nat
    /\ phase \in 0 .. MaxPhase /\ elected \in 0 .. phase
    /\ pc \in [Procs -> Inside \cup Arrived \cup {"out", "release_out"}]
    /\ known \in [Procs -> 0 .. MaxPhase]
    /\ winners \subseteq Procs /\ finished \in BOOLEAN
    /\ static_party \in StaticParties

InStep(p) ==
    /\ pc[p] \in Inside => phase = known[p]
    /\ pc[p] \in Arrived => phase \in {known[p], known[p] + 1}

CountInv ==
    /\ participants = Cardinality(Attached) /\ arrived = Cardinality(Waiting)
    /\ Attached # {} => arrived < participants
    /\ phase \in LastPhases => arrived = 0

ElectInv ==
    /\ \A x, y \in winners : x = y
    /\ elected = phase /\ phase # 0 => winners # {}
    /\ finished => winners # {}
    /\ elected # phase /\ Lagging # {} => winners = {}

BInv ==
    /\ Types
    /\ \A p \in Procs : InStep(p)
    /\ CountInv
    /\ ElectInv

-----------------------------------------------------------------------------
(* Counting *)

\* The processes can be counted.
LEMMA SetFacts ==
    /\ IsFiniteSet(Attached) /\ IsFiniteSet(Waiting) /\ Waiting \subseteq Attached
    /\ Cardinality(Attached) \in Nat /\ Cardinality(Waiting) \in Nat
    /\ Cardinality(Attached) <= Cardinality(Procs)
<1>1. /\ Attached \subseteq Procs /\ Waiting \subseteq Attached
      /\ IsFiniteSet(Procs)
  BY BarrierAssumption DEF Attached, Waiting
<1>2. IsFiniteSet(Attached) /\ Cardinality(Attached) <= Cardinality(Procs)
  BY <1>1, FS_Subset
<1>3. IsFiniteSet(Waiting)
  BY <1>1, <1>2, FS_Subset
<1>. QED
  BY <1>1, <1>2, <1>3, FS_CardinalityType

\* When one attached process has not arrived in the phase and the others are as
\* many as those who have, then all of them have.
LEMMA LastOne ==
    ASSUME NEW p \in Attached, p \notin Waiting,
           Cardinality(Waiting) + 1 = Cardinality(Attached)
    PROVE  Waiting = Attached \ {p}
<1>1. /\ IsFiniteSet(Attached \ {p})
      /\ Cardinality(Attached \ {p}) = Cardinality(Attached) - 1
  BY SetFacts, FS_RemoveElement
<1>2. Waiting \subseteq Attached \ {p}
  BY SetFacts
<1>3. Cardinality(Waiting) = Cardinality(Attached \ {p})
  BY SMTT(40), <1>1, SetFacts
<1>. QED
  BY <1>1, <1>2, <1>3, FS_Subset

\* The phase advances when all attached processes but p have arrived: the
\* others are one phase behind, and nobody has arrived in the new phase.
LEMMA Advance ==
    ASSUME BInv, NEW p \in Procs, pc[p] = "in", arrived + 1 = participants,
           phase' = phase + 1, NEW l \in {"in", "release", "release_out"},
           pc' = [pc EXCEPT ![p] = l], NEW n, known' = [known EXCEPT ![p] = n],
           l = "release_out" \/ n = phase + 1
    PROVE  /\ \A q \in Procs : InStep(q)'
           /\ Waiting' = {}
<1>1. p \in Attached /\ p \notin Waiting
  BY DEF Attached, Waiting, Inside, Arrived
<1>2. Waiting = Attached \ {p}
  BY <1>1, LastOne DEF BInv, CountInv
<1>3. phase \in Nat /\ phase + 1 # phase
  BY SMTT(40), BarrierAssumption DEF BInv, Types
<1>4. ASSUME NEW q \in Procs, q # p
      PROVE  /\ pc'[q] = pc[q] /\ known'[q] = known[q]
             /\ pc[q] \in Inside \cup Arrived => pc[q] \in Arrived /\ known[q] = phase
  BY <1>2, <1>4 DEF BInv, Types, Attached, Waiting
<1>5. /\ pc'[p] = l /\ known'[p] = n
      /\ l \notin Arrived /\ (l \in Inside => l # "release_out")
  BY DEF BInv, Types, Inside, Arrived
<1>6. \A q \in Procs : InStep(q)'
  <2>1. \A q \in Procs \ {p} : pc[q] \in Inside \cup Arrived => pc[q] \notin Inside
    BY <1>4 DEF Inside, Arrived
  <2>2. ASSUME NEW q \in Procs, q # p PROVE InStep(q)'
    BY <1>4, <2>1, <2>2 DEF InStep
  <2>3. InStep(p)'
    BY <1>5 DEF InStep
  <2>. QED
    BY <2>2, <2>3
<1>7. Waiting' = {}
  <2>. SUFFICES ASSUME NEW q \in Procs, pc'[q] \in Arrived, known'[q] = phase'
                PROVE  FALSE
    BY DEF Waiting
  <2>1. q # p
    BY <1>5
  <2>. QED
    BY <1>3, <1>4, <2>1
<1>. QED
  BY <1>6, <1>7

\* Nobody has arrived in the new phase.
LEMMA NobodyArrived ==
    ASSUME Waiting' = {}, arrived' = 0 PROVE arrived' = Cardinality(Waiting)'
BY FS_EmptySet

-----------------------------------------------------------------------------
(* Steps *)

\* A process arrives.
LEMMA ArriveKeeps ==
    ASSUME BInv, NEW p \in Procs, BarrierArriveAndWait(p), UNCHANGED static_party
    PROVE  BInv'
<1>1. /\ pc[p] = "in" /\ phase < MaxPhase /\ phase \notin LastPhases
      /\ participants' = participants /\ static_party' = static_party
  BY DEF BarrierArriveAndWait, At
<1>2. phase \in Nat /\ phase + 1 \in 0 .. MaxPhase /\ phase + 1 # 0
  BY SMTT(40), <1>1, BarrierAssumption DEF BInv, Types
<1>3. CASE arrived + 1 = participants
  <2>1. /\ arrived' = 0 /\ phase' = phase + 1 /\ elected' = phase + 1
        /\ winners' = {p} /\ finished' = TRUE
        /\ known' = [known EXCEPT ![p] = phase + 1]
        /\ pc' = [pc EXCEPT ![p] = "release"]
    BY <1>3 DEF BarrierArriveAndWait, Knows, To
  <2>2. (\A q \in Procs : InStep(q)') /\ Waiting' = {}
    BY <1>1, <1>3, <2>1, Advance
  <2>3. Types'
    <3>1. 0 \in Nat /\ phase + 1 \in 0 .. phase + 1
      BY SMTT(40), <1>2
    <3>. QED
      BY <1>1, <1>2, <2>1, <3>1 DEF BInv, Types, Inside
  <2>4. Attached' = Attached /\ p \in Attached
    BY <1>1, <2>1 DEF BInv, Types, Attached, Inside
  <2>5. CountInv'
    <3>1. 0 < participants
      BY SMTT(40), <1>3 DEF BInv, Types
    <3>. QED
      BY <1>1, <2>1, <2>2, <2>4, <3>1, NobodyArrived DEF BInv, CountInv
  <2>6. ElectInv'
    BY <2>1 DEF ElectInv
  <2>. QED
    BY <2>2, <2>3, <2>5, <2>6 DEF BInv
<1>4. CASE arrived + 1 # participants
  <2>1. /\ arrived' = arrived + 1 /\ known' = [known EXCEPT ![p] = phase]
        /\ pc' = [pc EXCEPT ![p] = "prepare"]
        /\ UNCHANGED <<phase, elected, winners, finished>>
    BY <1>4 DEF BarrierArriveAndWait, Knows, To
  <2>2. /\ pc'[p] = "prepare" /\ known'[p] = phase /\ p \notin Waiting
        /\ \A q \in Procs : q # p => pc'[q] = pc[q] /\ known'[q] = known[q]
    BY <1>1, <2>1 DEF BInv, Types, Waiting, Arrived
  <2>3. /\ Attached' = Attached /\ Waiting' = Waiting \cup {p} /\ Lagging' = Lagging
        /\ p \in Attached
    BY <1>1, <2>1, <2>2 DEF Attached, Waiting, Lagging, Inside, Arrived
  <2>4. Types'
    <3>1. arrived + 1 \in Nat
      BY SMTT(40) DEF BInv, Types
    <3>. QED
      BY <1>1, <2>1, <3>1 DEF BInv, Types, Arrived
  <2>5. \A q \in Procs : InStep(q)'
    BY <2>1, <2>2 DEF BInv, InStep, Inside, Arrived
  <2>6. CountInv'
    <3>1. Cardinality(Waiting \cup {p}) = Cardinality(Waiting) + 1
      BY <2>2, SetFacts, FS_AddElement
    <3>2. arrived + 1 < participants
      BY SMTT(40), <1>4, <2>3 DEF BInv, Types, CountInv
    <3>. QED
      BY <1>1, <2>1, <2>3, <3>1, <3>2 DEF BInv, CountInv
  <2>7. ElectInv'
    BY <2>1, <2>3 DEF BInv, ElectInv
  <2>. QED
    BY <2>4, <2>5, <2>6, <2>7 DEF BInv
<1>. QED
  BY <1>3, <1>4
\* A process attaches.
LEMMA AttachKeeps ==
    ASSUME BInv, NEW p \in Procs, BarrierAttach(p), UNCHANGED static_party
    PROVE  BInv'
<1>1. /\ pc[p] = "out" /\ participants' = participants + 1
      /\ known' = [known EXCEPT ![p] = phase] /\ pc' = [pc EXCEPT ![p] = "in"]
      /\ UNCHANGED <<arrived, phase, elected, winners, finished, static_party>>
  BY DEF BarrierAttach, At, Knows, To
<1>2. /\ pc'[p] = "in" /\ known'[p] = phase
      /\ \A q \in Procs : q # p => pc'[q] = pc[q] /\ known'[q] = known[q]
  BY <1>1 DEF BInv, Types
<1>3. /\ Attached' = Attached \cup {p} /\ Waiting' = Waiting /\ Lagging' = Lagging
      /\ p \notin Attached
  BY <1>1, <1>2 DEF Attached, Waiting, Lagging, Inside, Arrived
<1>4. Types'
  <2>1. participants + 1 \in Nat
    BY SMTT(40) DEF BInv, Types
  <2>. QED
    BY <1>1, <2>1 DEF BInv, Types, Inside
<1>5. \A q \in Procs : InStep(q)'
  BY <1>1, <1>2 DEF BInv, InStep, Inside, Arrived
<1>6. CountInv'
  <2>1. Cardinality(Attached \cup {p}) = Cardinality(Attached) + 1
    BY <1>3, SetFacts, FS_AddElement
  <2>2. Cardinality(Waiting) <= Cardinality(Attached)
    BY SetFacts, FS_Subset
  <2>3. arrived < participants + 1
    BY SMTT(40), <2>2 DEF BInv, Types, CountInv
  <2>. QED
    BY <1>1, <1>3, <2>1, <2>3 DEF BInv, CountInv
<1>7. ElectInv'
  BY <1>1, <1>3 DEF BInv, ElectInv
<1>. QED
  BY <1>4, <1>5, <1>6, <1>7 DEF BInv

\* A process is detached while the phase stays as it is.
LEMMA LeaveAlone ==
    ASSUME BInv, NEW p \in Procs, pc[p] = "in", participants' = participants - 1,
           participants' = 0 \/ arrived # participants',
           known' = [known EXCEPT ![p] = 0], pc' = [pc EXCEPT ![p] = "out"],
           UNCHANGED <<arrived, phase, elected, winners, finished, static_party>>
    PROVE  BInv'
<1>1. /\ pc'[p] = "out"
      /\ \A q \in Procs : q # p => pc'[q] = pc[q] /\ known'[q] = known[q]
  BY DEF BInv, Types
<1>2. /\ Attached' = Attached \ {p} /\ Waiting' = Waiting /\ Lagging' = Lagging
      /\ p \in Attached
  BY <1>1 DEF Attached, Waiting, Lagging, Inside, Arrived
<1>3. arrived < participants /\ participants \in Nat /\ arrived \in Nat
  BY <1>2 DEF BInv, Types, CountInv
<1>4. participants' \in Nat /\ 0 \in 0 .. MaxPhase
  BY SMTT(40), <1>3, BarrierAssumption
<1>5. Types'
  BY <1>4 DEF BInv, Types
<1>6. \A q \in Procs : InStep(q)'
  BY <1>1 DEF BInv, InStep, Inside, Arrived
<1>7. CountInv'
  <2>1. Cardinality(Attached \ {p}) = Cardinality(Attached) - 1
    BY <1>2, SetFacts, FS_RemoveElement
  <2>2. participants' = Cardinality(Attached')
    BY <1>2, <2>1 DEF BInv, CountInv
  <2>3. Attached' # {} => participants' # 0
    BY <2>2, <1>2, SetFacts, FS_RemoveElement, FS_EmptySet
  <2>4. Attached' # {} => arrived < participants'
    BY SMTT(40), <1>3, <1>4, <2>3
  <2>. QED
    BY <1>2, <2>2, <2>4 DEF BInv, CountInv
<1>8. ElectInv'
  BY <1>2 DEF BInv, ElectInv
<1>. QED
  BY <1>5, <1>6, <1>7, <1>8 DEF BInv

\* A process detaches; the phase advances if all the others have arrived.
LEMMA DetachKeeps ==
    ASSUME BInv, NEW p \in Procs, NEW arrive \in BOOLEAN,
           BarrierDetachImpl(p, arrive), UNCHANGED static_party
    PROVE  BInv'
<1>1. /\ pc[p] = "in" /\ phase < MaxPhase /\ participants' = participants - 1
      /\ known' = [known EXCEPT ![p] = 0]
      /\ UNCHANGED <<elected, static_party>>
  BY DEF BarrierDetachImpl, At, Knows
<1>2. CASE (arrive \/ participants' > 0) /\ arrived = participants'
  <2>1. /\ arrived' = 0 /\ phase' = phase + 1 /\ winners' = {} /\ finished' = FALSE
        /\ pc' = [pc EXCEPT ![p] = "release_out"]
    BY <1>2 DEF BarrierDetachImpl, To
  <2>2. arrived + 1 = participants /\ participants \in Nat /\ participants' \in Nat
    BY SMTT(40), <1>1, <1>2 DEF BInv, Types
  <2>3. (\A q \in Procs : InStep(q)') /\ Waiting' = {}
    BY <1>1, <2>1, <2>2, Advance
  <2>4. /\ phase \in Nat /\ phase + 1 \in 0 .. MaxPhase /\ elected \in 0 .. phase + 1
        /\ elected # phase + 1 /\ 0 \in Nat /\ 0 \in 0 .. MaxPhase
    BY SMTT(40), <1>1, BarrierAssumption DEF BInv, Types
  <2>5. Types'
    BY <1>1, <2>1, <2>2, <2>4 DEF BInv, Types
  <2>6. Attached' = Attached \ {p} /\ p \in Attached
    BY <1>1, <2>1 DEF BInv, Types, Attached, Inside, Arrived
  <2>7. CountInv'
    <3>1. Cardinality(Attached \ {p}) = Cardinality(Attached) - 1
      BY <2>6, SetFacts, FS_RemoveElement
    <3>2. participants' = Cardinality(Attached')
      BY <1>1, <2>6, <3>1 DEF BInv, CountInv
    <3>3. IsFiniteSet(Attached')
      BY <2>6, SetFacts, FS_RemoveElement
    <3>4. Attached' # {} => participants' # 0
      BY <3>2, <3>3, FS_EmptySet
    <3>5. Attached' # {} => 0 < participants'
      BY SMTT(40), <2>2, <3>4
    <3>. QED
      BY <2>1, <2>3, <3>2, <3>5, NobodyArrived DEF CountInv
  <2>8. ElectInv'
    BY <1>1, <2>1, <2>4 DEF ElectInv
  <2>. QED
    BY <2>3, <2>5, <2>7, <2>8 DEF BInv
<1>3. CASE ~((arrive \/ participants' > 0) /\ arrived = participants')
  <2>1. /\ UNCHANGED <<arrived, phase, winners, finished>>
        /\ pc' = [pc EXCEPT ![p] = "out"]
    BY <1>3 DEF BarrierDetachImpl, To
  <2>2. p \in Attached
    BY <1>1 DEF Attached, Inside
  <2>3. participants \in Nat /\ participants > 0
    BY SMTT(40), <2>2 DEF BInv, Types, CountInv
  <2>4. participants' = 0 \/ arrived # participants'
    BY SMTT(40), <1>1, <1>3, <2>3
  <2>. QED
    BY <1>1, <2>1, <2>4, LeaveAlone
<1>. QED
  BY <1>2, <1>3

\* In a phase of which all but the last participant detach nobody waits.
LEMMA LastAlone ==
    ASSUME BInv, NEW p \in Procs, BarrierArriveAndDetachExceptLast(p),
           ~(participants > 1)
    PROVE  /\ Attached = {p} /\ p \notin Waiting
           /\ arrived + 1 = participants /\ 0 < participants
<1>1. pc[p] = "in" /\ arrived = 0
  BY DEF BarrierArriveAndDetachExceptLast, At, BInv, CountInv
<1>2. p \in Attached /\ p \notin Waiting
  BY <1>1 DEF Attached, Waiting, Inside, Arrived
<1>3. arrived + 1 = participants /\ 0 < participants
  BY SMTT(40), <1>1, <1>2 DEF BInv, Types, CountInv
<1>4. Waiting = Attached \ {p}
  BY <1>2, <1>3, LastOne DEF BInv, CountInv
<1>5. Waiting = {}
  BY <1>1, SetFacts, FS_EmptySet DEF BInv, CountInv
<1>. QED
  BY <1>2, <1>3, <1>4, <1>5

\* The last participant goes on to the next phase, every other one detaches.
LEMMA ExceptLastKeeps ==
    ASSUME BInv, NEW p \in Procs, BarrierArriveAndDetachExceptLast(p),
           UNCHANGED static_party
    PROVE  BInv'
<1>1. /\ pc[p] = "in" /\ phase < MaxPhase /\ phase \in LastPhases
      /\ arrived = 0 /\ arrived' = arrived
      /\ UNCHANGED <<elected, static_party>>
  BY DEF BarrierArriveAndDetachExceptLast, At, BInv, CountInv
<1>2. CASE participants > 1
  <2>1. /\ participants' = participants - 1 /\ known' = [known EXCEPT ![p] = 0]
        /\ pc' = [pc EXCEPT ![p] = "out"] /\ UNCHANGED <<phase, winners, finished>>
    BY <1>2 DEF BarrierArriveAndDetachExceptLast, Knows, To
  <2>2. arrived # participants'
    BY SMTT(40), <1>1, <1>2, <2>1 DEF BInv, Types
  <2>. QED
    BY <1>1, <2>1, <2>2, LeaveAlone
<1>3. CASE ~(participants > 1)
  <2>1. /\ phase' = phase + 1 /\ known' = [known EXCEPT ![p] = phase + 1]
        /\ winners' = {p} /\ finished' = TRUE /\ participants' = participants
        /\ pc' = pc
    BY <1>3 DEF BarrierArriveAndDetachExceptLast, Knows
  <2>3. Attached = {p} /\ arrived + 1 = participants /\ 0 < participants
    BY <1>3, LastAlone
  <2>4. pc' = [pc EXCEPT ![p] = "in"]
    BY <1>1, <2>1 DEF BInv, Types
  <2>5. (\A q \in Procs : InStep(q)') /\ Waiting' = {}
    BY <1>1, <2>1, <2>3, <2>4, Advance
  <2>6. /\ phase \in Nat /\ phase + 1 \in 0 .. MaxPhase /\ elected \in 0 .. phase + 1
        /\ elected # phase + 1 /\ phase + 1 # 0
    BY SMTT(40), <1>1, BarrierAssumption DEF BInv, Types
  <2>7. Types'
    BY <1>1, <2>1, <2>6 DEF BInv, Types
  <2>8. Attached' = Attached
    BY <2>1 DEF Attached
  <2>9. CountInv'
    BY <1>1, <2>1, <2>3, <2>5, <2>8, NobodyArrived DEF BInv, CountInv
  <2>11. Lagging' = {}
    BY <1>1, <2>1, <2>3 DEF Lagging, Attached, Inside, Arrived
  <2>12. ElectInv'
    BY <2>1, <2>11 DEF ElectInv
  <2>. QED
    BY <2>5, <2>7, <2>9, <2>12 DEF BInv
<1>. QED
  BY <1>2, <1>3

\* A process sees the new phase.  It elects itself if nobody is elected.
LEMMA ReleasedKeeps ==
    ASSUME BInv, NEW p \in Procs, Released(p), UNCHANGED static_party
    PROVE  BInv'
<1>1. /\ pc[p] = "wait" /\ phase = known[p] + 1 /\ finished' = TRUE
      /\ known' = [known EXCEPT ![p] = phase] /\ pc' = [pc EXCEPT ![p] = "cancel"]
      /\ IF elected # phase THEN elected' = phase /\ winners' = winners \cup {p}
                            ELSE UNCHANGED <<elected, winners>>
      /\ UNCHANGED <<participants, arrived, phase, static_party>>
  BY DEF Released, At, Knows, To, Wins
<1>2. phase # 0 /\ known[p] # phase /\ phase \in 0 .. phase
  BY SMTT(40), <1>1, BarrierAssumption DEF BInv, Types
<1>3. /\ pc'[p] = "cancel" /\ known'[p] = phase
      /\ \A q \in Procs : q # p => pc'[q] = pc[q] /\ known'[q] = known[q]
  BY <1>1 DEF BInv, Types
<1>4. /\ Attached' = Attached /\ Waiting' = Waiting /\ p \in Lagging
  BY <1>1, <1>2, <1>3 DEF Attached, Waiting, Lagging, Inside, Arrived
<1>5. Types'
  BY <1>1, <1>2 DEF BInv, Types, Inside
<1>6. \A q \in Procs : InStep(q)'
  BY <1>1, <1>3 DEF BInv, InStep, Inside, Arrived
<1>7. CountInv'
  BY <1>1, <1>4 DEF BInv, CountInv
<1>8. ElectInv'
  <2>1. CASE elected # phase
    <3>1. winners = {}
      BY <1>4, <2>1 DEF BInv, ElectInv
    <3>. QED
      BY <1>1, <2>1, <3>1 DEF ElectInv
  <2>2. CASE elected = phase
    BY <1>1, <1>2, <2>2 DEF BInv, ElectInv
  <2>. QED
    BY <2>1, <2>2
<1>. QED
  BY <1>5, <1>6, <1>7, <1>8 DEF BInv

\* The steps that only go on inside a function.
LEMMA WalkKeeps ==
    ASSUME BInv, NEW p \in Procs,
           \/ PrepareToWait(p) \/ WaitOn(p) \/ Sleep(p)
           \/ StopWaiting(p) \/ WakeAll(p),
           UNCHANGED static_party
    PROVE  BInv'
<1>1. /\ UNCHANGED <<participants, arrived, phase, elected, known, winners, finished,
                     static_party>>
      /\ \/ pc[p] \in {"prepare", "sleep"} /\ pc' = [pc EXCEPT ![p] = "wait"]
         \/ pc[p] = "wait" /\ pc' = [pc EXCEPT ![p] = "sleep"]
         \/ pc[p] \in {"cancel", "release"} /\ pc' = [pc EXCEPT ![p] = "in"]
         \/ pc[p] = "release_out" /\ pc' = [pc EXCEPT ![p] = "out"]
  BY DEF PrepareToWait, WaitOn, Sleep, StopWaiting, WakeAll, barrierVars, At, To
<1>2. \A q \in Procs :
        /\ pc'[q] \in Inside <=> pc[q] \in Inside
        /\ pc'[q] \in Arrived <=> pc[q] \in Arrived
  BY <1>1 DEF BInv, Types, Inside, Arrived
<1>3. Attached' = Attached /\ Waiting' = Waiting /\ Lagging' = Lagging
  BY <1>1, <1>2 DEF Attached, Waiting, Lagging
<1>4. Types'
  BY <1>1 DEF BInv, Types, Inside, Arrived
<1>5. \A q \in Procs : InStep(q)'
  BY <1>1, <1>2 DEF BInv, InStep
<1>6. CountInv' /\ ElectInv'
  BY <1>1, <1>3 DEF BInv, CountInv, ElectInv
<1>. QED
  BY <1>4, <1>5, <1>6 DEF BInv

\* A party begins with its static members, or with nobody.
LEMMA InitBInv == Init => BInv
<1>. SUFFICES ASSUME Init PROVE BInv
  OBVIOUS
<1>1. /\ arrived = 0 /\ phase = 0 /\ elected = 0 /\ winners = {} /\ finished = FALSE
      /\ static_party \in StaticParties
      /\ participants = (IF static_party THEN Cardinality(Procs) ELSE 0)
      /\ pc = [p \in Procs |-> IF static_party THEN "in" ELSE "out"]
      /\ known = [p \in Procs |-> 0]
  BY DEF Init, BarrierInit
<1>2. /\ Cardinality(Procs) \in Nat /\ 0 \in Nat
      /\ 0 \in 0 .. 0 /\ 0 \in 0 .. MaxPhase
  BY SMTT(40), BarrierAssumption, FS_CardinalityType
<1>3. Types
  BY <1>1, <1>2 DEF Types, Inside
<1>4. \A p \in Procs : InStep(p)
  BY <1>1 DEF InStep, Arrived
<1>5. /\ Attached = IF static_party THEN Procs ELSE {}
      /\ Waiting = {} /\ Lagging = {}
  BY <1>1 DEF Attached, Waiting, Lagging, Inside, Arrived
<1>6. CountInv
  <2>1. Cardinality({}) = 0 /\ (Procs # {} => Cardinality(Procs) # 0)
    BY BarrierAssumption, FS_EmptySet
  <2>2. Procs # {} => 0 < Cardinality(Procs)
    BY SMTT(40), <1>2, <2>1
  <2>. QED
    BY <1>1, <1>5, <2>1, <2>2 DEF CountInv
<1>. QED
  BY <1>1, <1>3, <1>4, <1>5, <1>6 DEF BInv, ElectInv

\* Every step keeps the invariant.
LEMMA NextKeeps == BInv /\ [Next]_vars => BInv'
<1>. SUFFICES ASSUME BInv, [Next]_vars PROVE BInv'
  OBVIOUS
<1>1. CASE UNCHANGED <<barrierVars, pc, known, winners, finished, static_party>>
  <2>1. /\ Attached' = Attached /\ Waiting' = Waiting /\ Lagging' = Lagging
    BY <1>1 DEF barrierVars, Attached, Waiting, Lagging
  <2>2. Types' /\ \A q \in Procs : InStep(q)'
    BY <1>1 DEF barrierVars, BInv, Types, InStep
  <2>3. CountInv' /\ ElectInv'
    BY <1>1, <2>1 DEF barrierVars, BInv, CountInv, ElectInv
  <2>. QED
    BY <2>2, <2>3 DEF BInv
<1>2. CASE UNCHANGED vars
  BY <1>1, <1>2 DEF vars
<1>. QED
  BY <1>1, <1>2, ArriveKeeps, AttachKeeps, DetachKeeps, ExceptLastKeeps, ReleasedKeeps,
     WalkKeeps
  DEF Next, Step, Call, Interrupt

\* The barrier uses the condition variable by its functions.
LEMMA BarrierUsesCV == [Next]_vars => [CVNext]_cvVars
BY DEF Next, Step, Call, Interrupt, BarrierArriveAndWait, PrepareToWait, WaitOn,
       Sleep, Released, StopWaiting, WakeAll, BarrierAttach, BarrierDetachImpl,
       BarrierArriveAndDetachExceptLast, vars, CVNext, CVOperation,
       ConditionVariableSleep

-----------------------------------------------------------------------------
(* Sleepers *)

Releasing == {"release", "release_out"}

\* Somebody has still to begin the broadcast that wakes p, or to go on with it.
Awaited(p) == \E q \in Procs : pc[q] \in Releasing \/ p \in due[q]

\* A process that sleeps on, or is on its way to a sleep that it has prepared,
\* unless somebody takes it off the list.
Bound(p) ==
    \/ pc[p] = "wait" /\ SleepsOn(p)
    \/ pc[p] = "sleep" /\ cv_sleep_target[p] /\ Listed(wakeup, p)

WaitInv ==
    \A p \in Procs :
        /\ pc[p] = "sleep" => cvpc[p] = "ready"
        /\ phase # known[p] /\ Bound(p) => Awaited(p)

\* The steps that leave the condition variable alone: whoever begins a phase for
\* others is going to broadcast, and nobody turns to sleep when the phase is over.
LEMMA CallsKeepWaiters ==
    ASSUME BInv, WaitInv, NEW r \in Procs, Call(r) \/ Released(r) \/ WaitOn(r)
    PROVE  WaitInv'
<1>1. UNCHANGED cvVars /\ cvpc[r] = "ready"
  BY DEF Call, Released, WaitOn, BarrierArriveAndWait, BarrierAttach,
         BarrierDetachImpl, BarrierArriveAndDetachExceptLast, At
<1>2. UNCHANGED <<due, wakeup, cvpc, done, cv_sleep_target>>
  BY <1>1 DEF cvVars
<1>3. PICK l \in {"prepare", "sleep", "in", "out", "cancel", "release", "release_out"} :
        pc' = [pc EXCEPT ![r] = l]
  BY DEF Call, Released, WaitOn, BarrierArriveAndWait, BarrierAttach,
         BarrierDetachImpl, BarrierArriveAndDetachExceptLast, At, To, BInv, Types
<1>4. ASSUME NEW p \in Procs PROVE pc'[p] = "sleep" => cvpc'[p] = "ready"
  <2>1. CASE p = r
    BY <1>1, <1>2, <2>1
  <2>2. CASE p # r
    BY <1>2, <1>3, <2>2 DEF WaitInv, BInv, Types
  <2>. QED
    BY <2>1, <2>2
<1>5. ASSUME NEW p \in Procs, phase' # known'[p], Bound(p)' PROVE Awaited(p)'
  <2>1. CASE l \in Releasing
    BY <1>3, <2>1 DEF BInv, Types, Awaited
  <2>2. CASE l = "sleep"
    <3>1. WaitOn(r)
      BY <1>3, <2>2
      DEF Call, Released, BarrierArriveAndWait, BarrierAttach, BarrierDetachImpl,
          BarrierArriveAndDetachExceptLast, At, To, BInv, Types
    <3>2. /\ pc[r] = "wait" /\ phase # known[r] + 1
          /\ phase' = phase /\ known' = known
      BY <3>1 DEF WaitOn, At, barrierVars
    <3>3. phase = known[r]
      BY <3>2 DEF BInv, InStep, Arrived
    <3>4. p # r /\ pc'[p] = pc[p]
      BY <1>3, <1>5, <3>2, <3>3 DEF BInv, Types
    <3>5. Awaited(p)
      BY <1>2, <1>5, <3>2, <3>4 DEF WaitInv, Bound, SleepsOn
    <3>. QED
      BY <1>2, <1>3, <3>2, <3>5 DEF Awaited, Releasing, BInv, Types
  <2>3. CASE l \notin Releasing /\ l # "sleep"
    <3>1. ~WaitOn(r)
      BY <1>3, <2>3 DEF WaitOn, To, BInv, Types
    <3>2. p # r /\ pc'[p] = pc[p]
      BY <1>3, <1>5, <2>3 DEF BInv, Types, Bound
    <3>3. known'[p] = known[p]
      BY <3>1, <3>2
      DEF BInv, Types, Call, Released, BarrierArriveAndWait, BarrierAttach,
          BarrierDetachImpl, BarrierArriveAndDetachExceptLast, Knows
    <3>4. Bound(p)
      BY <1>2, <1>5, <3>2 DEF Bound, SleepsOn
    <3>5. pc[r] \notin Releasing
      BY <3>1
      DEF Call, Released, BarrierArriveAndWait, BarrierAttach, BarrierDetachImpl,
          BarrierArriveAndDetachExceptLast, At, Releasing
    <3>6. CASE phase' = phase
      <4>1. Awaited(p)
        BY <1>5, <3>3, <3>4, <3>6 DEF WaitInv
      <4>. QED
        BY <1>2, <1>3, <3>5, <4>1 DEF Awaited, BInv, Types
    <3>7. CASE phase' # phase
      <4>1. BarrierArriveAndDetachExceptLast(r) /\ ~(participants > 1)
        BY <1>3, <2>3, <3>1, <3>7
        DEF Call, Released, BarrierArriveAndWait, BarrierAttach, BarrierDetachImpl,
            BarrierArriveAndDetachExceptLast, To, Releasing, BInv, Types
      <4>2. Attached = {r}
        BY <4>1, LastAlone
      <4>. QED
        BY <3>2, <3>4, <4>2 DEF Attached, Arrived, Bound
    <3>. QED
      BY <3>6, <3>7
  <2>. QED
    BY <2>1, <2>2, <2>3
<1>. QED
  BY <1>4, <1>5 DEF WaitInv

\* The steps that use the condition variable.
Using(r) ==
    \/ PrepareToWait(r) \/ Sleep(r) \/ StopWaiting(r) \/ WakeAll(r)
    \/ (CVStep(r) \/ LatchSetByOther(r)) /\ UNCHANGED <<barrierVars, pc, known>>

\* They are operations of the condition variable and leave the phase alone.
LEMMA UsingMoves ==
    ASSUME BInv, WaitInv, NEW r \in Procs, Using(r)
    PROVE  /\ CVOperation(r) /\ phase' = phase /\ known' = known
           /\ \A q \in Procs : q # r => pc'[q] = pc[q]
           /\ pc'[r] = "sleep" => pc[r] = "sleep" /\ LatchSetByOther(r)
<1>1. CVOperation(r) /\ phase' = phase /\ known' = known
  BY DEF Using, PrepareToWait, Sleep, StopWaiting, WakeAll, CVOperation,
         ConditionVariableSleep, barrierVars
<1>2. \A q \in Procs : q # r => pc'[q] = pc[q]
  BY DEF Using, PrepareToWait, Sleep, StopWaiting, WakeAll, To, BInv, Types
<1>3. CASE CVStep(r) /\ UNCHANGED pc
  <2>1. cvpc[r] # "ready"
    BY <1>3 DEF CVStep, WaitLatch, Recheck, CheckForInterrupts, SetLatch, PopNext
  <2>. QED
    BY <1>1, <1>2, <1>3, <2>1 DEF WaitInv
<1>4. CASE PrepareToWait(r) \/ Sleep(r) \/ StopWaiting(r) \/ WakeAll(r)
  <2>1. pc'[r] # "sleep"
    BY <1>4 DEF PrepareToWait, Sleep, StopWaiting, WakeAll, To, BInv, Types
  <2>. QED
    BY <1>1, <1>2, <2>1
<1>. QED
  BY <1>1, <1>2, <1>3, <1>4 DEF Using

\* Nobody who has turned to sleep in time is bound by them.
LEMMA BoundBefore ==
    ASSUME BInv, CVInv, WaitInv, NEW r \in Procs, Using(r), NEW p \in Procs, Bound(p)'
    PROVE  Bound(p) /\ cv_sleep_target[p] /\ Listed(wakeup', p)
<1>1. Listed(wakeup', p)
  BY DEF Bound, SleepsOn
<1>2. Bound(p)
  <2>1. CASE p # r
    <3>1. pc'[p] = pc[p]
      BY <2>1, UsingMoves
    <3>2. SleepsOn(p)' => SleepsOn(p)
      BY <2>1, UsingMoves, SleepBegins
    <3>3. cv_sleep_target'[p] = cv_sleep_target[p] /\ Listed(wakeup, p)
      BY <1>1, <2>1, UsingMoves, OthersStay
    <3>. QED
      BY <3>1, <3>2, <3>3 DEF Bound
  <2>2. CASE p = r /\ pc'[r] = "sleep"
    BY <2>2, UsingMoves DEF Bound, LatchSetByOther
  <2>3. CASE p = r /\ pc'[r] # "sleep"
    <3>1. pc'[r] = "wait" /\ SleepsOn(r)'
      BY <2>3 DEF Bound
    <3>2. CASE PrepareToWait(r)
      <4>1. cvpc'[r] = "ready"
        BY <3>2 DEF PrepareToWait, ConditionVariablePrepareToSleep
      <4>. QED
        BY <3>1, <4>1 DEF SleepsOn
    <3>3. CASE StopWaiting(r) \/ WakeAll(r)
      BY <3>1, <3>3 DEF StopWaiting, WakeAll, To, BInv, Types
    <3>4. CASE Sleep(r)
      <4>1. cvpc'[r] # "ready" /\ pc[r] = "sleep"
        BY <3>1, <3>4 DEF SleepsOn, Sleep
      <4>2. cv_sleep_target[r] /\ wakeup' = wakeup
        BY <3>4, <4>1
        DEF Sleep, ConditionVariableSleep, ConditionVariablePrepareToSleep
      <4>. QED
        BY <1>1, <2>3, <4>1, <4>2 DEF Bound
    <3>5. CASE (CVStep(r) \/ LatchSetByOther(r)) /\ UNCHANGED pc
      <4>1. CASE CVStep(r)
        <5>1. cvpc[r] # "ready"
          BY <4>1 DEF CVStep, WaitLatch, Recheck, CheckForInterrupts, SetLatch, PopNext
        <5>2. ~ConditionVariableSleep(r)
          BY <5>1 DEF ConditionVariableSleep, ConditionVariablePrepareToSleep
        <5>. QED
          BY <2>3, <3>1, <3>5, <5>2, UsingMoves, SleepBegins DEF Bound
      <4>2. CASE LatchSetByOther(r)
        BY <2>3, <3>1, <3>5, <4>2 DEF Bound, LatchSetByOther, SleepsOn
      <4>. QED
        BY <3>5, <4>1, <4>2
    <3>. QED
      BY <3>2, <3>3, <3>4, <3>5 DEF Using
  <2>. QED
    BY <2>1, <2>2, <2>3
<1>3. cv_sleep_target[p]
  BY <1>2 DEF Bound, SleepsOn, CVInv, CVProc
<1>. QED
  BY <1>1, <1>2, <1>3

\* The steps that use the condition variable: a broadcast is to wake everybody who
\* waits.
LEMMA UsingKeepsWaiters ==
    ASSUME BInv, CVInv, WaitInv, NEW r \in Procs, Using(r)
    PROVE  WaitInv'
<1>1. ASSUME NEW p \in Procs, pc'[p] = "sleep" PROVE cvpc'[p] = "ready"
  <2>1. CASE p # r
    BY <1>1, <2>1, UsingMoves, OthersStay DEF WaitInv
  <2>2. CASE p = r
    BY <1>1, <2>2, UsingMoves DEF WaitInv, LatchSetByOther
  <2>. QED
    BY <2>1, <2>2
<1>2. ASSUME NEW p \in Procs, phase' # known'[p], Bound(p)' PROVE Awaited(p)'
  <2>1. PICK q \in Procs : pc[q] \in Releasing \/ p \in due[q]
    BY <1>2, BoundBefore, UsingMoves DEF WaitInv, Awaited
  <2>2. CASE p \in due[q]
    <3>1. p \in due'[q]
      BY <1>2, <2>2, BoundBefore, UsingMoves, DueStays
    <3>. QED
      BY <3>1 DEF Awaited
  <2>3. CASE pc[q] \in Releasing /\ pc'[q] = pc[q]
    BY <2>3 DEF Awaited
  <2>4. CASE pc[q] \in Releasing /\ pc'[q] # pc[q]
    <3>1. q = r
      BY <2>4, UsingMoves
    <3>2. ConditionVariableBroadcast(r)
      BY <2>4, <3>1 DEF Using, PrepareToWait, Sleep, StopWaiting, WakeAll, Releasing
    <3>3. p \in due'[r]
      BY <1>2, <3>2, BoundBefore, BroadcastTakesAll
    <3>. QED
      BY <3>3 DEF Awaited
  <2>. QED
    BY <2>1, <2>2, <2>3, <2>4
<1>. QED
  BY <1>1, <1>2 DEF WaitInv

\* Every step keeps the promise to the sleepers.
LEMMA NextKeepsWaiters == BInv /\ CVInv /\ WaitInv /\ [Next]_vars => WaitInv'
<1>. SUFFICES ASSUME BInv, CVInv, WaitInv, [Next]_vars PROVE WaitInv'
  OBVIOUS
<1>1. CASE UNCHANGED vars
  BY <1>1 DEF vars, cvVars, barrierVars, WaitInv, Awaited, Bound, SleepsOn
<1>2. CASE Next
  <2>1. PICK r \in Procs : Step(r) \/ Call(r) \/ Interrupt(r)
    BY <1>2 DEF Next
  <2>. QED
    BY <2>1, CallsKeepWaiters, UsingKeepsWaiters DEF Step, Interrupt, Using
<1>. QED
  BY <1>1, <1>2

-----------------------------------------------------------------------------
(* What holds in every reachable state *)

\* The inductive invariant, of the barrier and of its condition variable.
THEOREM BarrierCounts == Spec => [](BInv /\ CVInv /\ WakeInv /\ WaitInv)
<1>1. Init => CVInv /\ WakeInv /\ WaitInv
  BY CVInitInv, WakeInit DEF Init, BarrierInit, WaitInv, Bound
<1>2. CVInv /\ WakeInv /\ [Next]_vars => CVInv' /\ WakeInv'
  BY BarrierUsesCV, CVNextKeeps, WakeKept
<1>. QED
  BY <1>1, <1>2, InitBInv, NextKeeps, NextKeepsWaiters, PTL DEF Spec

\* The counts fit, a process that works sees the phase that it was told, and one
\* that waits sees the old or the next phase: the phase does not advance
\* without an attached process.
THEOREM BarrierInStep == Spec => []PhaseInStep
<1>1. BInv /\ CVInv => PhaseInStep
  <2>. SUFFICES ASSUME BInv, CVInv PROVE PhaseInStep
    OBVIOUS
  <2>1. Cardinality(Waiting) <= Cardinality(Attached)
    BY SetFacts, FS_Subset
  <2>2. Cardinality(Procs) \in Nat
    BY BarrierAssumption, FS_CardinalityType
  <2>3. participants \in 0 .. Cardinality(Procs) /\ arrived \in 0 .. participants
    BY SMTT(40), <2>1, <2>2, SetFacts DEF BInv, CountInv
  <2>4. TypeOK
    BY <2>3 DEF BInv, Types, CVInv, TypeOK, Inside, Arrived
  <2>. QED
    BY <2>4 DEF BInv, InStep, PhaseInStep, Inside, Arrived
<1>. QED
  BY <1>1, BarrierCounts, PTL

\* At most one participant is told that it is elected for a phase, and one is
\* once somebody has returned from the wait for it, also when the phase began
\* because a process detached.
THEOREM BarrierElectsOne == Spec => []OneElected
<1>1. BInv => OneElected
  <2>. SUFFICES ASSUME BInv PROVE OneElected
    OBVIOUS
  <2>1. ASSUME NEW w \in winners PROVE winners = {w}
    BY DEF BInv, ElectInv
  <2>2. Cardinality(winners) \in {0, 1}
    BY <2>1, FS_EmptySet, FS_Singleton
  <2>3. Cardinality(winners) <= 1
    BY SMTT(40), <2>2
  <2>. QED
    BY <2>3 DEF BInv, ElectInv, OneElected
<1>. QED
  BY <1>1, BarrierCounts, PTL

\* A process that sleeps though the phase that it waits for has begun is going to
\* be woken, however the phase began and whatever its latch is used for.
THEOREM BarrierWakesSleepers == Spec => []SleeperHasWaker
<1>1. BInv /\ CVInv /\ WakeInv /\ WaitInv => SleeperHasWaker
  <2>. SUFFICES ASSUME BInv, CVInv, WakeInv, WaitInv, NEW p \in Procs,
                       pc[p] = "wait", phase = known[p] + 1, Asleep(p)
                PROVE  \/ \E q \in Procs : pc[q] \in {"release", "release_out"}
                                           \/ p \in due[q]
                       \/ AboutToWake(p)
    BY DEF SleeperHasWaker
  <2>1. phase # known[p]
    BY SMTT(40), BarrierAssumption DEF BInv, Types
  <2>2. CASE OnList(p)
    <3>1. SleepsOn(p)
      BY <2>2 DEF SleepsOn, OnList, Listed, Asleep
    <3>. QED
      BY <2>1, <3>1 DEF WaitInv, Bound, Awaited, Releasing
  <2>3. CASE ~OnList(p)
    BY <2>3, CVPromises DEF SignalNotLost
  <2>. QED
    BY <2>2, <2>3
<1>. QED
  BY <1>1, BarrierCounts, PTL

=============================================================================
