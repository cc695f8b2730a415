-------------------------- MODULE ProcSignalProofs --------------------------
(***************************************************************************)
(* Once a wait for a barrier has returned, no process works with stale     *)
(* state: for any number of slots, barriers and errors, and whichever      *)
(* processes start and end meanwhile.                                      *)
(*                                                                         *)
(* The invariant speaks of pairs: a process e that emits a barrier and a   *)
(* process q that has cached what e has replaced.  From the moment at      *)
(* which e has marked the slot of q until q has dropped the state, the     *)
(* mark is set or q is absorbing; q has not advertised the generation of   *)
(* e; and q does not get to advertise it, since a generation that it has   *)
(* read makes it find the mark.                                            *)
(*                                                                         *)
(* As long as no process starts while another one emits, the same pairs    *)
(* give that no notification is lost: once the loop of e has passed the    *)
(* slot of q, either q has absorbed the barrier of e or it is bound to.    *)
(* Between the flag and the signal of e, either the flag is set or q has   *)
(* taken it for the signal of another emitter.                             *)
(***************************************************************************)
EXTENDS ProcSignal, FiniteSetTheorems, TLAPS

\* Zenon proves the leaves that do not name a prover.
USE ZenonT(40)

Starting == {"down", "read_generation", "write_generation", "set_pid", "set_slot"}
Emitting == {"mark", "bump", "kick", "flag", "kill", "wait"}
Numbered == {"kick", "flag", "kill", "wait"}     \* the barrier has its generation

\* Process q works with state from before version v.
Stale(q, v) == Running(q) /\ cached[q] # 0 /\ cached[q] < v

Types ==
    /\ version \in Nat /\ psh_barrierGeneration \in Nat /\ confirmed \in Nat
    /\ cached \in [Procs -> Nat] /\ pss_barrierGeneration \in [Procs -> Nat]
    /\ gen \in [Procs -> Nat] /\ seen \in [Procs -> Nat]
    /\ todo \in [Procs -> Nat] /\ mine \in [Procs -> Nat]
    /\ pc \in [Procs -> Starting \cup Emitting \cup {"run", "clear_pid"}]
    /\ ipc \in [Procs -> {"none", "flags", "absorb", "advertise"}]
    /\ DOMAIN pss_barrierCheckMask = Procs

\* Generations and versions that a process knows exist.
ProcInv(p) ==
    /\ pc[p] \in Starting => cached[p] = 0
    /\ Running(p) \/ pc[p] \in {"set_pid", "set_slot"} =>
         pss_barrierGeneration[p] <= psh_barrierGeneration
    /\ pc[p] \in Numbered \cup {"write_generation"} =>
         gen[p] <= psh_barrierGeneration
    /\ ipc[p] # "none" =>
         pc[p] \in {"run", "wait"} /\ seen[p] <= psh_barrierGeneration
    /\ pc[p] \in Emitting => mine[p] <= version
    /\ pc[p] \in Emitting \ {"bump"} => todo[p] \in Procs

\* What e may rely on of a process q that is stale for its barrier.
PairInv(e, q) ==
    /\ pc[e] \in Emitting
    /\ pc[e] = "mark" => q < todo[e]
    /\ Stale(q, mine[e])
    => /\ pss_barrierCheckMask[q] \/ ipc[q] = "absorb"
       /\ pc[e] \in Numbered =>
            /\ pss_barrierGeneration[q] < gen[e]
            /\ ipc[q] # "none" /\ gen[e] <= seen[q] =>
                 ipc[q] = "absorb" \/ (ipc[q] = "flags" /\ pss_barrierCheckMask[q])
       /\ pc[e] = "wait" => q <= todo[e]

IInv ==
    /\ Types
    /\ \A p \in Procs : ProcInv(p)
    /\ \A e, q \in Procs : PairInv(e, q)
    /\ confirmed <= version
    /\ NothingStale

\* A loop over the slots starts at the first or the last one and stays among them.
LEMMA SlotFacts ==
    ASSUME NEW q \in Procs
    PROVE  /\ q \in Nat \ {0} /\ q <= NumSlots /\ ~ (q > NumSlots)
           /\ NumSlots \in Procs /\ NumSlots \in Nat
           /\ 1 \in Procs /\ ~ (q < 1)
           /\ q # 1 => q - 1 \in Procs
           /\ q # NumSlots => q + 1 \in Procs
           /\ q - 1 \in Nat /\ q + 1 \in Nat
BY SMTT(40), ProcSignalAssumption DEF Procs

-----------------------------------------------------------------------------
(* What a step leaves alone *)

SameEmitter(e) ==
    pc'[e] = pc[e] /\ gen'[e] = gen[e] /\ todo'[e] = todo[e] /\ mine'[e] = mine[e]

SameReceiver(q) ==
    /\ Running(q)' => Running(q)
    /\ cached'[q] = cached[q]
    /\ pss_barrierGeneration'[q] = pss_barrierGeneration[q]
    /\ ipc'[q] = ipc[q] /\ seen'[q] = seen[q]
    /\ pss_barrierCheckMask[q] => pss_barrierCheckMask'[q]

\* A pair of which the step changes neither side.
LEMMA PairKept ==
    ASSUME IInv, NEW e \in Procs, NEW q \in Procs, SameEmitter(e), SameReceiver(q)
    PROVE  PairInv(e, q)'
<1>1. PairInv(e, q)
  BY DEF IInv
<1>2. Stale(q, mine[e])' => Stale(q, mine[e])
  BY DEF SameEmitter, SameReceiver, Stale
<1>. QED
  BY <1>1, <1>2 DEF PairInv, SameEmitter, SameReceiver

\* A process that the step leaves alone.
LEMMA ProcKept ==
    ASSUME IInv, NEW q \in Procs, SameEmitter(q),
           cached'[q] = cached[q], ipc'[q] = ipc[q], seen'[q] = seen[q],
           pss_barrierGeneration'[q] = pss_barrierGeneration[q],
           Types', psh_barrierGeneration <= psh_barrierGeneration',
           version <= version'
    PROVE  ProcInv(q)'
<1>1. ProcInv(q)
  BY DEF IInv
<1>. QED
  BY SMTT(40), <1>1 DEF IInv, Types, ProcInv, Running, SameEmitter

\* The initial state.
LEMMA InitIInv == Init => IInv
<1>. SUFFICES ASSUME Init PROVE IInv
  OBVIOUS
<1>1. Types
  BY SMTT(40), ProcSignalAssumption
  DEF Init, ProcSignalShmemInit, Types, Infinite, Starting, Emitting
<1>2. \A p \in Procs : ProcInv(p)
  BY SMTT(40), ProcSignalAssumption
  DEF Init, ProcSignalShmemInit, ProcInv, Running, Starting, Emitting, Numbered
<1>3. \A e, q \in Procs : PairInv(e, q)
  BY DEF Init, PairInv, Emitting
<1>. QED
  BY SMTT(40), <1>1, <1>2, <1>3 DEF IInv, Init, NothingStale

\* A step of process p: the other processes are as they were, but for marks
\* that it has set.
Others(p) ==
    /\ psh_barrierGeneration <= psh_barrierGeneration'
    /\ version <= version'
    /\ \A q \in Procs \ {p} :
         /\ SameEmitter(q)
         /\ cached'[q] = cached[q] /\ ipc'[q] = ipc[q] /\ seen'[q] = seen[q]
         /\ pss_barrierGeneration'[q] = pss_barrierGeneration[q]
         /\ pss_barrierCheckMask[q] => pss_barrierCheckMask'[q]

\* What is left to show for such a step.
LEMMA Assemble ==
    ASSUME IInv, NEW p \in Procs, Types', Others(p), ProcInv(p)',
           \A q \in Procs : PairInv(p, q)',
           \A e \in Procs \ {p} : PairInv(e, p)',
           confirmed' <= version', NothingStale'
    PROVE  IInv'
<1>1. \A q \in Procs : ProcInv(q)'
  BY ProcKept DEF Others
<1>2. \A q \in Procs \ {p} : SameEmitter(q) /\ SameReceiver(q)
  BY DEF Others, SameReceiver, SameEmitter, Running
<1>3. \A e, q \in Procs : PairInv(e, q)'
  BY <1>2, PairKept
<1>. QED
  BY <1>1, <1>3 DEF IInv

\* A process that is not stale stays so, and confirms nothing.
LEMMA FreshKept ==
    ASSUME IInv, NEW p \in Procs, Others(p), confirmed' = confirmed,
           Running(p)' => cached'[p] = 0 \/ cached'[p] >= confirmed
    PROVE  NothingStale'
BY DEF IInv, NothingStale, Others, SameEmitter, Running

\* A step of p after which p holds nothing that could be stale.
LEMMA FreshStep ==
    ASSUME IInv, NEW p \in Procs, Types', Others(p), ProcInv(p)',
           Running(p)' => cached'[p] = 0 \/ cached'[p] = version,
           version' = version, pc'[p] \notin Emitting, confirmed' = confirmed
    PROVE  IInv'
<1>1. \A q \in Procs : PairInv(p, q)'
  BY DEF PairInv
<1>2. ASSUME NEW e \in Procs \ {p} PROVE PairInv(e, p)'
  <2>1. pc'[e] \in Emitting => mine'[e] <= version /\ mine'[e] \in Nat
    BY SMTT(40) DEF IInv, ProcInv, Types, Others, SameEmitter
  <2>2. pc'[e] \in Emitting => ~ Stale(p, mine[e])'
    BY SMTT(40), <2>1 DEF Stale, IInv, Types
  <2>. QED
    BY <2>2 DEF PairInv
<1>3. NothingStale'
  BY FreshKept DEF IInv, Types
<1>4. confirmed' <= version'
  BY DEF IInv
<1>. QED
  BY <1>1, <1>2, <1>3, <1>4, Assemble

-----------------------------------------------------------------------------
(* Starting, ending and caching *)

\* A process that starts has cached nothing yet.
LEMMA StartKeeps ==
    ASSUME IInv, NEW p \in Procs,
           \/ ProcSignalInit(p) \/ ReadGeneration(p) \/ WriteGeneration(p)
           \/ SetPid(p) \/ SetSlot(p)
    PROVE  IInv'
<1>. USE DEF slotVars, signalVars, emitVars, history, To
<1>1. Types'
  BY SMTT(40) DEF IInv, Types, ProcSignalInit, ReadGeneration, WriteGeneration, SetPid,
         SetSlot, Starting
<1>2. Others(p)
  BY SMTT(40) DEF IInv, Types, Others, SameEmitter, ProcSignalInit, ReadGeneration,
         WriteGeneration, SetPid, SetSlot
<1>3. pc[p] \in Starting /\ pc'[p] \in (Starting \cup {"run"}) \ {"down"}
  BY DEF IInv, Types, ProcSignalInit, ReadGeneration, WriteGeneration, SetPid,
         SetSlot, Starting
<1>4. ProcInv(p) /\ cached[p] = 0 /\ ipc[p] = "none"
  BY <1>3 DEF IInv, ProcInv, Starting
<1>5. ProcInv(p)'
  BY SMTT(40), <1>3, <1>4
  DEF IInv, Types, ProcInv, ProcSignalInit, ReadGeneration, WriteGeneration,
      SetPid, SetSlot, Starting, Emitting, Numbered, Running
<1>6. /\ cached' = cached /\ version' = version /\ confirmed' = confirmed
      /\ pc'[p] \notin Emitting
  BY <1>3 DEF ProcSignalInit, ReadGeneration, WriteGeneration, SetPid, SetSlot,
              Starting, Emitting
<1>. QED
  BY <1>1, <1>2, <1>4, <1>5, <1>6, FreshStep

\* A process that ends does not work with what it has cached, and one that
\* caches has the current version.
LEMMA EndKeeps ==
    ASSUME IInv, NEW p \in Procs,
           CleanupProcSignalState(p) \/ ClearPid(p) \/ Cache(p)
    PROVE  IInv'
<1>. USE DEF slotVars, signalVars, emitVars, history, To
<1>1. Types'
  BY SMTT(40), ProcSignalAssumption
  DEF IInv, Types, CleanupProcSignalState, ClearPid, Cache, Starting, Infinite
<1>2. Others(p)
  BY SMTT(40) DEF IInv, Types, Others, SameEmitter, CleanupProcSignalState, ClearPid, Cache
<1>3. /\ pc'[p] \in {"clear_pid", "down", "run"}
      /\ pc'[p] = "down" => cached'[p] = 0
      /\ pc'[p] = "run" => pc[p] = "run" /\ cached'[p] = version
      /\ ipc' = ipc /\ ipc[p] = "none"
      /\ pc'[p] = "run" => pss_barrierGeneration' = pss_barrierGeneration
      /\ version' = version /\ confirmed' = confirmed
      /\ psh_barrierGeneration' = psh_barrierGeneration
  BY SMTT(40) DEF IInv, Types, ProcInv, CleanupProcSignalState, ClearPid, Cache
<1>4. ProcInv(p)'
  BY <1>3 DEF IInv, ProcInv, Starting, Emitting, Numbered, Running
<1>. QED
  BY <1>1, <1>2, <1>3, <1>4, FreshStep DEF Emitting, Running

-----------------------------------------------------------------------------
(* Emitting *)

\* A step of an emitter changes nothing that the barriers of others look at.
LEMMA EmitStep ==
    ASSUME IInv, NEW p \in Procs, Types', Others(p), ProcInv(p)', SameReceiver(p),
           \A q \in Procs : PairInv(p, q)', confirmed' = confirmed
    PROVE  IInv'
<1>1. \A e \in Procs \ {p} : PairInv(e, p)'
  BY PairKept DEF Others
<1>2. NothingStale'
  BY FreshKept DEF IInv, NothingStale, SameReceiver
<1>3. confirmed' <= version'
  BY SMTT(40) DEF IInv, Types, Others
<1>. QED
  BY <1>1, <1>2, <1>3, Assemble

\* A new version: no slot is marked yet.
LEMMA ChangeKeeps ==
    ASSUME IInv, NEW p \in Procs, Change(p)
    PROVE  IInv'
<1>. USE DEF slotVars, signalVars, emitVars, history, To
<1>1. Types' /\ Others(p) /\ SameReceiver(p)
  BY SMTT(40), ProcSignalAssumption
  DEF IInv, Types, Others, SameEmitter, SameReceiver, Running, Change, Emitting
<1>2. 1 \in Procs
  BY SlotFacts
<1>3. /\ pc[p] = "run" /\ pc'[p] = "mark" /\ todo'[p] = 1
      /\ mine'[p] = version' /\ ipc[p] = "none" /\ ipc' = ipc
      /\ version' \in Nat /\ confirmed' = confirmed
  BY SMTT(40) DEF IInv, Types, Change
<1>4. ProcInv(p)'
  BY SMTT(40), <1>2, <1>3
  DEF IInv, Types, ProcInv, Running, Change, Starting, Emitting, Numbered
<1>5. \A q \in Procs : PairInv(p, q)'
  BY <1>3, SlotFacts DEF PairInv
<1>. QED
  BY <1>1, <1>3, <1>4, <1>5, EmitStep

\* One more slot is marked.
LEMMA MarkKeeps ==
    ASSUME IInv, NEW p \in Procs, MarkSlot(p)
    PROVE  IInv'
<1>. USE DEF slotVars, signalVars, emitVars, history, To
<1>1. /\ pc[p] = "mark" /\ todo[p] \in Procs
      /\ pc' = [pc EXCEPT ![p] = IF todo[p] = NumSlots THEN "bump" ELSE "mark"]
      /\ pc'[p] = IF todo[p] = NumSlots THEN "bump" ELSE "mark"
      /\ todo'[p] = IF todo[p] = NumSlots THEN 0 ELSE todo[p] + 1
      /\ todo[p] + 1 \in Nat /\ todo[p] \in Nat
      /\ todo[p] # NumSlots => todo[p] + 1 \in Procs
  BY SlotFacts DEF IInv, Types, ProcInv, MarkSlot, Emitting
<1>2. Types' /\ Others(p) /\ SameReceiver(p)
  BY SMTT(40), <1>1
  DEF IInv, Types, Others, SameEmitter, SameReceiver, Running, MarkSlot, Emitting
<1>3. ProcInv(p)'
  BY <1>1
  DEF IInv, Types, ProcInv, Running, MarkSlot, Starting, Emitting, Numbered
<1>4. ASSUME NEW q \in Procs PROVE PairInv(p, q)'
  <2>1. CASE q = todo[p]
    BY <1>1, <2>1 DEF IInv, Types, PairInv, MarkSlot, Numbered
  <2>2. CASE q # todo[p]
    <3>1. PairInv(p, q)
      BY DEF IInv
    <3>2. q < todo'[p] \/ pc'[p] = "bump" => q < todo[p]
      <4>1. q \in Nat \ {0} /\ q <= NumSlots /\ NumSlots \in Nat
        BY SlotFacts
      <4>2. pc'[p] = "bump" => todo[p] = NumSlots
        BY <1>1
      <4>. QED
        BY SMTT(40), <1>1, <2>2, <4>1, <4>2
    <3>3. Stale(q, mine[p])' => Stale(q, mine[p])
      BY <1>1 DEF IInv, Types, Stale, Running, MarkSlot
    <3>4. pss_barrierCheckMask[q] => pss_barrierCheckMask'[q]
      BY <2>2 DEF IInv, Types, MarkSlot
    <3>. QED
      BY <1>1, <3>1, <3>2, <3>3, <3>4 DEF PairInv, MarkSlot, Emitting, Numbered
  <2>. QED
    BY <2>1, <2>2
<1>5. confirmed' = confirmed
  BY DEF MarkSlot
<1>. QED
  BY <1>2, <1>3, <1>4, <1>5, EmitStep

\* The barrier gets a generation that nobody can have read.
LEMMA BumpKeeps ==
    ASSUME IInv, NEW p \in Procs, IncrementGeneration(p)
    PROVE  IInv'
<1>. USE DEF slotVars, signalVars, emitVars, history, To
<1>1. NumSlots \in Procs /\ NumSlots \in Nat
  BY SlotFacts
<1>2. /\ pc[p] = "bump" /\ pc'[p] = "kick" /\ todo'[p] = NumSlots
      /\ gen'[p] = psh_barrierGeneration'
      /\ psh_barrierGeneration' = psh_barrierGeneration + 1
      /\ psh_barrierGeneration \in Nat
  BY DEF IInv, Types, IncrementGeneration
<1>3. Types' /\ Others(p) /\ SameReceiver(p)
  BY SMTT(40), <1>1, <1>2
  DEF IInv, Types, Others, SameEmitter, SameReceiver, Running,
      IncrementGeneration, Emitting
<1>4. ProcInv(p)'
  BY SMTT(40), <1>1, <1>2
  DEF IInv, Types, ProcInv, Running, IncrementGeneration, Starting, Emitting,
      Numbered
<1>5. ASSUME NEW q \in Procs PROVE PairInv(p, q)'
  <2>1. PairInv(p, q) /\ ProcInv(q)
    BY DEF IInv
  <2>2. Stale(q, mine[p])' => Stale(q, mine[p])
    BY <1>2 DEF IInv, Types, Stale, Running, IncrementGeneration
  <2>3. Stale(q, mine[p]) => pss_barrierGeneration[q] < gen'[p]
    BY SMTT(40), <1>2, <2>1 DEF IInv, Types, Stale, ProcInv
  <2>4. ipc[q] # "none" => seen[q] < gen'[p]
    BY SMTT(40), <1>2, <2>1 DEF IInv, Types, ProcInv
  <2>5. gen'[p] \in Nat /\ seen[q] \in Nat
    BY SMTT(40), <1>2 DEF IInv, Types
  <2>. QED
    BY SMTT(40), <1>2, <2>1, <2>2, <2>3, <2>4, <2>5
    DEF PairInv, IncrementGeneration, Emitting, Numbered
<1>6. confirmed' = confirmed
  BY DEF IncrementGeneration
<1>. QED
  BY <1>3, <1>4, <1>5, <1>6, EmitStep

\* The processes of the slots are signaled.
LEMMA KickKeeps ==
    ASSUME IInv, NEW p \in Procs, ReadPid(p) \/ FlagSlot(p) \/ SignalProcess(p)
    PROVE  IInv'
<1>. USE DEF slotVars, signalVars, emitVars, history, To
<1>1. /\ NumSlots \in Procs /\ NumSlots \in Nat
      /\ pc[p] \in {"kick", "flag", "kill"} /\ todo[p] \in Procs
      /\ todo[p] \in Nat /\ todo[p] - 1 \in Nat
      /\ todo[p] # 1 => todo[p] - 1 \in Procs
      /\ \A q \in Procs : q \in Nat /\ q <= NumSlots
  BY SlotFacts DEF IInv, ProcInv, ReadPid, FlagSlot, SignalProcess, Emitting
<1>2. \/ pc' = [pc EXCEPT ![p] = "wait"] /\ todo' = [todo EXCEPT ![p] = NumSlots]
      \/ pc' = [pc EXCEPT ![p] = "kick"] /\ todo' = [todo EXCEPT ![p] = @ - 1]
         /\ todo[p] # 1
      \/ \E l \in {"flag", "kill"} : pc' = [pc EXCEPT ![p] = l] /\ todo' = todo
  BY DEF ReadPid, FlagSlot, SignalProcess, NextSlot
<1>3. /\ pc'[p] \in Numbered /\ todo'[p] \in Procs /\ todo'[p] \in Nat
      /\ pc'[p] = "wait" => todo'[p] = NumSlots
  BY <1>1, <1>2 DEF IInv, Types, Numbered
<1>4. UNCHANGED <<version, cached, psh_barrierGeneration, pss_barrierGeneration,
                  pss_barrierCheckMask, ipc, seen, gen, mine, confirmed>>
  BY DEF ReadPid, FlagSlot, SignalProcess
<1>5. /\ pc' \in [Procs -> Starting \cup Emitting \cup {"run", "clear_pid"}]
      /\ todo' \in [Procs -> Nat]
      /\ \A q \in Procs \ {p} : pc'[q] = pc[q] /\ todo'[q] = todo[q]
  BY <1>2, <1>3 DEF IInv, Types, Emitting
<1>6. Types' /\ Others(p) /\ SameReceiver(p)
  BY SMTT(40), <1>1, <1>4, <1>5
  DEF IInv, Types, Others, SameEmitter, SameReceiver, Running
<1>7. ProcInv(p)'
  BY <1>1, <1>3, <1>4
  DEF IInv, Types, ProcInv, Running, Starting, Emitting, Numbered
<1>8. ASSUME NEW q \in Procs PROVE PairInv(p, q)'
  <2>1. PairInv(p, q)
    BY DEF IInv
  <2>2. Stale(q, mine[p])' => Stale(q, mine[p])
    BY <1>1, <1>4, <1>5 DEF IInv, Types, Stale, Running
  <2>. QED
    BY <1>1, <1>3, <1>4, <2>1, <2>2 DEF PairInv, Emitting, Numbered
<1>. QED
  BY <1>4, <1>6, <1>7, <1>8, EmitStep

\* A slot has reached the generation: its process is not stale.  After the
\* last slot nobody is.
LEMMA WaitKeeps ==
    ASSUME IInv, NEW p \in Procs, WaitForProcSignalBarrier(p)
    PROVE  IInv'
<1>. USE DEF slotVars, signalVars, emitVars, history, To
<1>1. /\ pc[p] = "wait" /\ todo[p] \in Procs /\ ipc[p] = "none"
      /\ todo[p] \in Nat \ {0} /\ todo[p] - 1 \in Nat
      /\ todo[p] # 1 => todo[p] - 1 \in Procs
      /\ pss_barrierGeneration[todo[p]] >= gen[p]
      /\ todo' = [todo EXCEPT ![p] = todo[p] - 1]
      /\ UNCHANGED <<version, cached, psh_barrierGeneration,
                     pss_barrierGeneration, pss_barrierCheckMask, ipc, seen>>
  BY SlotFacts DEF IInv, ProcInv, WaitForProcSignalBarrier, Emitting
<1>2. mine[p] \in Nat /\ mine[p] <= version /\ todo'[p] = todo[p] - 1
  BY <1>1 DEF IInv, Types, ProcInv, Emitting
<1>3. \A q \in Procs : q >= todo[p] => ~ Stale(q, mine[p])
  <2>. SUFFICES ASSUME NEW q \in Procs, q >= todo[p], Stale(q, mine[p])
                PROVE  FALSE
    OBVIOUS
  <2>1. q <= todo[p] /\ pss_barrierGeneration[q] < gen[p]
    BY <1>1 DEF IInv, PairInv, Emitting, Numbered
  <2>2. q = todo[p]
    <3>1. q \in Nat
      BY SlotFacts
    <3>. QED
      BY SMTT(40), <1>1, <2>1, <3>1
  <2>. QED
    BY SMTT(40), <1>1, <2>1, <2>2 DEF IInv, Types
<1>4. CASE todo[p] = 1
  <2>1. /\ pc' = [pc EXCEPT ![p] = "run"]
        /\ gen' = [gen EXCEPT ![p] = 0]
        /\ mine' = [mine EXCEPT ![p] = 0]
        /\ confirmed' = IF mine[p] > confirmed THEN mine[p] ELSE confirmed
    BY <1>4 DEF WaitForProcSignalBarrier
  <2>2. Types' /\ Others(p) /\ SameReceiver(p)
    BY SMTT(40), <1>1, <1>2, <2>1
    DEF IInv, Types, Others, SameEmitter, SameReceiver, Running, Emitting
  <2>3. ProcInv(p)'
    BY <1>1, <2>1
    DEF IInv, Types, ProcInv, Running, Starting, Emitting, Numbered
  <2>4. \A q \in Procs : PairInv(p, q)'
    BY <2>1 DEF IInv, Types, PairInv, Emitting
  <2>5. \A e \in Procs \ {p} : PairInv(e, p)'
    BY <2>2, PairKept DEF Others
  <2>6. NothingStale'
    <3>1. ASSUME NEW q \in Procs, Running(q)' PROVE Running(q)
      BY <1>1, <2>1, <3>1 DEF IInv, Types, Running
    <3>2. \A q \in Procs : ~ Stale(q, mine[p])
      BY SMTT(40), <1>3, <1>4, SlotFacts
    <3>3. ASSUME NEW q \in Procs, Running(q)'
          PROVE  cached[q] = 0 \/ cached[q] >= confirmed'
      BY SMTT(40), <1>2, <2>1, <3>1, <3>2, <3>3 DEF IInv, Types, NothingStale, Stale
    <3>. QED
      BY <1>1, <3>3 DEF NothingStale
  <2>7. confirmed' <= version'
    BY <1>1, <1>2, <2>1 DEF IInv
  <2>. QED
    BY <2>2, <2>3, <2>4, <2>5, <2>6, <2>7, Assemble
<1>5. CASE todo[p] # 1
  <2>1. UNCHANGED <<confirmed, gen, mine, pc>>
    BY <1>5 DEF WaitForProcSignalBarrier
  <2>2. Types' /\ Others(p) /\ SameReceiver(p)
    BY SMTT(40), <1>1, <2>1
    DEF IInv, Types, Others, SameEmitter, SameReceiver, Running
  <2>3. ProcInv(p)'
    BY <1>1, <1>2, <1>5, <2>1 DEF IInv, Types, ProcInv, Running
  <2>4. ASSUME NEW q \in Procs PROVE PairInv(p, q)'
    <3>1. PairInv(p, q) /\ q \in Nat
      BY SlotFacts DEF IInv
    <3>2. Stale(q, mine[p])' => Stale(q, mine[p])
      BY <1>1, <2>1 DEF Stale, Running
    <3>3. Stale(q, mine[p]) => q <= todo'[p]
      BY SMTT(40), <1>1, <1>2, <1>3, <3>1
    <3>. QED
      BY <1>1, <2>1, <3>1, <3>2, <3>3 DEF PairInv
  <2>. QED
    BY <2>1, <2>2, <2>3, <2>4, EmitStep
<1>. QED
  BY <1>4, <1>5

-----------------------------------------------------------------------------
(* Absorbing *)

\* A step of the interrupt handling of p: its own barrier goes on as it was.
LEMMA AbsorbStep ==
    ASSUME IInv, NEW p \in Procs, Types', Others(p), ProcInv(p)', SameEmitter(p),
           \A e \in Procs : PairInv(e, p)',
           Running(p)' => cached'[p] = 0 \/ cached'[p] = cached[p],
           confirmed' = confirmed
    PROVE  IInv'
<1>1. \A q \in Procs \ {p} : SameReceiver(q)
  BY DEF Others, SameEmitter, SameReceiver, Running
<1>2. \A q \in Procs : PairInv(p, q)'
  BY <1>1, PairKept
<1>3. NothingStale'
  BY FreshKept DEF IInv, NothingStale, SameEmitter, Running
<1>4. confirmed' <= version'
  BY SMTT(40) DEF IInv, Types, Others
<1>. QED
  BY <1>2, <1>3, <1>4, Assemble

\* The signal handler touches nothing that the argument is about.
LEMMA HandlerKeeps ==
    ASSUME IInv, UNCHANGED <<version, cached, psh_barrierGeneration,
                             pss_barrierGeneration, pss_barrierCheckMask, pc, ipc,
                             seen, gen, todo, mine, confirmed>>
    PROVE  IInv'
<1>1. Types' /\ \A q \in Procs : ProcInv(q)'
  BY DEF IInv, Types, ProcInv, Running
<1>2. \A e, q \in Procs : PairInv(e, q)'
  BY PairKept DEF SameEmitter, SameReceiver, Running
<1>. QED
  BY <1>1, <1>2 DEF IInv, NothingStale, Running

\* Reading the generation: whoever is stale for a barrier that has it is
\* marked.
LEMMA ProcessKeeps ==
    ASSUME IInv, NEW p \in Procs, ProcessProcSignalBarrier(p)
    PROVE  IInv'
<1>. USE DEF slotVars, signalVars, emitVars, history, Into
<1>1. /\ pc[p] \in {"run", "wait"} /\ ipc[p] = "none"
      /\ UNCHANGED <<version, cached, psh_barrierGeneration,
                     pss_barrierGeneration, pss_barrierCheckMask, pc, gen, todo,
                     mine, confirmed>>
  BY DEF ProcessProcSignalBarrier
<1>2. CASE UNCHANGED <<ipc, seen>>
  BY <1>1, <1>2, HandlerKeeps
<1>3. CASE /\ seen' = [seen EXCEPT ![p] = psh_barrierGeneration]
           /\ ipc' = [ipc EXCEPT ![p] = "flags"]
  <2>1. Types' /\ Others(p) /\ SameEmitter(p)
    BY SMTT(40), <1>1, <1>3 DEF IInv, Types, Others, SameEmitter
  <2>2. ProcInv(p)'
    BY SMTT(40), <1>1, <1>3 DEF IInv, Types, ProcInv, Running
  <2>3. ASSUME NEW e \in Procs PROVE PairInv(e, p)'
    <3>1. PairInv(e, p)
      BY DEF IInv
    <3>2. Stale(p, mine[e])' => Stale(p, mine[e])
      BY <1>1 DEF Stale, Running
    <3>3. ipc'[p] = "flags"
      BY <1>3 DEF IInv, Types
    <3>. QED
      BY <1>1, <3>1, <3>2, <3>3 DEF PairInv
  <2>. QED
    BY <1>1, <2>1, <2>2, <2>3, AbsorbStep
<1>. QED
  BY <1>2, <1>3 DEF ProcessProcSignalBarrier

\* Taking the mark: a process that was marked goes on to absorb.
LEMMA TakeKeeps ==
    ASSUME IInv, NEW p \in Procs, TakeFlags(p)
    PROVE  IInv'
<1>. USE DEF slotVars, signalVars, emitVars, history, Into
<1>1. /\ ipc[p] = "flags"
      /\ pss_barrierCheckMask' = [pss_barrierCheckMask EXCEPT ![p] = FALSE]
      /\ ipc' = [ipc EXCEPT ![p] = IF pss_barrierCheckMask[p] THEN "absorb"
                                                              ELSE "advertise"]
      /\ UNCHANGED <<version, cached, psh_barrierGeneration,
                     pss_barrierGeneration, pc, seen, gen, todo, mine, confirmed>>
  BY DEF TakeFlags
<1>2. Types' /\ Others(p) /\ SameEmitter(p)
  BY SMTT(40), <1>1 DEF IInv, Types, Others, SameEmitter
<1>3. ProcInv(p)'
  BY <1>1 DEF IInv, Types, ProcInv, Running
<1>4. ASSUME NEW e \in Procs PROVE PairInv(e, p)'
  <2>1. PairInv(e, p)
    BY DEF IInv
  <2>2. Stale(p, mine[e])' => Stale(p, mine[e])
    BY <1>1 DEF Stale, Running
  <2>3. pss_barrierCheckMask[p] => ipc'[p] = "absorb"
    BY <1>1 DEF IInv, Types
  <2>. QED
    BY <1>1, <2>1, <2>2, <2>3 DEF PairInv
<1>. QED
  BY <1>1, <1>2, <1>3, <1>4, AbsorbStep

\* Absorbing: nothing stale is left.
LEMMA AbsorbKeeps ==
    ASSUME IInv, NEW p \in Procs, AbsorbBarrier(p)
    PROVE  IInv'
<1>. USE DEF slotVars, signalVars, emitVars, history, Into
<1>1. /\ ipc[p] = "absorb"
      /\ cached' = [cached EXCEPT ![p] = 0]
      /\ ipc' = [ipc EXCEPT ![p] = "advertise"]
      /\ UNCHANGED <<version, psh_barrierGeneration, pss_barrierGeneration,
                     pss_barrierCheckMask, pc, seen, gen, todo, mine, confirmed>>
  BY DEF AbsorbBarrier
<1>2. Types' /\ Others(p) /\ SameEmitter(p) /\ cached'[p] = 0
  BY SMTT(40), <1>1 DEF IInv, Types, Others, SameEmitter
<1>3. ProcInv(p)'
  BY <1>1, <1>2 DEF IInv, Types, ProcInv, Running
<1>4. \A e \in Procs : PairInv(e, p)'
  BY <1>2 DEF PairInv, Stale
<1>. QED
  BY <1>1, <1>2, <1>3, <1>4, AbsorbStep

\* An error: the mark is set again, and a barrier of p is given up.
LEMMA FailKeeps ==
    ASSUME IInv, NEW p \in Procs, AbsorbFails(p)
    PROVE  IInv'
<1>. USE DEF slotVars, signalVars, emitVars, history, Into, To
<1>1. /\ ipc[p] = "absorb" /\ pc' = [pc EXCEPT ![p] = "run"]
      /\ pss_barrierCheckMask' = [pss_barrierCheckMask EXCEPT ![p] = TRUE]
      /\ ipc' = [ipc EXCEPT ![p] = "none"]
      /\ todo' = [todo EXCEPT ![p] = 0] /\ gen' = [gen EXCEPT ![p] = 0]
      /\ mine' = [mine EXCEPT ![p] = 0] /\ seen' = [seen EXCEPT ![p] = 0]
      /\ UNCHANGED <<version, cached, psh_barrierGeneration,
                     pss_barrierGeneration, confirmed>>
  BY DEF AbsorbFails
<1>2. Types' /\ Others(p) /\ Running(p)
  BY SMTT(40), <1>1 DEF IInv, Types, Others, SameEmitter, ProcInv, Running
<1>3. pc'[p] = "run" /\ ipc'[p] = "none" /\ pss_barrierCheckMask'[p]
  BY <1>1 DEF IInv, Types
<1>4. ProcInv(p)'
  BY <1>1, <1>2, <1>3
  DEF IInv, Types, ProcInv, Running, Starting, Emitting, Numbered
<1>5. \A q \in Procs : PairInv(p, q)'
  BY <1>3 DEF PairInv, Emitting
<1>6. ASSUME NEW e \in Procs \ {p} PROVE PairInv(e, p)'
  <2>1. PairInv(e, p) /\ SameEmitter(e)
    BY <1>2 DEF IInv, Others
  <2>2. Stale(p, mine[e])' => Stale(p, mine[e])
    BY <1>1, <1>2, <2>1 DEF Stale, SameEmitter
  <2>. QED
    BY <1>1, <1>3, <2>1, <2>2 DEF PairInv, SameEmitter
<1>7. NothingStale'
  BY <1>1, <1>2, FreshKept DEF IInv, NothingStale
<1>8. confirmed' <= version'
  BY <1>1 DEF IInv
<1>. QED
  BY <1>2, <1>4, <1>5, <1>6, <1>7, <1>8, Assemble

\* Advertising: the generation is older than that of any barrier for which p
\* is stale.
LEMMA AdvertiseKeeps ==
    ASSUME IInv, NEW p \in Procs, Advertise(p)
    PROVE  IInv'
<1>. USE DEF slotVars, signalVars, emitVars, history, Into
<1>1. /\ ipc[p] = "advertise"
      /\ pss_barrierGeneration' = [pss_barrierGeneration EXCEPT ![p] = seen[p]]
      /\ seen' = [seen EXCEPT ![p] = 0]
      /\ ipc' = [ipc EXCEPT ![p] = "none"]
      /\ UNCHANGED <<version, cached, psh_barrierGeneration,
                     pss_barrierCheckMask, pc, gen, todo, mine, confirmed>>
  BY DEF Advertise
<1>2. Types' /\ Others(p) /\ SameEmitter(p)
  BY SMTT(40), <1>1 DEF IInv, Types, Others, SameEmitter
<1>3. ipc'[p] = "none" /\ pss_barrierGeneration'[p] = seen[p]
  BY <1>1 DEF IInv, Types
<1>4. ProcInv(p)'
  BY <1>1, <1>3 DEF IInv, ProcInv, Running
<1>5. ASSUME NEW e \in Procs PROVE PairInv(e, p)'
  <2>1. PairInv(e, p)
    BY DEF IInv
  <2>2. Stale(p, mine[e])' => Stale(p, mine[e])
    BY <1>1 DEF Stale, Running
  <2>3. ~ (gen[e] <= seen[p]) => seen[p] < gen[e]
    BY SMTT(40) DEF IInv, Types
  <2>. QED
    BY <1>1, <1>3, <2>1, <2>2, <2>3 DEF PairInv
<1>. QED
  BY <1>1, <1>2, <1>4, <1>5, AbsorbStep

-----------------------------------------------------------------------------
(* Nothing is stale *)

\* Every step keeps the invariant.
LEMMA NextKeeps == IInv /\ [Next]_vars => IInv'
<1>. SUFFICES ASSUME IInv, [Next]_vars PROVE IInv'
  OBVIOUS
<1>1. ASSUME NEW p \in Procs, Step(p) PROVE IInv'
  BY <1>1, StartKeeps, EndKeeps, MarkKeeps, BumpKeeps, KickKeeps, WaitKeeps DEF Step
<1>2. ASSUME NEW p \in Procs, SigusrHandler(p) PROVE IInv'
  BY <1>2, HandlerKeeps DEF SigusrHandler, slotVars, emitVars, history
<1>3. ASSUME NEW p \in Procs, Interrupts(p) PROVE IInv'
  BY <1>2, <1>3, ProcessKeeps, TakeKeeps, AbsorbKeeps, AdvertiseKeeps DEF Interrupts
<1>4. CASE UNCHANGED vars
  BY <1>4, HandlerKeeps DEF vars, slotVars, emitVars, history
<1>. QED
  BY <1>1, <1>3, <1>4, StartKeeps, EndKeeps, ChangeKeeps, FailKeeps DEF Next

\* The invariant holds in every reachable state.
THEOREM BarrierInvariant == Spec => []IInv
BY InitIInv, NextKeeps, PTL DEF Spec

\* Once WaitForProcSignalBarrier has returned, no running process works with
\* state from before the change that the barrier was about.
THEOREM BarriersAbsorbed == Spec => []NothingStale
<1>1. IInv => NothingStale
  BY DEF IInv
<1>. QED
  BY <1>1, BarrierInvariant, PTL

-----------------------------------------------------------------------------
(* Generations exist *)

\* The emitters whose barrier has no generation yet.
Preparing == {p \in Procs : pc[p] \in {"mark", "bump"}}

\* Every version but the first one has a generation or an emitter that is
\* about to give it one; so there are never more than MaxEmits generations.
Counted == psh_barrierGeneration + Cardinality(Preparing) + 1 = version

\* The numbers that a process or its slot holds.
Bounded(p) ==
    /\ gen[p] <= psh_barrierGeneration /\ seen[p] <= psh_barrierGeneration
    /\ \/ pss_barrierGeneration[p] <= psh_barrierGeneration
       \/ pss_barrierGeneration[p] = Infinite
    /\ cached[p] <= version /\ mine[p] <= version /\ todo[p] <= NumSlots

Flags ==
    /\ pss_barrierCheckMask \in [Procs -> BOOLEAN]
    /\ pss_pid \in [Procs -> BOOLEAN]
    /\ pss_signalFlags \in [Procs -> BOOLEAN]
    /\ signal \in [Procs -> BOOLEAN] /\ mySlot \in [Procs -> BOOLEAN]
    /\ pending \in [Procs -> BOOLEAN]

TInv ==
    /\ IInv
    /\ Flags
    /\ \A p \in Procs : Bounded(p)
    /\ target \in [Procs -> 0 .. NumSlots]
    /\ version <= MaxEmits + 1 /\ errors \in 0 .. MaxErrors
    /\ Counted

\* The emitters can be counted.
LEMMA PreparingFinite ==
    IsFiniteSet(Preparing) /\ Cardinality(Preparing) \in Nat
<1>1. IsFiniteSet(Procs)
  BY SMTT(40), FS_Interval, ProcSignalAssumption DEF Procs
<1>2. IsFiniteSet(Preparing)
  BY <1>1, FS_Subset DEF Preparing
<1>. QED
  BY <1>2, FS_CardinalityType

\* Every step keeps the flags Boolean.
LEMMA FlagsKept ==
    ASSUME Flags, [Next]_vars PROVE Flags'
<1>. USE DEF Flags, slotVars, signalVars
<1>1. ASSUME NEW p \in Procs,
             \/ ProcSignalInit(p) \/ ReadGeneration(p) \/ WriteGeneration(p)
             \/ SetPid(p) \/ SetSlot(p) \/ CleanupProcSignalState(p)
      PROVE  Flags'
  BY <1>1 DEF ProcSignalInit, ReadGeneration, WriteGeneration, SetPid, SetSlot,
              CleanupProcSignalState
<1>2. ASSUME NEW p \in Procs,
             \/ ClearPid(p) \/ Cache(p) \/ Change(p) \/ MarkSlot(p)
             \/ IncrementGeneration(p) \/ ReadPid(p)
      PROVE  Flags'
  BY <1>2 DEF ClearPid, Cache, Change, MarkSlot, IncrementGeneration, ReadPid
<1>3. ASSUME NEW p \in Procs,
             \/ FlagSlot(p) \/ SignalProcess(p) \/ WaitForProcSignalBarrier(p)
             \/ SigusrHandler(p) \/ ProcessProcSignalBarrier(p)
      PROVE  Flags'
  BY <1>3 DEF FlagSlot, SignalProcess, WaitForProcSignalBarrier, SigusrHandler,
              ProcessProcSignalBarrier
<1>4. ASSUME NEW p \in Procs,
             \/ TakeFlags(p) \/ AbsorbBarrier(p) \/ AbsorbFails(p)
             \/ Advertise(p)
      PROVE  Flags'
  BY <1>4 DEF TakeFlags, AbsorbBarrier, AbsorbFails, Advertise
<1>5. CASE UNCHANGED vars
  BY <1>5 DEF vars
<1>. QED
  BY <1>1, <1>2, <1>3, <1>4, <1>5 DEF Next, Step, Interrupts

\* Every step keeps the numbers of the processes within their bounds.
LEMMA BoundsKept ==
    ASSUME TInv, [Next]_vars PROVE \A q \in Procs : Bounded(q)'
<1>. USE DEF TInv, IInv, Types, Bounded, slotVars, emitVars
<1>1. ASSUME NEW p \in Procs,
             ProcSignalInit(p) \/ ReadGeneration(p) \/ WriteGeneration(p)
      PROVE  \A q \in Procs : Bounded(q)'
  BY SMTT(40), <1>1 DEF ProcSignalInit, ReadGeneration, WriteGeneration
<1>2. ASSUME NEW p \in Procs,
             \/ SetPid(p) \/ SetSlot(p) \/ CleanupProcSignalState(p)
             \/ ClearPid(p)
      PROVE  \A q \in Procs : Bounded(q)'
  BY SMTT(40), <1>2 DEF SetPid, SetSlot, CleanupProcSignalState, ClearPid
<1>3. ASSUME NEW p \in Procs, Cache(p) \/ Change(p)
      PROVE  \A q \in Procs : Bounded(q)'
  <2>1. NumSlots \in Nat /\ 1 \in 1 .. NumSlots
    BY SlotFacts DEF Procs
  <2>2. CASE Cache(p)
    BY SMTT(40), <2>2 DEF Cache
  <2>3. CASE Change(p)
    BY SMTT(40), <2>1, <2>3 DEF Change
  <2>. QED
    BY <1>3, <2>2, <2>3
<1>4. ASSUME NEW p \in Procs, MarkSlot(p) \/ IncrementGeneration(p)
      PROVE  \A q \in Procs : Bounded(q)'
  <2>1. NumSlots \in Nat /\ NumSlots \in 1 .. NumSlots
    BY SlotFacts DEF Procs
  <2>2. CASE MarkSlot(p)
    <3>1. todo[p] \in Procs
      BY <2>2 DEF MarkSlot, ProcInv, Emitting
    <3>2. 0 <= NumSlots /\ (todo[p] # NumSlots => todo[p] + 1 <= NumSlots)
      BY SMTT(40), <2>1, <3>1, SlotFacts
    <3>3. \A q \in Procs : todo'[q] <= NumSlots
      BY SMTT(40), <2>2, <3>2 DEF MarkSlot
    <3>. QED
      BY <2>2, <3>3 DEF MarkSlot
  <2>3. CASE IncrementGeneration(p)
    BY SMTT(40), <2>1, <2>3 DEF IncrementGeneration
  <2>. QED
    BY <1>4, <2>2, <2>3
<1>5. ASSUME NEW p \in Procs, ReadPid(p) \/ FlagSlot(p) \/ SignalProcess(p)
      PROVE  \A q \in Procs : Bounded(q)'
  <2>1. todo[p] \in Procs
    BY <1>5 DEF ReadPid, FlagSlot, SignalProcess, ProcInv, Emitting
  <2>2. /\ todo[p] - 1 \in Nat /\ todo[p] - 1 <= NumSlots
        /\ NumSlots \in Nat /\ NumSlots <= NumSlots
    BY SMTT(40), <2>1, SlotFacts
  <2>3. /\ todo' \in {todo, [todo EXCEPT ![p] = NumSlots], [todo EXCEPT ![p] = @ - 1]}
        /\ UNCHANGED <<gen, seen, psh_barrierGeneration, pss_barrierGeneration,
                       cached, version, mine>>
    BY <1>5 DEF ReadPid, FlagSlot, SignalProcess, NextSlot
  <2>4. \A q \in Procs : todo'[q] <= NumSlots
    BY SMTT(40), <2>2, <2>3
  <2>. QED
    BY <2>3, <2>4
<1>6. ASSUME NEW p \in Procs, WaitForProcSignalBarrier(p)
      PROVE  \A q \in Procs : Bounded(q)'
  <2>1. todo[p] \in Procs
    BY <1>6 DEF WaitForProcSignalBarrier, ProcInv, Emitting
  <2>2. todo[p] - 1 \in Nat /\ todo[p] - 1 <= NumSlots
    BY SMTT(40), <2>1, SlotFacts
  <2>3. /\ todo' = [todo EXCEPT ![p] = todo[p] - 1]
        /\ gen' \in {gen, [gen EXCEPT ![p] = 0]}
        /\ mine' \in {mine, [mine EXCEPT ![p] = 0]}
        /\ UNCHANGED <<seen, psh_barrierGeneration, pss_barrierGeneration, cached,
                       version>>
    BY <1>6 DEF WaitForProcSignalBarrier
  <2>4. \A q \in Procs : todo'[q] <= NumSlots
    BY SMTT(40), <2>2, <2>3
  <2>5. \A q \in Procs : gen'[q] <= psh_barrierGeneration /\ mine'[q] <= version
    BY SMTT(40), <2>3
  <2>. QED
    BY <2>3, <2>4, <2>5
<1>7. ASSUME NEW p \in Procs,
             SigusrHandler(p) \/ ProcessProcSignalBarrier(p) \/ TakeFlags(p)
      PROVE  \A q \in Procs : Bounded(q)'
  BY SMTT(40), <1>7 DEF SigusrHandler, ProcessProcSignalBarrier, TakeFlags
<1>8. ASSUME NEW p \in Procs, AbsorbBarrier(p) \/ AbsorbFails(p) \/ Advertise(p)
      PROVE  \A q \in Procs : Bounded(q)'
  BY SMTT(40), <1>8, ProcSignalAssumption DEF AbsorbBarrier, AbsorbFails, Advertise
<1>9. CASE UNCHANGED vars
  BY <1>9 DEF vars
<1>. QED
  BY <1>1, <1>2, <1>3, <1>4, <1>5, <1>6, <1>7, <1>8, <1>9
  DEF Next, Step, Interrupts

\* Every step keeps the targets among the slots, the versions and the errors
\* within their bounds.
LEMMA LimitsKept ==
    ASSUME TInv, [Next]_vars
    PROVE  /\ target' \in [Procs -> 0 .. NumSlots]
           /\ version' <= MaxEmits + 1 /\ errors' \in 0 .. MaxErrors
<1>1. \A q \in Procs : q \in 0 .. NumSlots
  BY SMTT(40), ProcSignalAssumption DEF Procs
<1>2. 0 \in 0 .. NumSlots
  BY SMTT(40), ProcSignalAssumption
<1>3. target' \in [Procs -> 0 .. NumSlots]
  <2>. SUFFICES ASSUME target' # target PROVE target' \in [Procs -> 0 .. NumSlots]
    BY DEF TInv
  <2>1. PICK p \in Procs : ClearPid(p) \/ ReadPid(p) \/ SignalProcess(p)
    BY ZenonT(120) DEF Next, Step, Interrupts, ProcSignalInit, ReadGeneration, WriteGeneration,
           SetPid, SetSlot, CleanupProcSignalState, Cache, Change, MarkSlot,
           IncrementGeneration, FlagSlot, WaitForProcSignalBarrier, SigusrHandler,
           ProcessProcSignalBarrier, TakeFlags, AbsorbBarrier, AbsorbFails,
           Advertise, emitVars, vars
  <2>2. CASE ClearPid(p)
    BY <2>2, <1>2 DEF ClearPid, TInv
  <2>3. CASE ReadPid(p)
    <3>1. todo[p] \in Procs
      BY <2>3 DEF ReadPid, TInv, IInv, ProcInv, Emitting
    <3>. QED
      BY <2>3, <3>1, <1>1 DEF ReadPid, TInv
  <2>4. CASE SignalProcess(p)
    BY <2>4, <1>2 DEF SignalProcess, TInv
  <2>. QED
    BY <2>1, <2>2, <2>3, <2>4
<1>4. version' <= MaxEmits + 1
  <2>. SUFFICES ASSUME version' # version PROVE version' <= MaxEmits + 1
    BY DEF TInv
  <2>1. PICK p \in Procs : Change(p)
    BY ZenonT(120) DEF Next, Step, Interrupts, ProcSignalInit, ReadGeneration, WriteGeneration,
           SetPid, SetSlot, CleanupProcSignalState, Cache, ClearPid, MarkSlot,
           IncrementGeneration, ReadPid, FlagSlot, SignalProcess, WaitForProcSignalBarrier,
           SigusrHandler, ProcessProcSignalBarrier, TakeFlags, AbsorbBarrier,
           AbsorbFails, Advertise, vars
  <2>. QED
    BY SMTT(40), <2>1, ProcSignalAssumption DEF Change, TInv, IInv, Types
<1>5. errors' \in 0 .. MaxErrors
  <2>. SUFFICES ASSUME errors' # errors PROVE errors' \in 0 .. MaxErrors
    BY DEF TInv
  <2>1. PICK p \in Procs : AbsorbFails(p)
    BY ZenonT(120) DEF Next, Step, Interrupts, ProcSignalInit, ReadGeneration, WriteGeneration,
           SetPid, SetSlot, CleanupProcSignalState, Cache, ClearPid, Change, MarkSlot,
           IncrementGeneration, ReadPid, FlagSlot, SignalProcess, WaitForProcSignalBarrier,
           SigusrHandler, ProcessProcSignalBarrier, TakeFlags, AbsorbBarrier,
           Advertise, history, vars
  <2>. QED
    BY SMTT(40), <2>1, ProcSignalAssumption DEF AbsorbFails, TInv
<1>. QED
  BY <1>3, <1>4, <1>5

\* A barrier gets its generation once: every step keeps the count.
LEMMA CountKept ==
    ASSUME TInv, [Next]_vars PROVE Counted'
<1>. USE DEF TInv, IInv, Types
<1>1. CASE UNCHANGED <<psh_barrierGeneration, version, Preparing>>
  BY <1>1 DEF Counted
<1>2. ASSUME NEW p \in Procs, Change(p) PROVE Counted'
  <2>1. p \notin Preparing /\ Preparing' = Preparing \cup {p}
    BY <1>2 DEF Change, To, Preparing
  <2>2. Cardinality(Preparing \cup {p}) = Cardinality(Preparing) + 1
    BY <2>1, PreparingFinite, FS_AddElement
  <2>. QED
    BY SMTT(40), <1>2, <2>1, <2>2, PreparingFinite DEF Change, Counted
<1>3. ASSUME NEW p \in Procs, IncrementGeneration(p) PROVE Counted'
  <2>1. p \in Preparing /\ Preparing' = Preparing \ {p}
    BY <1>3 DEF IncrementGeneration, To, Preparing
  <2>2. Cardinality(Preparing \ {p}) = Cardinality(Preparing) - 1
    BY <2>1, PreparingFinite, FS_RemoveElement
  <2>. QED
    BY SMTT(40), <1>3, <2>1, <2>2, PreparingFinite DEF IncrementGeneration, Counted
<1>4. ASSUME NEW p \in Procs,
             \/ ProcSignalInit(p) \/ ReadGeneration(p) \/ WriteGeneration(p)
             \/ SetPid(p) \/ SetSlot(p) \/ CleanupProcSignalState(p)
             \/ ClearPid(p) \/ MarkSlot(p)
      PROVE  UNCHANGED <<psh_barrierGeneration, version, Preparing>>
  BY ZenonT(120), <1>4 DEF ProcSignalInit, ReadGeneration, WriteGeneration, SetPid, SetSlot,
              CleanupProcSignalState, ClearPid, MarkSlot, To, Preparing
<1>5. ASSUME NEW p \in Procs,
             \/ ReadPid(p) \/ FlagSlot(p) \/ SignalProcess(p)
             \/ WaitForProcSignalBarrier(p)
      PROVE  UNCHANGED <<psh_barrierGeneration, version, Preparing>>
  <2>1. /\ pc[p] \in Numbered /\ UNCHANGED <<psh_barrierGeneration, version>>
        /\ \/ pc' = pc
           \/ \E l \in Numbered \cup {"run"} : pc' = [pc EXCEPT ![p] = l]
    BY <1>5 DEF ReadPid, FlagSlot, SignalProcess, NextSlot, WaitForProcSignalBarrier, To,
                Numbered
  <2>. QED
    BY <2>1 DEF Preparing, Numbered
<1>6. ASSUME NEW p \in Procs,
             \/ Cache(p) \/ SigusrHandler(p) \/ ProcessProcSignalBarrier(p)
             \/ TakeFlags(p) \/ AbsorbBarrier(p) \/ Advertise(p)
      PROVE  UNCHANGED <<psh_barrierGeneration, version, Preparing>>
  BY <1>6 DEF Cache, SigusrHandler, ProcessProcSignalBarrier, TakeFlags,
              AbsorbBarrier, Advertise, Preparing
<1>7. ASSUME NEW p \in Procs, AbsorbFails(p)
      PROVE  UNCHANGED <<psh_barrierGeneration, version, Preparing>>
  <2>1. pc[p] \in {"run", "wait"}
    BY <1>7 DEF AbsorbFails, ProcInv
  <2>. QED
    BY <1>7, <2>1 DEF AbsorbFails, To, Preparing
<1>8. CASE UNCHANGED vars
  BY <1>1, <1>8 DEF vars, Preparing
<1>. QED
  BY <1>1, <1>2, <1>3, <1>4, <1>5, <1>6, <1>7, <1>8 DEF Next, Step, Interrupts

\* The inductive invariant, with the bounds.
THEOREM BoundedInvariant == Spec => []TInv
<1>1. Init => TInv
  <2>. SUFFICES ASSUME Init PROVE TInv
    OBVIOUS
  <2>1. Preparing = {}
    BY SMTT(40) DEF Init, Preparing
  <2>2. Flags
    BY SMTT(40) DEF Init, ProcSignalShmemInit, Flags
  <2>3. \A p \in Procs : Bounded(p)
    BY SMTT(40), ProcSignalAssumption DEF Init, ProcSignalShmemInit, Bounded
  <2>4. Counted
    BY SMTT(40), <2>1, FS_EmptySet DEF Counted, Init, ProcSignalShmemInit
  <2>5. version <= MaxEmits + 1 /\ errors \in 0 .. MaxErrors /\ 0 \in 0 .. NumSlots
    BY SMTT(40), ProcSignalAssumption DEF Init
  <2>6. target \in [Procs -> 0 .. NumSlots]
    BY <2>5 DEF Init
  <2>. QED
    BY <2>2, <2>3, <2>4, <2>5, <2>6, InitIInv DEF TInv
<1>2. TInv /\ [Next]_vars => TInv'
  <2>. SUFFICES ASSUME TInv, [Next]_vars PROVE TInv'
    OBVIOUS
  <2>1. IInv'
    BY NextKeeps DEF TInv
  <2>2. Flags'
    BY FlagsKept DEF TInv
  <2>. QED
    BY <2>1, <2>2, BoundsKept, LimitsKept, CountKept DEF TInv
<1>. QED
  BY <1>1, <1>2, PTL DEF Spec

\* The state is well typed, no slot of a running process advertises a
\* generation that has not been given to a barrier, and nobody waits for one:
\* the assertions of EmitProcSignalBarrier's readers hold.
THEOREM GenerationsExist == Spec => []GenerationExists
<1>1. TInv => GenerationExists
  <2>. SUFFICES ASSUME TInv PROVE GenerationExists
    OBVIOUS
  <2>. USE DEF TInv, IInv, Types
  <2>1. /\ version \in 1 .. MaxEmits + 1 /\ psh_barrierGeneration \in 0 .. MaxEmits
        /\ confirmed \in 0 .. version
    BY SMTT(40), PreparingFinite, ProcSignalAssumption DEF Counted
  <2>2. /\ cached \in [Procs -> 0 .. version] /\ mine \in [Procs -> 0 .. version]
    BY SMTT(40) DEF Bounded
  <2>3. /\ gen \in [Procs -> 0 .. MaxEmits] /\ seen \in [Procs -> 0 .. MaxEmits]
    BY SMTT(40), <2>1, ProcSignalAssumption DEF Bounded
  <2>4. pss_barrierGeneration \in [Procs -> 0 .. Infinite]
    BY SMTT(40), <2>1, ProcSignalAssumption DEF Bounded, Infinite
  <2>5. todo \in [Procs -> 0 .. NumSlots]
    BY SMTT(40), ProcSignalAssumption DEF Bounded
  <2>6. TypeOK
    BY <2>1, <2>2, <2>3, <2>4, <2>5 DEF TypeOK, Flags, Starting, Emitting
  <2>7. ASSUME NEW p \in Procs
        PROVE  /\ Running(p) => pss_barrierGeneration[p] <= psh_barrierGeneration
               /\ pc[p] = "wait" => gen[p] <= psh_barrierGeneration
    BY DEF ProcInv, Numbered
  <2>. QED
    BY <2>6, <2>7 DEF GenerationExists
<1>. QED
  BY <1>1, BoundedInvariant, PTL

-----------------------------------------------------------------------------
(* No notification is lost *)

\* An emitter that has looked up a process and has still to signal it.
Striking == {"flag", "kill"}

\* What the slot of q says of the process in it, as long as no process starts
\* while another one emits: who is not there looks as if it had absorbed
\* everything, who has just started has nothing to absorb, who runs will see
\* the flags, and the next signal of q goes to the process it has looked up or
\* to nobody.
SlotInv(q) ==
    /\ pc[q] \in {"down", "read_generation", "write_generation", "clear_pid"} =>
         pss_barrierGeneration[q] = Infinite
    /\ pc[q] = "write_generation" => gen[q] = psh_barrierGeneration
    /\ pc[q] \in {"set_pid", "set_slot"} =>
         pss_barrierGeneration[q] = psh_barrierGeneration
    /\ Running(q) => mySlot[q]
    /\ ~ pss_pid[q] =>
         pc[q] \in {"down", "read_generation", "write_generation", "set_pid"}
    /\ ipc[q] # "none" => pss_barrierGeneration[q] <= seen[q]
    /\ pc[q] \in Striking => target[q] = todo[q] \/ pc[todo[q]] = "down"

\* The loop of emitter e has passed slot q, which has not absorbed its barrier.
Behind(e, q) ==
    /\ pc[e] \in Numbered
    /\ pc[e] = "wait" \/ q > todo[e]
    /\ pss_barrierGeneration[q] < gen[e]

\* Emitter e has flagged slot q, which has not absorbed its barrier, and has still
\* to signal the process.
Struck(e, q) == pc[e] = "kill" /\ q = todo[e] /\ pss_barrierGeneration[q] < gen[e]

\* What is left for process q to be notified is at most the signal.
Flagged(q, g) ==
    /\ Running(q)
    /\ \/ mySlot[q] /\ pss_signalFlags[q]
       \/ pending[q]
       \/ ipc[q] # "none" /\ seen[q] >= g

ReachInv(e, q) ==
    /\ Behind(e, q) => Notified(q, gen[e])
    /\ Struck(e, q) => Flagged(q, gen[e])

NInv ==
    /\ \A q \in Procs : SlotInv(q)
    /\ \A e, q \in Procs : ReachInv(e, q)

\* A process that a barrier waits for runs: its slot is neither empty nor new.
LEMMA BehindRuns ==
    ASSUME TInv, GenerationExists, NInv, NEW e \in Procs, NEW q \in Procs,
           pss_barrierGeneration[q] < gen[e]
    PROVE  Running(q) /\ mySlot[q]
<1>1. /\ gen[e] <= psh_barrierGeneration /\ psh_barrierGeneration <= MaxEmits
      /\ gen[e] \in Nat /\ psh_barrierGeneration \in Nat
  BY SMTT(40), ProcSignalAssumption
  DEF TInv, IInv, Types, Bounded, GenerationExists, TypeOK
<1>2. ~ (Infinite < gen[e]) /\ ~ (psh_barrierGeneration < gen[e])
  BY SMTT(40), <1>1, ProcSignalAssumption DEF Infinite
<1>3. /\ pss_barrierGeneration[q] # Infinite
      /\ pss_barrierGeneration[q] # psh_barrierGeneration
  BY <1>2
<1>4. SlotInv(q) /\ pc[q] \in Starting \cup Emitting \cup {"run", "clear_pid"}
  BY DEF NInv, TInv, IInv, Types
<1>5. Running(q)
  BY <1>3, <1>4 DEF SlotInv, Running, Starting, Emitting
<1>. QED
  BY <1>4, <1>5 DEF SlotInv

\* A step of p leaves the others alone, but for flags and signals that it sets.
Apart(p) ==
    \A q \in Procs \ {p} :
        /\ pc'[q] = pc[q] /\ gen'[q] = gen[q] /\ todo'[q] = todo[q]
        /\ ipc'[q] = ipc[q] /\ seen'[q] = seen[q]
        /\ mySlot'[q] = mySlot[q] /\ pending'[q] = pending[q]
        /\ pss_pid'[q] = pss_pid[q]
        /\ pss_barrierGeneration'[q] = pss_barrierGeneration[q]
        /\ signal[q] => signal'[q]
        /\ pss_signalFlags[q] => pss_signalFlags'[q]

\* Between two others nothing changes.
LEMMA OthersReach ==
    ASSUME NInv, NEW p \in Procs, Apart(p),
           NEW e \in Procs \ {p}, NEW q \in Procs \ {p}
    PROVE  ReachInv(e, q)'
<1>1. ReachInv(e, q)
  BY DEF NInv
<1>2. (Behind(e, q)' => Behind(e, q)) /\ (Struck(e, q)' => Struck(e, q))
  BY DEF Apart, Behind, Struck
<1>3. /\ Notified(q, gen[e]) => Notified(q, gen[e])'
      /\ Flagged(q, gen[e]) => Flagged(q, gen[e])'
  BY DEF Apart, Notified, Flagged, Running
<1>. QED
  BY <1>1, <1>2, <1>3 DEF ReachInv

\* What is left to show are the pairs of p.
LEMMA AllReach ==
    ASSUME NInv, NEW p \in Procs, Apart(p), \A q \in Procs : ReachInv(p, q)',
           \A e \in Procs \ {p} : ReachInv(e, p)'
    PROVE  \A e, q \in Procs : ReachInv(e, q)'
<1>. SUFFICES ASSUME NEW e \in Procs, NEW q \in Procs PROVE ReachInv(e, q)'
  OBVIOUS
<1>1. CASE e = p
  BY <1>1
<1>2. CASE e # p /\ q = p
  BY <1>2
<1>3. CASE e # p /\ q # p
  BY <1>3, OthersReach
<1>. QED
  BY <1>1, <1>2, <1>3

\* Nor does the slot of another, unless the step ends or starts a process.
LEMMA OthersSlots ==
    ASSUME NInv, NEW p \in Procs, Apart(p), NEW q \in Procs \ {p},
           \/ psh_barrierGeneration' = psh_barrierGeneration
           \/ pc[q] \notin {"write_generation", "set_pid", "set_slot"},
           \/ target'[q] = target[q]
           \/ target[q] = p /\ pc'[p] = "down",
           pc[q] \in Striking => todo[q] \in Procs,
           pc[q] \in Striking /\ pc[p] = "down" => pc'[p] = "down"
    PROVE  SlotInv(q)'
<1>1. SlotInv(q)
  BY DEF NInv
<1>2. Running(q)' <=> Running(q)
  BY DEF Apart, Running
<1>3. pc'[q] \in Striking => target'[q] = todo'[q] \/ pc'[todo'[q]] = "down"
  <2>. SUFFICES ASSUME pc[q] \in Striking, target'[q] # todo[q] PROVE pc'[todo[q]] = "down"
    BY DEF Apart
  <2>1. CASE target[q] = todo[q]
    BY <2>1
  <2>2. CASE pc[todo[q]] = "down"
    BY <2>2 DEF Apart
  <2>. QED
    BY <1>1, <2>1, <2>2 DEF SlotInv
<1>. QED
  BY <1>1, <1>2, <1>3 DEF SlotInv, Apart

\* What is left to show for a step of p that ends or starts no process and
\* gives no barrier its generation.
LEMMA AssembleReach ==
    ASSUME TInv, NInv, NEW p \in Procs, Apart(p),
           psh_barrierGeneration' = psh_barrierGeneration,
           \A q \in Procs \ {p} : target'[q] = target[q],
           pc[p] # "down", SlotInv(p)',
           \A q \in Procs : ReachInv(p, q)',
           \A e \in Procs \ {p} : ReachInv(e, p)'
    PROVE  NInv'
<1>1. ASSUME NEW q \in Procs \ {p} PROVE SlotInv(q)'
  <2>1. pc[q] \in Striking => todo[q] \in Procs
    BY DEF TInv, IInv, ProcInv, Emitting, Striking
  <2>. QED
    BY <2>1, OthersSlots
<1>2. \A e, q \in Procs : ReachInv(e, q)'
  BY AllReach
<1>. QED
  BY <1>1, <1>2 DEF NInv

-----------------------------------------------------------------------------
(* Starting and ending *)

\* The slot of a process that starts or ends holds no generation that a barrier
\* waits for.
LEMMA NobodyBehind ==
    ASSUME TInv, GenerationExists, NEW p \in Procs, Apart(p),
           psh_barrierGeneration' = psh_barrierGeneration,
           pc'[p] \notin Numbered,
           pss_barrierGeneration'[p] \in {Infinite, psh_barrierGeneration}
    PROVE  /\ \A q \in Procs : ReachInv(p, q)'
           /\ \A e \in Procs \ {p} : ReachInv(e, p)'
<1>1. \A q \in Procs : ReachInv(p, q)'
  BY DEF ReachInv, Behind, Struck, Numbered
<1>2. ASSUME NEW e \in Procs \ {p} PROVE ReachInv(e, p)'
  <2>1. /\ gen'[e] <= psh_barrierGeneration /\ psh_barrierGeneration <= MaxEmits
        /\ gen'[e] \in Nat /\ psh_barrierGeneration \in Nat
    BY SMTT(40), ProcSignalAssumption
    DEF TInv, IInv, Types, Bounded, GenerationExists, TypeOK, Apart
  <2>2. ~ (Infinite < gen'[e]) /\ ~ (psh_barrierGeneration < gen'[e])
    BY SMTT(40), <2>1, ProcSignalAssumption DEF Infinite
  <2>. QED
    BY <2>2 DEF ReachInv, Behind, Struck
<1>. QED
  BY <1>1, <1>2

\* A process starts, at a time at which nobody emits.
LEMMA StartReach ==
    ASSUME TInv, GenerationExists, NInv, ~StartMeetsEmit', NEW p \in Procs,
           \/ ProcSignalInit(p) \/ ReadGeneration(p) \/ WriteGeneration(p)
           \/ SetPid(p) \/ SetSlot(p)
    PROVE  NInv'
<1>. USE DEF slotVars, signalVars, emitVars, To
<1>1. Apart(p)
  BY SMTT(40) DEF TInv, IInv, Types, Flags, Apart, ProcSignalInit, ReadGeneration, WriteGeneration,
     SetPid, SetSlot
<1>2. /\ pc[p] \in Starting /\ pc'[p] \in (Starting \cup {"run"}) \ {"down"}
      /\ pc[p] = "down" => pc'[p] = "read_generation"
      /\ UNCHANGED <<psh_barrierGeneration, target, ipc, seen>>
  BY DEF TInv, IInv, Types, Starting, ProcSignalInit, ReadGeneration,
         WriteGeneration, SetPid, SetSlot
<1>3. SlotInv(p) /\ ipc[p] = "none"
  BY <1>2 DEF NInv, TInv, IInv, ProcInv, Starting
<1>4. SlotInv(p)' /\ pss_barrierGeneration'[p] \in {Infinite, psh_barrierGeneration}
  BY <1>2, <1>3
  DEF SlotInv, TInv, IInv, Types, Flags, Running, Striking, ProcSignalInit, ReadGeneration,
      WriteGeneration, SetPid, SetSlot
<1>5. ASSUME NEW q \in Procs \ {p} PROVE SlotInv(q)'
  <2>1. pc[q] \in Striking => todo[q] \in Procs
    BY DEF TInv, IInv, ProcInv, Emitting, Striking
  <2>2. pc[q] \in Striking => pc[p] # "down"
    BY <1>1, <1>2 DEF StartMeetsEmit, Apart, Striking
  <2>. QED
    BY <1>1, <1>2, <2>1, <2>2, OthersSlots
<1>6. pc'[p] \notin Numbered
  BY <1>2 DEF Starting, Numbered
<1>7. \A e, q \in Procs : ReachInv(e, q)'
  BY <1>1, <1>2, <1>4, <1>6, NobodyBehind, AllReach
<1>. QED
  BY <1>4, <1>5, <1>7 DEF NInv

\* A process ends.
LEMMA EndReach ==
    ASSUME TInv, GenerationExists, NInv, NEW p \in Procs,
           CleanupProcSignalState(p) \/ ClearPid(p)
    PROVE  NInv'
<1>. USE DEF slotVars, signalVars, emitVars, To
<1>1. Apart(p)
  BY SMTT(40) DEF TInv, IInv, Types, Flags, Apart, CleanupProcSignalState, ClearPid
<1>2. /\ pc'[p] \in {"clear_pid", "down"}
      /\ pc[p] # "down"
      /\ UNCHANGED <<psh_barrierGeneration, ipc, seen>>
      /\ \A q \in Procs : target'[q] = target[q] \/ (target[q] = p /\ pc'[p] = "down")
  BY DEF TInv, IInv, Types, CleanupProcSignalState, ClearPid
<1>3. SlotInv(p) /\ ipc[p] = "none"
  BY DEF NInv, TInv, IInv, ProcInv, CleanupProcSignalState, ClearPid
<1>4. SlotInv(p)' /\ pss_barrierGeneration'[p] \in {Infinite, psh_barrierGeneration}
  BY <1>2, <1>3
  DEF SlotInv, TInv, IInv, Types, Flags, Running, Striking, CleanupProcSignalState, ClearPid
<1>5. ASSUME NEW q \in Procs \ {p} PROVE SlotInv(q)'
  <2>1. pc[q] \in Striking => todo[q] \in Procs
    BY DEF TInv, IInv, ProcInv, Emitting, Striking
  <2>. QED
    BY <1>1, <1>2, <2>1, OthersSlots
<1>6. pc'[p] \notin Numbered
  BY <1>2 DEF Numbered
<1>7. \A e, q \in Procs : ReachInv(e, q)'
  BY <1>1, <1>2, <1>4, <1>6, NobodyBehind, AllReach
<1>. QED
  BY <1>4, <1>5, <1>7 DEF NInv

-----------------------------------------------------------------------------
(* Emitting *)

\* What an emitter does leaves what is on the way to itself as it was.
SameSlot(p) ==
    /\ pss_barrierGeneration'[p] = pss_barrierGeneration[p]
    /\ ipc'[p] = ipc[p] /\ seen'[p] = seen[p]
    /\ mySlot'[p] = mySlot[p] /\ pending'[p] = pending[p]
    /\ pss_pid'[p] = pss_pid[p]
    /\ signal[p] => signal'[p]
    /\ pss_signalFlags[p] => pss_signalFlags'[p]
    /\ Running(p) /\ Running(p)'

\* A step that leaves the slot of p as it is keeps its notifications.
LEMMA SameSlotReach ==
    ASSUME NInv, NEW p \in Procs, Apart(p), SameSlot(p)
    PROVE  \A e \in Procs \ {p} : ReachInv(e, p)'
<1>. SUFFICES ASSUME NEW e \in Procs \ {p} PROVE ReachInv(e, p)'
  OBVIOUS
<1>1. ReachInv(e, p)
  BY DEF NInv
<1>2. (Behind(e, p)' => Behind(e, p)) /\ (Struck(e, p)' => Struck(e, p))
  BY DEF Apart, SameSlot, Behind, Struck
<1>3. /\ Notified(p, gen[e]) => Notified(p, gen[e])'
      /\ Flagged(p, gen[e]) => Flagged(p, gen[e])'
  BY DEF Apart, SameSlot, Notified, Flagged
<1>. QED
  BY <1>1, <1>2, <1>3 DEF ReachInv, Apart

\* It keeps what the slot says of its process as well.
LEMMA SameSlotInv ==
    ASSUME NInv, NEW p \in Procs, SameSlot(p),
           pc'[p] \in Striking => target'[p] = todo'[p] \/ pc'[todo'[p]] = "down"
    PROVE  SlotInv(p)'
<1>1. SlotInv(p)
  BY DEF NInv
<1>2. pc'[p] \notin Starting \cup {"clear_pid"}
  BY DEF SameSlot, Running, Starting
<1>3. pss_pid'[p]
  BY <1>1 DEF SlotInv, SameSlot, Running
<1>. QED
  BY <1>1, <1>2, <1>3 DEF SlotInv, SameSlot, Starting

\* A pair of p as the emitter, of which the step changes neither side.
LEMMA EmitterReach ==
    ASSUME NInv, NEW p \in Procs, Apart(p), SameSlot(p), gen'[p] = gen[p],
           NEW q \in Procs, Behind(p, q)' => Behind(p, q), ~Struck(p, q)'
    PROVE  ReachInv(p, q)'
<1>1. ReachInv(p, q)
  BY DEF NInv
<1>2. Notified(q, gen[p]) => Notified(q, gen[p])'
  BY DEF Apart, SameSlot, Notified, Running
<1>. QED
  BY <1>1, <1>2 DEF ReachInv

\* Caching and marking: p has no generation yet.
LEMMA PrepareReach ==
    ASSUME TInv, NInv, NEW p \in Procs, Cache(p) \/ Change(p) \/ MarkSlot(p)
    PROVE  NInv'
<1>. USE DEF slotVars, signalVars, emitVars, To
<1>1. Apart(p)
  BY SMTT(40) DEF TInv, IInv, Types, Flags, Apart, Cache, Change, MarkSlot
<1>2. /\ pc[p] \in {"run", "mark"} /\ pc'[p] \in {"run", "mark", "bump"}
      /\ UNCHANGED <<psh_barrierGeneration, target>>
  BY DEF TInv, IInv, Types, Cache, Change, MarkSlot
<1>3. SameSlot(p)
  BY <1>2 DEF SameSlot, Running, Cache, Change, MarkSlot
<1>4. SlotInv(p)' /\ \A e \in Procs \ {p} : ReachInv(e, p)'
  BY <1>1, <1>2, <1>3, SameSlotInv, SameSlotReach DEF Striking
<1>5. \A q \in Procs : ReachInv(p, q)'
  BY <1>2 DEF ReachInv, Behind, Struck, Numbered
<1>. QED
  BY <1>1, <1>2, <1>4, <1>5, AssembleReach

\* The barrier gets its generation, at a time at which nobody starts.
LEMMA BumpReach ==
    ASSUME TInv, NInv, ~StartMeetsEmit, NEW p \in Procs, IncrementGeneration(p)
    PROVE  NInv'
<1>. USE DEF slotVars, signalVars, emitVars, To
<1>1. Apart(p)
  BY SMTT(40) DEF TInv, IInv, Types, Flags, Apart, IncrementGeneration
<1>2. /\ pc[p] = "bump" /\ pc'[p] = "kick" /\ todo'[p] = NumSlots
      /\ UNCHANGED target
  BY DEF TInv, IInv, Types, IncrementGeneration
<1>3. SameSlot(p)
  BY <1>2 DEF SameSlot, Running, IncrementGeneration
<1>4. SlotInv(p)' /\ \A e \in Procs \ {p} : ReachInv(e, p)'
  BY <1>1, <1>2, <1>3, SameSlotInv, SameSlotReach DEF Striking
<1>5. \A q \in Procs : ReachInv(p, q)'
  BY <1>2, SlotFacts DEF ReachInv, Behind, Struck
<1>6. ASSUME NEW q \in Procs \ {p} PROVE SlotInv(q)'
  <2>1. pc[q] \in Striking => todo[q] \in Procs
    BY DEF TInv, IInv, ProcInv, Emitting, Striking
  <2>2. pc[q] \notin {"write_generation", "set_pid", "set_slot"}
    BY <1>2 DEF StartMeetsEmit
  <2>. QED
    BY <1>1, <1>2, <2>1, <2>2, OthersSlots
<1>7. \A e, q \in Procs : ReachInv(e, q)'
  BY <1>1, <1>4, <1>5, AllReach
<1>. QED
  BY <1>4, <1>6, <1>7 DEF NInv

\* The loop goes on: only the slot that it has come to is passed.
LEMMA OnePassed ==
    ASSUME NEW p \in Procs, NEW q \in Procs, Types, todo[p] \in Procs, pc[p] \in {"kick", "kill"},
           NextSlot(p), gen'[p] = gen[p],
           UNCHANGED pss_barrierGeneration, q # todo[p], Behind(p, q)'
    PROVE  Behind(p, q)
<1>1. \/ todo[p] = 1 /\ pc'[p] = "wait"
      \/ todo'[p] = todo[p] - 1 /\ pc'[p] = "kick"
  BY DEF NextSlot, To, Types
<1>2. q > todo[p]
  <2>1. q \in Nat \ {0} /\ todo[p] \in Nat \ {0}
    BY SlotFacts
  <2>2. CASE todo[p] = 1
    BY SMTT(40), <2>1, <2>2
  <2>3. CASE todo'[p] = todo[p] - 1 /\ pc'[p] = "kick"
    <3>1. q > todo[p] - 1
      BY <2>3 DEF Behind
    <3>. QED
      BY SMTT(40), <2>1, <3>1
  <2>. QED
    BY <1>1, <2>2, <2>3
<1>. QED
  BY <1>2 DEF Behind, Numbered

\* A slot is looked up: whoever is not in it has nothing to absorb, since nobody
\* starts.
LEMMA KickReach ==
    ASSUME TInv, GenerationExists, NInv, ~StartMeetsEmit, NEW p \in Procs, ReadPid(p)
    PROVE  NInv'
<1>. USE DEF slotVars, signalVars, emitVars
<1>1. /\ pc[p] = "kick" /\ todo[p] \in Procs
      /\ UNCHANGED <<psh_barrierGeneration, gen, pss_barrierGeneration, ipc, seen,
                     pss_signalFlags, signal, mySlot, pending, pss_pid>>
      /\ \A q \in Procs \ {p} : target'[q] = target[q]
  BY DEF TInv, IInv, ProcInv, Emitting, ReadPid
<1>2. /\ \A q \in Procs \ {p} : pc'[q] = pc[q] /\ todo'[q] = todo[q]
      /\ pc'[p] \in Numbered \ {"kill"}
      /\ pc'[p] \in Striking => target'[p] = todo'[p]
  <2>1. CASE pss_pid[todo[p]]
    <3>1. /\ target' = [target EXCEPT ![p] = todo[p]] /\ todo' = todo
          /\ pc' = [pc EXCEPT ![p] = "flag"]
      BY <2>1 DEF ReadPid, To
    <3>2. target'[p] = todo'[p]
      BY <3>1 DEF TInv
    <3>. QED
      BY <3>1, <3>2 DEF TInv, IInv, Types, Numbered
  <2>2. CASE ~ pss_pid[todo[p]]
    <3>1. NextSlot(p)
      BY <2>2 DEF ReadPid
    <3>. QED
      BY <3>1 DEF TInv, IInv, Types, NextSlot, To, Numbered, Striking
  <2>. QED
    BY <2>1, <2>2
<1>3. Apart(p) /\ SameSlot(p)
  BY <1>1, <1>2 DEF Apart, SameSlot, Running, Numbered
<1>4. SlotInv(p)' /\ \A e \in Procs \ {p} : ReachInv(e, p)'
  BY <1>2, <1>3, SameSlotInv, SameSlotReach
<1>5. ASSUME NEW q \in Procs PROVE ReachInv(p, q)'
  <2>1. CASE pss_pid[todo[p]]
    <3>1. pc'[p] = "flag" /\ todo' = todo
      BY <2>1 DEF ReadPid, To, TInv, IInv, Types
    <3>2. Behind(p, q)' => Behind(p, q)
      BY <1>1, <3>1 DEF Behind, Numbered
    <3>. QED
      BY <1>1, <1>2, <1>3, <3>2, EmitterReach DEF Struck
  <2>2. CASE ~ pss_pid[todo[p]] /\ q # todo[p]
    <3>1. NextSlot(p)
      BY <2>2 DEF ReadPid
    <3>2. Behind(p, q)' => Behind(p, q)
      BY <1>1, <2>2, <3>1, OnePassed DEF TInv, IInv
    <3>. QED
      BY <1>1, <1>2, <1>3, <3>2, EmitterReach DEF Struck
  <2>3. CASE ~ pss_pid[todo[p]] /\ q = todo[p]
    <3>1. pc[q] = "down"
      BY <1>1, <2>3 DEF NInv, SlotInv, StartMeetsEmit
    <3>2. ~ (pss_barrierGeneration[q] < gen[p])
      BY <3>1, BehindRuns DEF Running
    <3>. QED
      BY <1>1, <3>2 DEF ReachInv, Behind, Struck
  <2>. QED
    BY <2>1, <2>2, <2>3
<1>. QED
  BY <1>1, <1>3, <1>4, <1>5, AssembleReach

\* A slot is flagged: its process runs and will see the flag, or it has ended.
LEMMA FlagReach ==
    ASSUME TInv, GenerationExists, NInv, NEW p \in Procs, FlagSlot(p)
    PROVE  NInv'
<1>. USE DEF slotVars, signalVars, emitVars, To
<1>1. /\ pc[p] = "flag" /\ pc' = [pc EXCEPT ![p] = "kill"] /\ todo[p] \in Procs
      /\ UNCHANGED <<psh_barrierGeneration, gen, todo, target, pss_barrierGeneration, ipc,
                     seen, mySlot, pending, signal, pss_pid>>
      /\ \A q \in Procs : pss_signalFlags[q] => pss_signalFlags'[q]
      /\ pss_signalFlags'[todo[p]]
  BY DEF TInv, IInv, ProcInv, Emitting, FlagSlot, Flags
<1>2. pc'[p] = "kill" /\ \A q \in Procs \ {p} : pc'[q] = pc[q]
  BY <1>1 DEF TInv, IInv, Types
<1>3. Apart(p) /\ SameSlot(p)
  BY <1>1, <1>2 DEF Apart, SameSlot, Running
<1>4. SlotInv(p)' /\ \A e \in Procs \ {p} : ReachInv(e, p)'
  <2>1. target[p] = todo[p] \/ pc[todo[p]] = "down"
    BY <1>1 DEF NInv, SlotInv, Striking
  <2>2. target'[p] = todo'[p] \/ pc'[todo'[p]] = "down"
    BY <1>1, <1>2, <2>1
  <2>. QED
    BY <1>3, <2>2, SameSlotInv, SameSlotReach
<1>5. ASSUME NEW q \in Procs PROVE ReachInv(p, q)'
  <2>1. Behind(p, q)' => Notified(q, gen[p])'
    <3>1. Behind(p, q)' => Behind(p, q)
      BY <1>1, <1>2 DEF Behind, Numbered
    <3>2. Notified(q, gen[p]) => Notified(q, gen[p])'
      BY <1>1, <1>3 DEF Apart, SameSlot, Notified, Running
    <3>. QED
      BY <3>1, <3>2 DEF NInv, ReachInv
  <2>2. ASSUME Struck(p, q)' PROVE Flagged(q, gen[p])'
    <3>1. q = todo[p] /\ Running(q) /\ mySlot[q]
      BY <1>1, <2>2, BehindRuns DEF Struck
    <3>2. Running(q)'
      BY <1>2, <3>1 DEF Running
    <3>. QED
      BY <1>1, <3>1, <3>2 DEF Flagged
  <2>. QED
    BY <2>1, <2>2 DEF ReachInv
<1>. QED
  BY <1>1, <1>3, <1>4, <1>5, AssembleReach

\* A process is signalled: it runs and sees the flag or has seen it, or it has
\* ended.
LEMMA KillReach ==
    ASSUME TInv, GenerationExists, NInv, NEW p \in Procs, SignalProcess(p)
    PROVE  NInv'
<1>. USE DEF slotVars, signalVars, emitVars
<1>1. /\ pc[p] = "kill" /\ todo[p] \in Procs /\ NextSlot(p)
      /\ UNCHANGED <<psh_barrierGeneration, gen, pss_barrierGeneration, ipc, seen,
                     mySlot, pending, pss_signalFlags, pss_pid>>
      /\ \A q \in Procs \ {p} : target'[q] = target[q]
      /\ \A q \in Procs : signal[q] \/ q = target[p] => signal'[q]
  BY DEF TInv, IInv, ProcInv, Emitting, SignalProcess, Flags
<1>2. /\ \A q \in Procs \ {p} : pc'[q] = pc[q] /\ todo'[q] = todo[q]
      /\ pc'[p] \in {"kick", "wait"}
  BY <1>1 DEF TInv, IInv, Types, NextSlot, To
<1>3. Apart(p) /\ SameSlot(p)
  BY <1>1, <1>2 DEF Apart, SameSlot, Running
<1>4. SlotInv(p)' /\ \A e \in Procs \ {p} : ReachInv(e, p)'
  BY <1>2, <1>3, SameSlotInv, SameSlotReach DEF Striking
<1>5. ASSUME NEW q \in Procs PROVE ReachInv(p, q)'
  <2>1. CASE q # todo[p]
    <3>1. Behind(p, q)' => Behind(p, q)
      BY <1>1, <2>1, OnePassed DEF TInv, IInv
    <3>. QED
      BY <1>1, <1>2, <1>3, <3>1, EmitterReach DEF Struck
  <2>2. CASE q = todo[p] /\ Behind(p, q)'
    <3>1. Flagged(q, gen[p]) /\ Running(q)
      BY <1>1, <2>2 DEF NInv, ReachInv, Behind, Struck, Flagged
    <3>2. target[p] = q
      BY <1>1, <2>2, <3>1 DEF NInv, SlotInv, Striking, Running
    <3>3. Running(q)'
      BY <1>2, <3>1 DEF Running
    <3>. QED
      BY <1>1, <1>2, <2>2, <3>1, <3>2, <3>3 DEF ReachInv, Notified, Flagged, Struck
  <2>. QED
    BY <1>2, <2>1, <2>2 DEF ReachInv, Struck
<1>. QED
  BY <1>1, <1>3, <1>4, <1>5, AssembleReach

\* Waiting changes nothing but the place of the loop.
LEMMA WaitReach ==
    ASSUME TInv, NInv, NEW p \in Procs, WaitForProcSignalBarrier(p)
    PROVE  NInv'
<1>. USE DEF slotVars, signalVars, emitVars, To
<1>1. /\ pc[p] = "wait"
      /\ UNCHANGED <<psh_barrierGeneration, pss_barrierGeneration, ipc, seen, target,
                     pss_signalFlags, signal, mySlot, pending, pss_pid>>
  BY DEF WaitForProcSignalBarrier
<1>2. /\ \A q \in Procs \ {p} : pc'[q] = pc[q] /\ todo'[q] = todo[q] /\ gen'[q] = gen[q]
      /\ pc'[p] = "run" \/ (pc'[p] = "wait" /\ gen'[p] = gen[p])
  BY DEF TInv, IInv, Types, WaitForProcSignalBarrier
<1>3. Apart(p) /\ SameSlot(p)
  BY <1>1, <1>2 DEF Apart, SameSlot, Running
<1>4. SlotInv(p)' /\ \A e \in Procs \ {p} : ReachInv(e, p)'
  BY <1>2, <1>3, SameSlotInv, SameSlotReach DEF Striking
<1>5. ASSUME NEW q \in Procs PROVE ReachInv(p, q)'
  <2>1. CASE pc'[p] = "run"
    BY <2>1 DEF ReachInv, Behind, Struck, Numbered
  <2>2. CASE pc'[p] = "wait" /\ gen'[p] = gen[p]
    <3>1. Behind(p, q)' => Behind(p, q)
      BY <1>1, <2>2 DEF Behind
    <3>. QED
      BY <1>3, <2>2, <3>1, EmitterReach DEF Struck
  <2>. QED
    BY <1>2, <2>1, <2>2
<1>. QED
  BY <1>1, <1>3, <1>4, <1>5, AssembleReach

-----------------------------------------------------------------------------
(* Absorbing *)

\* A step of p that handles interrupts: p stays where it is, or its wait is
\* aborted, and nothing but its own slot and flags changes.
Handles(p) ==
    /\ Running(p) /\ Running(p)'
    /\ \/ pc'[p] = pc[p] /\ gen'[p] = gen[p] /\ todo'[p] = todo[p]
       \/ pc'[p] = "run"
    /\ UNCHANGED <<psh_barrierGeneration, target, mySlot, pss_pid>>

\* What is left to show for such a step: p itself is still notified.
LEMMA HandleReach ==
    ASSUME TInv, NInv, NEW p \in Procs, Apart(p), Handles(p),
           ipc'[p] # "none" => pss_barrierGeneration'[p] <= seen'[p],
           ASSUME NEW g \in Nat, g <= psh_barrierGeneration,
                  pss_barrierGeneration'[p] < g
           PROVE  /\ (pss_barrierGeneration[p] < g => Notified(p, g)) => Notified(p, g)'
                  /\ (pss_barrierGeneration[p] < g => Flagged(p, g)) => Flagged(p, g)'
    PROVE  NInv'
<1>1. SlotInv(p) /\ (pc[p] \in Striking => todo[p] \in Procs)
  BY DEF NInv, TInv, IInv, ProcInv, Emitting, Striking
<1>2. pc'[p] \in Striking => target'[p] = todo'[p] \/ pc'[todo'[p]] = "down"
  <2>. SUFFICES ASSUME pc'[p] \in Striking
                PROVE  target'[p] = todo'[p] \/ pc'[todo'[p]] = "down"
    OBVIOUS
  <2>1. pc[p] \in Striking /\ todo'[p] = todo[p] /\ target' = target /\ pc'[p] = pc[p]
    BY DEF Handles, Striking
  <2>. QED
    BY <1>1, <2>1 DEF SlotInv, Apart
<1>3. SlotInv(p)'
  <2>1. pc'[p] \notin Starting \cup {"clear_pid"}
    BY DEF Handles, Running, Starting
  <2>2. pss_pid'[p] /\ mySlot'[p]
    BY <1>1 DEF SlotInv, Handles, Running
  <2>. QED
    BY <1>2, <2>1, <2>2 DEF SlotInv, Starting
<1>4. ASSUME NEW e \in Procs, Behind(e, p)' \/ Struck(e, p)' PROVE ReachInv(e, p)'
  <2>1. /\ pc'[e] = pc[e] /\ gen'[e] = gen[e] /\ todo'[e] = todo[e]
        /\ pss_barrierGeneration'[p] < gen[e]
    BY <1>4 DEF Apart, Handles, Behind, Struck, Numbered
  <2>2. gen[e] \in Nat /\ gen[e] <= psh_barrierGeneration
    BY DEF TInv, IInv, Types, Bounded
  <2>3. Behind(e, p)' => (pss_barrierGeneration[p] < gen[e] => Notified(p, gen[e]))
    BY <2>1 DEF NInv, ReachInv, Behind
  <2>4. Struck(e, p)' => (pss_barrierGeneration[p] < gen[e] => Flagged(p, gen[e]))
    BY <2>1 DEF NInv, ReachInv, Struck
  <2>5. /\ Behind(e, p)' => Notified(p, gen[e])'
        /\ Struck(e, p)' => Flagged(p, gen[e])'
    BY <2>1, <2>2, <2>3, <2>4
  <2>. QED
    BY <2>5 DEF ReachInv
<1>5. ASSUME NEW q \in Procs \ {p}, Behind(p, q)' \/ Struck(p, q)' PROVE ReachInv(p, q)'
  <2>1. pc'[p] = pc[p] /\ gen'[p] = gen[p] /\ todo'[p] = todo[p]
    BY <1>5 DEF Handles, Behind, Struck, Numbered
  <2>2. /\ Behind(p, q)' => Notified(q, gen[p])
        /\ Struck(p, q)' => Flagged(q, gen[p])
    BY <2>1 DEF NInv, ReachInv, Behind, Struck, Apart
  <2>3. /\ Notified(q, gen[p]) => Notified(q, gen[p])'
        /\ Flagged(q, gen[p]) => Flagged(q, gen[p])'
    BY <2>1 DEF Notified, Flagged, Apart, Running
  <2>. QED
    BY <2>2, <2>3 DEF ReachInv
<1>6. \A e, q \in Procs : ReachInv(e, q)'
  BY <1>4, <1>5, AllReach DEF ReachInv
<1>7. pc[p] # "down" /\ psh_barrierGeneration' = psh_barrierGeneration /\ target' = target
  BY DEF Handles, Running
<1>. QED
  BY <1>3, <1>6, <1>7, AssembleReach

\* The handler hands the notification on.
LEMMA HandlerReach ==
    ASSUME TInv, NInv, NEW p \in Procs, SigusrHandler(p)
    PROVE  NInv'
<1>. USE DEF slotVars, signalVars, emitVars
<1>1. Apart(p)
  BY DEF TInv, Flags, Apart, SigusrHandler
<1>2. CASE Running(p)
  <2>1. Handles(p)
    BY <1>2 DEF Handles, Running, SigusrHandler
  <2>2. ipc'[p] # "none" => pss_barrierGeneration'[p] <= seen'[p]
    BY DEF NInv, SlotInv, SigusrHandler
  <2>3. ASSUME NEW g \in Nat, g <= psh_barrierGeneration,
               pss_barrierGeneration'[p] < g
        PROVE  /\ (pss_barrierGeneration[p] < g => Notified(p, g)) => Notified(p, g)'
               /\ (pss_barrierGeneration[p] < g => Flagged(p, g)) => Flagged(p, g)'
    <3>1. pss_barrierGeneration[p] < g
      BY <2>3 DEF SigusrHandler
    <3>2. /\ pending[p] => pending'[p]
          /\ mySlot[p] /\ pss_signalFlags[p] => pending'[p]
          /\ UNCHANGED <<pc, ipc, seen>>
      BY DEF SigusrHandler, TInv, Flags
    <3>. QED
      BY <3>1, <3>2 DEF Notified, Flagged, Running
  <2>. QED
    BY <1>1, <2>1, <2>2, <2>3, HandleReach
<1>3. CASE ~ Running(p)
  <2>1. UNCHANGED <<pc, gen, todo, target, ipc, seen, psh_barrierGeneration,
                    pss_barrierGeneration, pss_pid, mySlot>>
    BY DEF SigusrHandler
  <2>2. \A q \in Procs : SlotInv(q)'
    BY <2>1 DEF NInv, SlotInv, Running
  <2>3. ASSUME NEW e \in Procs, NEW q \in Procs PROVE ReachInv(e, q)'
    <3>1. ReachInv(e, q)
      BY DEF NInv
    <3>2. CASE q = p
      BY <1>3, <2>1, <3>1, <3>2 DEF ReachInv, Behind, Struck, Notified, Flagged
    <3>3. CASE q # p
      BY <1>1, <2>1, <3>1, <3>3
      DEF ReachInv, Behind, Struck, Notified, Flagged, Running, Apart
    <3>. QED
      BY <3>2, <3>3
  <2>. QED
    BY <2>2, <2>3 DEF NInv
<1>. QED
  BY <1>2, <1>3

\* The generation that is read is the latest, and it is read after the
\* notification is taken.
LEMMA ProcessReach ==
    ASSUME TInv, NInv, NEW p \in Procs, ProcessProcSignalBarrier(p)
    PROVE  NInv'
<1>. USE DEF slotVars, signalVars, emitVars, Into
<1>1. Apart(p)
  BY DEF TInv, IInv, Types, Flags, Apart, ProcessProcSignalBarrier
<1>2. Handles(p)
  BY DEF Handles, Running, ProcessProcSignalBarrier
<1>3. /\ pss_barrierGeneration' = pss_barrierGeneration
      /\ pss_barrierGeneration[p] <= psh_barrierGeneration
      /\ ipc[p] = "none"
  BY <1>2 DEF ProcessProcSignalBarrier, TInv, IInv, ProcInv, Handles
<1>4. \/ pss_barrierGeneration[p] = psh_barrierGeneration /\ ipc' = ipc
      \/ ipc'[p] = "flags" /\ seen'[p] = psh_barrierGeneration
  BY DEF ProcessProcSignalBarrier, TInv, IInv, Types
<1>5. ipc'[p] # "none" => pss_barrierGeneration'[p] <= seen'[p]
  BY <1>3, <1>4
<1>6. ASSUME NEW g \in Nat, g <= psh_barrierGeneration,
             pss_barrierGeneration'[p] < g
      PROVE  /\ (pss_barrierGeneration[p] < g => Notified(p, g)) => Notified(p, g)'
             /\ (pss_barrierGeneration[p] < g => Flagged(p, g)) => Flagged(p, g)'
  <2>1. psh_barrierGeneration \in Nat
    BY DEF TInv, IInv, Types
  <2>2. psh_barrierGeneration >= g /\ ~ (psh_barrierGeneration < g)
    BY SMTT(40), <1>6, <2>1
  <2>. QED
    BY <1>2, <1>3, <1>4, <1>6, <2>2 DEF Notified, Flagged, Handles
<1>. QED
  BY <1>1, <1>2, <1>5, <1>6, HandleReach

\* While p absorbs, it keeps the generation that it has read.
LEMMA AbsorbReach ==
    ASSUME TInv, NInv, NEW p \in Procs, TakeFlags(p) \/ AbsorbBarrier(p)
    PROVE  NInv'
<1>. USE DEF slotVars, signalVars, emitVars, Into
<1>1. Apart(p)
  BY DEF TInv, IInv, Types, Flags, Apart, TakeFlags, AbsorbBarrier
<1>2. /\ UNCHANGED <<pc, gen, todo, target, seen, psh_barrierGeneration,
                     pss_barrierGeneration, pss_pid, signalVars>>
      /\ ipc[p] # "none" /\ ipc'[p] # "none"
  BY DEF TakeFlags, AbsorbBarrier, TInv, IInv, Types
<1>3. Running(p) /\ pss_barrierGeneration[p] <= seen[p]
  BY <1>2 DEF TInv, IInv, ProcInv, Running, NInv, SlotInv
<1>4. Handles(p)
  BY <1>2, <1>3 DEF Handles, Running
<1>5. ASSUME NEW g \in Nat, g <= psh_barrierGeneration,
             pss_barrierGeneration'[p] < g
      PROVE  /\ (pss_barrierGeneration[p] < g => Notified(p, g)) => Notified(p, g)'
             /\ (pss_barrierGeneration[p] < g => Flagged(p, g)) => Flagged(p, g)'
  BY <1>2, <1>5 DEF Notified, Flagged, Running
<1>. QED
  BY <1>1, <1>2, <1>3, <1>4, <1>5, HandleReach

\* After an error p tries again.
LEMMA FailReach ==
    ASSUME TInv, NInv, NEW p \in Procs, AbsorbFails(p)
    PROVE  NInv'
<1>. USE DEF slotVars, signalVars, emitVars, Into, To
<1>1. Apart(p)
  BY DEF TInv, IInv, Types, Flags, Apart, AbsorbFails
<1>2. /\ UNCHANGED <<target, psh_barrierGeneration, pss_barrierGeneration, pss_pid,
                     mySlot>>
      /\ ipc[p] # "none" /\ ipc'[p] = "none" /\ pc'[p] = "run" /\ pending'[p]
  BY DEF AbsorbFails, TInv, IInv, Types, Flags
<1>3. Running(p) /\ Running(p)'
  BY <1>2 DEF TInv, IInv, ProcInv, Running
<1>4. Handles(p)
  BY <1>2, <1>3 DEF Handles
<1>5. ASSUME NEW g \in Nat PROVE Notified(p, g)' /\ Flagged(p, g)'
  BY <1>2, <1>3 DEF Notified, Flagged
<1>. QED
  BY <1>1, <1>2, <1>4, <1>5, HandleReach

\* What p advertises is what it has read; of a barrier that came later it has
\* been notified again.
LEMMA AdvertiseReach ==
    ASSUME TInv, NInv, NEW p \in Procs, Advertise(p)
    PROVE  NInv'
<1>. USE DEF slotVars, signalVars, emitVars, Into
<1>1. Apart(p)
  BY DEF TInv, IInv, Types, Flags, Apart, Advertise
<1>2. /\ UNCHANGED <<pc, gen, todo, target, psh_barrierGeneration, pss_pid, signalVars>>
      /\ ipc[p] # "none" /\ ipc'[p] = "none" /\ pss_barrierGeneration'[p] = seen[p]
  BY DEF Advertise, TInv, IInv, Types
<1>3. Running(p) /\ pss_barrierGeneration[p] <= seen[p]
  BY <1>2 DEF TInv, IInv, ProcInv, Running, NInv, SlotInv
<1>4. Handles(p)
  BY <1>2, <1>3 DEF Handles, Running
<1>5. ASSUME NEW g \in Nat, g <= psh_barrierGeneration,
             pss_barrierGeneration'[p] < g
      PROVE  /\ (pss_barrierGeneration[p] < g => Notified(p, g)) => Notified(p, g)'
             /\ (pss_barrierGeneration[p] < g => Flagged(p, g)) => Flagged(p, g)'
  <2>1. seen[p] \in Nat /\ pss_barrierGeneration[p] \in Nat /\ seen[p] < g
    BY <1>2, <1>5 DEF TInv, IInv, Types
  <2>2. pss_barrierGeneration[p] < g /\ ~ (seen[p] >= g)
    BY SMTT(40), <1>3, <2>1
  <2>. QED
    BY <1>2, <2>2 DEF Notified, Flagged, Running
<1>. QED
  BY <1>1, <1>2, <1>4, <1>5, HandleReach

-----------------------------------------------------------------------------
(* What quiet barriers may rely on *)

\* NInv is inductive as long as no process starts while another one emits.
LEMMA ReachKept ==
    ASSUME TInv, GenerationExists, NInv, ~StartMeetsEmit, ~StartMeetsEmit', [Next]_vars
    PROVE  NInv'
<1>1. CASE UNCHANGED vars
  <2>1. /\ UNCHANGED <<pc, ipc, seen, gen, todo, target, mySlot, pending, signal>>
        /\ UNCHANGED <<psh_barrierGeneration, pss_barrierGeneration, pss_pid,
                       pss_signalFlags>>
    BY <1>1 DEF vars, slotVars, signalVars, emitVars
  <2>2. \A q \in Procs : SlotInv(q)'
    BY <2>1 DEF NInv, SlotInv, Running
  <2>3. \A e, q \in Procs : ReachInv(e, q)'
    BY <2>1 DEF NInv, ReachInv, Behind, Struck, Notified, Flagged, Running
  <2>. QED
    BY <2>2, <2>3 DEF NInv
<1>2. ASSUME NEW p \in Procs, Step(p) PROVE NInv'
  BY <1>2, StartReach, EndReach, PrepareReach, BumpReach, KickReach, FlagReach,
     KillReach, WaitReach
  DEF Step
<1>3. ASSUME NEW p \in Procs, Interrupts(p) \/ AbsorbFails(p) PROVE NInv'
  BY <1>3, HandlerReach, ProcessReach, AbsorbReach, AdvertiseReach, FailReach
  DEF Interrupts
<1>4. ASSUME NEW p \in Procs,
             ProcSignalInit(p) \/ CleanupProcSignalState(p) \/ Cache(p) \/ Change(p)
      PROVE  NInv'
  BY <1>4, StartReach, EndReach, PrepareReach
<1>. QED
  BY <1>1, <1>2, <1>3, <1>4 DEF Next

\* When no process starts while another one emits a barrier, nobody ever waits
\* for a process that does not know of the barrier, for any number of slots,
\* barriers and errors: WaitForProcSignalBarrier depends on nothing but the
\* others' handling their interrupts.
THEOREM NotificationsArrive == Spec => QuietNotified
<1>1. Init => NInv
  <2>. SUFFICES ASSUME Init PROVE NInv
    OBVIOUS
  <2>1. \A q \in Procs : SlotInv(q)
    BY DEF Init, ProcSignalShmemInit, SlotInv, Running, Striking
  <2>2. \A e \in Procs : pc[e] \notin Numbered
    BY DEF Init, Numbered
  <2>. QED
    BY <2>1, <2>2 DEF NInv, ReachInv, Behind, Struck, Numbered
<1>2. NInv => WaitersNotified
  BY DEF NInv, ReachInv, Behind, Numbered, WaitersNotified
<1>3. TInv /\ GenerationExists /\ NInv /\ ~StartMeetsEmit /\ (~StartMeetsEmit)'
        /\ [Next]_vars => NInv'
  BY ReachKept
<1>. QED
  BY <1>1, <1>2, <1>3, BoundedInvariant, GenerationsExist, PTL DEF Spec, QuietNotified

=============================================================================
