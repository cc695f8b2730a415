----------------------------- MODULE ProcSignal ------------------------------
(***************************************************************************)
(* The barriers by which a process makes all others drop state that they   *)
(* have cached (src/backend/storage/ipc/procsignal.c in the PostgreSQL     *)
(* tree).                                                                  *)
(*                                                                         *)
(* The cached state is an open file in the source; here it is the version  *)
(* of some shared state, which the process that emits a barrier has just   *)
(* changed.  There is one type of barrier, as in the source.  A process    *)
(* has its slot for itself; when it ends, another one may start in it.     *)
(* The sleep of WaitForProcSignalBarrier looks at the slot at least every  *)
(* five seconds, so that it is a guard here.                               *)
(***************************************************************************)
EXTENDS Naturals

CONSTANTS
    NumSlots,    \* the number of slots
    Up,          \* the processes that run at the start
    Joining,     \* the processes that may start later
    MaxEmits,    \* bound: barriers
    MaxErrors    \* bound: errors while a barrier is absorbed

\* The processes, each named by its slot.
Procs == 1 .. NumSlots

ASSUME ProcSignalAssumption ==
    /\ NumSlots \in Nat
    /\ Up \subseteq Procs /\ Joining \subseteq Procs
    /\ MaxEmits \in Nat /\ MaxErrors \in Nat

VARIABLES
    version,     \* the version of the shared state
    cached,      \* per process: the version that it has cached, or 0
    psh_barrierGeneration,
    pss_barrierGeneration, pss_barrierCheckMask, pss_pid,   \* the slots
    pss_signalFlags,   \* per slot: the flag for PROCSIG_BARRIER
    signal,      \* per process: is SIGUSR1 pending?
    mySlot,      \* per process: is MyProcSignalSlot set?
    pending,     \* per process: ProcSignalBarrierPending
    pc,          \* per process: what it is doing
    ipc,         \* per process: its place in ProcessProcSignalBarrier
    gen,         \* per process: a generation that it has read or waits for
    seen,        \* per process: shared_gen of ProcessProcSignalBarrier
    todo,        \* per process: the slot that its loop has come to, or 0
    target,      \* per process: the process that it is about to signal, or 0
    mine,        \* per process: the version that its barrier is about
    confirmed,   \* history: the last version that a wait has confirmed
    errors       \* history: errors so far

slotVars == <<pss_barrierGeneration, pss_barrierCheckMask, pss_pid>>
signalVars == <<pss_signalFlags, signal, mySlot, pending>>
emitVars == <<gen, todo, target, mine>>
history == <<confirmed, errors>>
vars == <<version, cached, psh_barrierGeneration, slotVars, signalVars, pc,
          ipc, seen, emitVars, history>>

\* PG_UINT64_MAX, which no generation reaches.
Infinite == MaxEmits + 1

Running(p) == pc[p] \in {"run", "mark", "bump", "kick", "flag", "kill", "wait"}
To(p, l) == pc' = [pc EXCEPT ![p] = l]
Into(p, l) == ipc' = [ipc EXCEPT ![p] = l]

ProcSignalShmemInit ==
    /\ psh_barrierGeneration = 0
    /\ pss_barrierGeneration = [p \in Procs |-> IF p \in Up THEN 0
                                                            ELSE Infinite]
    /\ pss_barrierCheckMask = [p \in Procs |-> FALSE]
    /\ pss_pid = [p \in Procs |-> p \in Up]
    /\ pss_signalFlags = [p \in Procs |-> FALSE]

Init ==
    /\ ProcSignalShmemInit
    /\ version = 1
    /\ cached = [p \in Procs |-> 0]
    /\ signal = [p \in Procs |-> FALSE]
    /\ mySlot = [p \in Procs |-> p \in Up]
    /\ pending = [p \in Procs |-> FALSE]
    /\ pc = [p \in Procs |-> IF p \in Up THEN "run" ELSE "down"]
    /\ ipc = [p \in Procs |-> "none"]
    /\ gen = [p \in Procs |-> 0]
    /\ seen = [p \in Procs |-> 0]
    /\ todo = [p \in Procs |-> 0]
    /\ target = [p \in Procs |-> 0]
    /\ mine = [p \in Procs |-> 0]
    /\ confirmed = 0
    /\ errors = 0

-----------------------------------------------------------------------------
(* ProcSignalInit and CleanupProcSignalState *)

\* A process starts: it clears what the slot held.
ProcSignalInit(p) ==
    /\ p \in Joining
    /\ pc[p] = "down"
    /\ pss_signalFlags' = [pss_signalFlags EXCEPT ![p] = FALSE]
    /\ pss_barrierCheckMask' = [pss_barrierCheckMask EXCEPT ![p] = FALSE]
    /\ To(p, "read_generation")
    /\ UNCHANGED <<version, cached, psh_barrierGeneration,
                   pss_barrierGeneration, pss_pid, signal, mySlot, pending,
                   ipc, seen, emitVars, history>>

ReadGeneration(p) ==
    /\ pc[p] = "read_generation"
    /\ gen' = [gen EXCEPT ![p] = psh_barrierGeneration]
    /\ To(p, "write_generation")
    /\ UNCHANGED <<version, cached, psh_barrierGeneration, slotVars,
                   signalVars, ipc, seen, todo, target, mine,
                   history>>

\* Mutant: the slot keeps the generation of the process before.
WriteNothing(p) ==
    /\ pc[p] = "write_generation"
    /\ gen' = [gen EXCEPT ![p] = 0]
    /\ To(p, "set_pid")
    /\ UNCHANGED <<version, cached, psh_barrierGeneration, slotVars,
                   signalVars, ipc, seen, todo, target, mine, history>>

WriteGeneration(p) ==
    /\ pc[p] = "write_generation"
    /\ pss_barrierGeneration' = [pss_barrierGeneration EXCEPT ![p] = gen[p]]
    /\ gen' = [gen EXCEPT ![p] = 0]
    /\ To(p, "set_pid")
    /\ UNCHANGED <<version, cached, psh_barrierGeneration,
                   pss_barrierCheckMask, pss_pid, signalVars, ipc, seen, todo,
                   target, mine, history>>

\* From here on the process is sent signals.
SetPid(p) ==
    /\ pc[p] = "set_pid"
    /\ pss_pid' = [pss_pid EXCEPT ![p] = TRUE]
    /\ To(p, "set_slot")
    /\ UNCHANGED <<version, cached, psh_barrierGeneration,
                   pss_barrierGeneration, pss_barrierCheckMask, signalVars,
                   ipc, seen, emitVars, history>>

\* From here on it notices them.
SetSlot(p) ==
    /\ pc[p] = "set_slot"
    /\ mySlot' = [mySlot EXCEPT ![p] = TRUE]
    /\ To(p, "run")
    /\ UNCHANGED <<version, cached, psh_barrierGeneration, slotVars,
                   pss_signalFlags, signal, pending, ipc, seen, emitVars,
                   history>>

\* Mutant: the slot keeps the generation of the process that ends.
CleanupKeepsGeneration(p) ==
    /\ pc[p] = "run" /\ ipc[p] = "none"
    /\ mySlot' = [mySlot EXCEPT ![p] = FALSE]
    /\ To(p, "clear_pid")
    /\ UNCHANGED <<version, cached, psh_barrierGeneration, slotVars,
                   pss_signalFlags, signal, pending, ipc, seen, emitVars,
                   history>>

\* A process ends.  Its slot looks as if it had absorbed every barrier.
CleanupProcSignalState(p) ==
    /\ pc[p] = "run" /\ ipc[p] = "none"
    /\ mySlot' = [mySlot EXCEPT ![p] = FALSE]
    /\ pss_barrierGeneration' = [pss_barrierGeneration EXCEPT ![p] = Infinite]
    /\ To(p, "clear_pid")
    /\ UNCHANGED <<version, cached, psh_barrierGeneration,
                   pss_barrierCheckMask, pss_pid, pss_signalFlags, signal,
                   pending, ipc, seen, emitVars, history>>

\* The process is gone, and with it what it had in memory.
ClearPid(p) ==
    /\ pc[p] = "clear_pid"
    /\ pss_pid' = [pss_pid EXCEPT ![p] = FALSE]
    /\ cached' = [cached EXCEPT ![p] = 0]
    /\ signal' = [signal EXCEPT ![p] = FALSE]
    /\ pending' = [pending EXCEPT ![p] = FALSE]
    /\ target' = [q \in Procs |-> IF target[q] = p THEN 0 ELSE target[q]]
    /\ To(p, "down")
    /\ UNCHANGED <<version, psh_barrierGeneration, pss_barrierGeneration,
                   pss_barrierCheckMask, pss_signalFlags, mySlot, ipc, seen,
                   gen, todo, mine, history>>

-----------------------------------------------------------------------------
(* The state that barriers are about *)

\* A process caches the shared state as it is (it opens the file).
Cache(p) ==
    /\ pc[p] = "run" /\ ipc[p] = "none"
    /\ cached[p] # version
    /\ cached' = [cached EXCEPT ![p] = version]
    /\ UNCHANGED <<version, psh_barrierGeneration, slotVars, signalVars, pc,
                   ipc, seen, emitVars, history>>

\* The caller of EmitProcSignalBarrier has changed the shared state.
Change(p) ==
    /\ pc[p] = "run" /\ ipc[p] = "none"
    /\ version <= MaxEmits
    /\ version' = version + 1
    /\ mine' = [mine EXCEPT ![p] = version + 1]
    /\ todo' = [todo EXCEPT ![p] = 1]
    /\ To(p, "mark")
    /\ UNCHANGED <<cached, psh_barrierGeneration, slotVars, signalVars, ipc,
                   seen, gen, target, history>>

-----------------------------------------------------------------------------
(* EmitProcSignalBarrier and WaitForProcSignalBarrier *)

\* Set the flag of one slot.
MarkSlot(p) ==
    /\ pc[p] = "mark"
    /\ LET q == todo[p] IN
           /\ pss_barrierCheckMask' = [pss_barrierCheckMask EXCEPT ![q] = TRUE]
           /\ todo' = [todo EXCEPT ![p] = IF q = NumSlots THEN 0 ELSE q + 1]
           /\ To(p, IF q = NumSlots THEN "bump" ELSE "mark")
    /\ UNCHANGED <<version, cached, psh_barrierGeneration,
                   pss_barrierGeneration, pss_pid, signalVars, ipc, seen, gen,
                   target, mine, history>>

\* The new generation is the one to wait for.
IncrementGeneration(p) ==
    /\ pc[p] = "bump"
    /\ psh_barrierGeneration' = psh_barrierGeneration + 1
    /\ gen' = [gen EXCEPT ![p] = psh_barrierGeneration + 1]
    /\ todo' = [todo EXCEPT ![p] = NumSlots]
    /\ To(p, "kick")
    /\ UNCHANGED <<version, cached, slotVars, signalVars, ipc, seen, target,
                   mine, history>>

\* The loop over the slots goes on, or the emitter begins to wait.
NextSlot(p) ==
    IF todo[p] = 1
    THEN todo' = [todo EXCEPT ![p] = NumSlots] /\ To(p, "wait")
    ELSE todo' = [todo EXCEPT ![p] = @ - 1] /\ To(p, "kick")

\* Look for the process of a slot.
ReadPid(p) ==
    /\ pc[p] = "kick"
    /\ IF pss_pid[todo[p]]
       THEN /\ target' = [target EXCEPT ![p] = todo[p]]
            /\ To(p, "flag") /\ UNCHANGED todo
       ELSE NextSlot(p) /\ UNCHANGED target
    /\ UNCHANGED <<version, cached, psh_barrierGeneration, slotVars,
                   signalVars, ipc, seen, gen, mine, history>>

\* Flag the slot.  The process may have ended since; then the flag is for
\* nobody, or for the next process of the slot.
FlagSlot(p) ==
    /\ pc[p] = "flag"
    /\ pss_signalFlags' = [pss_signalFlags EXCEPT ![todo[p]] = TRUE]
    /\ To(p, "kill")
    /\ UNCHANGED <<version, cached, psh_barrierGeneration, slotVars, signal,
                   mySlot, pending, ipc, seen, emitVars, history>>

\* Signal the process, or nobody if it has ended.
SignalProcess(p) ==
    /\ pc[p] = "kill"
    /\ signal' = [q \in Procs |-> signal[q] \/ q = target[p]]
    /\ target' = [target EXCEPT ![p] = 0]
    /\ NextSlot(p)
    /\ UNCHANGED <<version, cached, psh_barrierGeneration, slotVars,
                   pss_signalFlags, mySlot, pending, ipc, seen, gen, mine,
                   history>>

\* A slot has reached the generation; after the last one the barrier is known
\* to be absorbed everywhere.
WaitForProcSignalBarrier(p) ==
    /\ pc[p] = "wait" /\ ipc[p] = "none"
    /\ LET q == todo[p] IN
           /\ pss_barrierGeneration[q] >= gen[p]
           /\ todo' = [todo EXCEPT ![p] = q - 1]
           /\ IF q = 1
              THEN /\ confirmed' = IF mine[p] > confirmed THEN mine[p]
                                                          ELSE confirmed
                   /\ gen' = [gen EXCEPT ![p] = 0]
                   /\ mine' = [mine EXCEPT ![p] = 0]
                   /\ To(p, "run")
              ELSE UNCHANGED <<confirmed, gen, mine, pc>>
    /\ UNCHANGED <<version, cached, psh_barrierGeneration, slotVars,
                   signalVars, ipc, seen, target, errors>>

-----------------------------------------------------------------------------
(* Handling the signal and ProcessProcSignalBarrier *)

\* procsignal_sigusr1_handler, at any time in the life of a process.
SigusrHandler(p) ==
    /\ signal[p]
    /\ signal' = [signal EXCEPT ![p] = FALSE]
    /\ LET flagged == mySlot[p] /\ pss_signalFlags[p]
       IN  /\ pss_signalFlags' = [pss_signalFlags EXCEPT ![p] = @ /\ ~flagged]
           /\ pending' = [pending EXCEPT ![p] = @ \/ flagged]
    /\ UNCHANGED <<version, cached, psh_barrierGeneration, slotVars, mySlot,
                   pc, ipc, seen, emitVars, history>>

\* CHECK_FOR_INTERRUPTS, also in the sleep of a process that waits.
ProcessProcSignalBarrier(p) ==
    /\ pc[p] \in {"run", "wait"} /\ ipc[p] = "none"
    /\ pending[p]
    /\ pending' = [pending EXCEPT ![p] = FALSE]
    /\ IF pss_barrierGeneration[p] = psh_barrierGeneration
       THEN UNCHANGED <<ipc, seen>>
       ELSE /\ seen' = [seen EXCEPT ![p] = psh_barrierGeneration]
            /\ Into(p, "flags")
    /\ UNCHANGED <<version, cached, psh_barrierGeneration, slotVars,
                   pss_signalFlags, signal, mySlot, pc, emitVars, history>>

TakeFlags(p) ==
    /\ ipc[p] = "flags"
    /\ pss_barrierCheckMask' = [pss_barrierCheckMask EXCEPT ![p] = FALSE]
    /\ Into(p, IF pss_barrierCheckMask[p] THEN "absorb" ELSE "advertise")
    /\ UNCHANGED <<version, cached, psh_barrierGeneration,
                   pss_barrierGeneration, pss_pid, signalVars, pc, seen,
                   emitVars, history>>

\* The process drops what it has cached.
AbsorbBarrier(p) ==
    /\ ipc[p] = "absorb"
    /\ cached' = [cached EXCEPT ![p] = 0]
    /\ Into(p, "advertise")
    /\ UNCHANGED <<version, psh_barrierGeneration, slotVars, signalVars, pc,
                   seen, emitVars, history>>

\* Mutant: the flags are set again, but not ProcSignalBarrierPending.
AbsorbFailsQuietly(p) ==
    /\ ipc[p] = "absorb"
    /\ errors < MaxErrors
    /\ errors' = errors + 1
    /\ pss_barrierCheckMask' = [pss_barrierCheckMask EXCEPT ![p] = TRUE]
    /\ Into(p, "none")
    /\ todo' = [todo EXCEPT ![p] = 0]
    /\ gen' = [gen EXCEPT ![p] = 0]
    /\ mine' = [mine EXCEPT ![p] = 0]
    /\ seen' = [seen EXCEPT ![p] = 0]
    /\ To(p, "run")
    /\ UNCHANGED <<version, cached, psh_barrierGeneration,
                   pss_barrierGeneration, pss_pid, signalVars, target,
                   confirmed>>

\* An error: the flags are set again to retry later, and what the process was
\* doing is aborted.
AbsorbFails(p) ==
    /\ ipc[p] = "absorb"
    /\ errors < MaxErrors
    /\ errors' = errors + 1
    /\ pss_barrierCheckMask' = [pss_barrierCheckMask EXCEPT ![p] = TRUE]
    /\ pending' = [pending EXCEPT ![p] = TRUE]
    /\ Into(p, "none")
    /\ todo' = [todo EXCEPT ![p] = 0]
    /\ gen' = [gen EXCEPT ![p] = 0]
    /\ mine' = [mine EXCEPT ![p] = 0]
    /\ seen' = [seen EXCEPT ![p] = 0]
    /\ To(p, "run")
    /\ UNCHANGED <<version, cached, psh_barrierGeneration,
                   pss_barrierGeneration, pss_pid, pss_signalFlags, signal,
                   mySlot, target, confirmed>>

\* Mutant: the generation is read again.
AdvertiseLatest(p) ==
    /\ ipc[p] = "advertise"
    /\ pss_barrierGeneration' =
           [pss_barrierGeneration EXCEPT ![p] = psh_barrierGeneration]
    /\ seen' = [seen EXCEPT ![p] = 0]
    /\ Into(p, "none")
    /\ UNCHANGED <<version, cached, psh_barrierGeneration,
                   pss_barrierCheckMask, pss_pid, signalVars, pc, emitVars,
                   history>>

\* The generation that was read before the flags were taken is advertised.
Advertise(p) ==
    /\ ipc[p] = "advertise"
    /\ pss_barrierGeneration' = [pss_barrierGeneration EXCEPT ![p] = seen[p]]
    /\ seen' = [seen EXCEPT ![p] = 0]
    /\ Into(p, "none")
    /\ UNCHANGED <<version, cached, psh_barrierGeneration,
                   pss_barrierCheckMask, pss_pid, signalVars, pc, emitVars,
                   history>>

-----------------------------------------------------------------------------
(* The specification *)

\* What a process does without being asked to: it goes on starting, ending,
\* emitting and waiting, and it handles its interrupts.
Step(p) ==
    \/ ReadGeneration(p) \/ WriteGeneration(p) \/ SetPid(p) \/ SetSlot(p)
    \/ ClearPid(p) \/ MarkSlot(p) \/ IncrementGeneration(p) \/ ReadPid(p)
    \/ FlagSlot(p) \/ SignalProcess(p) \/ WaitForProcSignalBarrier(p)

Interrupts(p) ==
    \/ SigusrHandler(p) \/ ProcessProcSignalBarrier(p) \/ TakeFlags(p)
    \/ AbsorbBarrier(p) \/ Advertise(p)

Next ==
    \E p \in Procs :
        \/ Step(p) \/ Interrupts(p)
        \/ ProcSignalInit(p) \/ CleanupProcSignalState(p)
        \/ Cache(p) \/ Change(p) \/ AbsorbFails(p)

Spec == Init /\ [][Next]_vars

\* Signals are delivered, and "any backend that participates in ProcSignal
\* signaling must arrange to call this function periodically"
\* (ProcessProcSignalBarrier).
FairSpec ==
    Spec /\ \A p \in Procs : WF_vars(Step(p)) /\ WF_vars(Interrupts(p))

-----------------------------------------------------------------------------
(* Properties *)

\* The types of the variables.
TypeOK ==
    /\ version \in 1 .. MaxEmits + 1
    /\ cached \in [Procs -> 0 .. version]
    /\ psh_barrierGeneration \in 0 .. MaxEmits
    /\ pss_barrierGeneration \in [Procs -> 0 .. Infinite]
    /\ pss_barrierCheckMask \in [Procs -> BOOLEAN]
    /\ pss_pid \in [Procs -> BOOLEAN]
    /\ pss_signalFlags \in [Procs -> BOOLEAN]
    /\ signal \in [Procs -> BOOLEAN] /\ mySlot \in [Procs -> BOOLEAN]
    /\ pending \in [Procs -> BOOLEAN]
    /\ pc \in [Procs -> {"down", "read_generation", "write_generation",
                         "set_pid", "set_slot", "run", "mark", "bump", "kick",
                         "flag", "kill", "wait", "clear_pid"}]
    /\ ipc \in [Procs -> {"none", "flags", "absorb", "advertise"}]
    /\ gen \in [Procs -> 0 .. MaxEmits] /\ seen \in [Procs -> 0 .. MaxEmits]
    /\ todo \in [Procs -> 0 .. NumSlots]
    /\ target \in [Procs -> 0 .. NumSlots]
    /\ mine \in [Procs -> 0 .. version]
    /\ confirmed \in 0 .. version /\ errors \in 0 .. MaxErrors

\* Once a wait has returned, no process works with state from before the
\* change that its barrier was about, whatever other barriers, errors, starts
\* and ends were under way.
NothingStale ==
    \A p \in Procs : Running(p) => cached[p] = 0 \/ cached[p] >= confirmed

\* The state is well typed, and a slot never advertises a generation that does
\* not exist: the assertions local_gen <= shared_gen and
\* generation <= psh_barrierGeneration.
GenerationExists ==
    /\ TypeOK
    /\ \A p \in Procs :
        /\ Running(p) => pss_barrierGeneration[p] <= psh_barrierGeneration
        /\ pc[p] = "wait" => gen[p] <= psh_barrierGeneration

\* Some process starts while another one emits a barrier.
StartMeetsEmit ==
    /\ \E p \in Procs : pc[p] \in {"read_generation", "write_generation",
                                   "set_pid", "set_slot"}
    /\ \E q \in Procs : pc[q] \in {"mark", "bump", "kick", "flag", "kill"}

\* Process q, which handles its interrupts, is bound to advertise generation g
\* or a later one: a signal that its handler will find flagged is on the way,
\* the handler has run, or it has read such a generation already.
Notified(q, g) ==
    /\ Running(q)
    /\ \/ signal[q] /\ mySlot[q] /\ pss_signalFlags[q]
       \/ pending[q]
       \/ ipc[q] # "none" /\ seen[q] >= g

\* Nobody waits for a slot whose process does not know of the barrier.
WaitersNotified ==
    \A p, q \in Procs :
        pc[p] = "wait" /\ pss_barrierGeneration[q] < gen[p] =>
            Notified(q, gen[p])

\* When no process ever starts just while a barrier is emitted, no
\* notification is lost: not by an error in the midst of absorbing, not by a
\* second barrier that comes while the first is absorbed, not by a process that
\* ends between the look at pss_pid and the kill, and not by the next process
\* of its slot.
QuietNotified == []~StartMeetsEmit => []WaitersNotified

\* WaitForProcSignalBarrier returns, or is aborted.
WaitsEnd == \A p \in Procs : pc[p] = "wait" ~> pc[p] # "wait"

\* So it does when no process ever starts just while a barrier is emitted:
\* neither errors, other barriers, nor processes that end, and start at other
\* times, keep it waiting.
QuietWaitsEnd == []~StartMeetsEmit => WaitsEnd
=============================================================================
