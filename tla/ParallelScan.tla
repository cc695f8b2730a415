---------------------------- MODULE ParallelScan -----------------------------
(***************************************************************************)
(* The processes of a parallel forward scan of a B-tree, which share the   *)
(* next page to read (src/backend/access/nbtree/nbtree.c and nbtsearch.c   *)
(* in the PostgreSQL tree), over the condition variable that they wait on. *)
(* The scan has no array keys.                                             *)
(*                                                                         *)
(* The leaf pages that the scan can meet are 1 .. NumPages, linked in this *)
(* order.  Pages in Ignored are deleted or half-dead.  A process that has  *)
(* read a page at or after LastMatch knows that no later one matches.      *)
(***************************************************************************)
EXTENDS ConditionVariable

CONSTANTS NumPages, Ignored, LastMatch

ASSUME PagesAssumption ==
    /\ NumPages \in Nat /\ LastMatch \in Nat
    /\ Ignored \subseteq 1 .. NumPages

VARIABLES
    pageStatus,  \* btps_pageStatus
    scanPage,    \* btps_scanPage
    pc,          \* per process: its place in the scan
    page,        \* per process: the page that it has seized or is reading
    moreRight,   \* per process: so->currPos.moreRight
    reads        \* history: how often a page was read

scanVars == <<pageStatus, scanPage, page, moreRight, reads>>
vars == <<cvVars, pc, scanVars>>

Pages == 1 .. NumPages
P_NONE == NumPages + 1
InvalidBlockNumber == 0

At(p, l) == pc[p] = l /\ cvpc[p] = "ready"
To(p, l) == pc' = [pc EXCEPT ![p] = l]

btinitparallelscan ==
    /\ pageStatus = "not_initialized"
    /\ scanPage = InvalidBlockNumber
    /\ ConditionVariableInit

Init ==
    /\ btinitparallelscan
    /\ pc = [p \in Procs |-> "first"]
    /\ page = [p \in Procs |-> InvalidBlockNumber]
    /\ moreRight = [p \in Procs |-> TRUE]
    /\ reads = [n \in Pages |-> 0]

-----------------------------------------------------------------------------
(* _bt_parallel_seize *)

\* Mutant: the scan is not marked as seized.
SeizeUnmarked(p) ==
    /\ pc[p] \in {"first", "next"} /\ cvpc[p] = "ready"
    /\ pageStatus \in {"not_initialized", "idle"}
    /\ page' = [page EXCEPT ![p] = scanPage]
    /\ To(p, IF pc[p] = "first" THEN "cancel_first" ELSE "cancel")
    /\ UNCHANGED <<cvVars, pageStatus, scanPage, moreRight, reads>>

\* The scan is free: the process seizes it and stops waiting.
Seize(p) ==
    /\ pc[p] \in {"first", "next"} /\ cvpc[p] = "ready"
    /\ pageStatus \in {"not_initialized", "idle"}
    /\ pageStatus' = "advancing"
    /\ page' = [page EXCEPT ![p] = scanPage]
    /\ To(p, IF pc[p] = "first" THEN "cancel_first" ELSE "cancel")
    /\ UNCHANGED <<cvVars, scanPage, moreRight, reads>>

\* Another process advances the scan: wait and test again.  The mutex of the
\* scan is released before the sleep looks at the list.
SeizeWaits(p) ==
    /\ pc[p] \in {"first", "next"} /\ cvpc[p] = "ready"
    /\ pageStatus = "advancing"
    /\ To(p, IF pc[p] = "first" THEN "wait_first" ELSE "wait")
    /\ UNCHANGED <<cvVars, scanVars>>

SeizeSleeps(p) ==
    /\ pc[p] \in {"wait_first", "wait"}
    /\ ConditionVariableSleep(p)
    /\ To(p, IF pc[p] = "wait_first" THEN "first" ELSE "next")
    /\ UNCHANGED scanVars

\* The scan is done.
SeizeFails(p) ==
    /\ pc[p] \in {"first", "next"} /\ cvpc[p] = "ready"
    /\ pageStatus = "done"
    /\ To(p, "cancel_end")
    /\ UNCHANGED <<cvVars, scanVars>>

StopWaiting(p) ==
    /\ pc[p] \in {"cancel_first", "cancel", "cancel_end"}
    /\ ConditionVariableCancelSleep(p)
    /\ To(p, CASE pc[p] = "cancel_first" -> "seized_first"
               [] pc[p] = "cancel" -> "seized"
               [] pc[p] = "cancel_end" -> "end")
    /\ UNCHANGED scanVars

-----------------------------------------------------------------------------
(* _bt_first, _bt_readnextpage and _bt_readpage *)

\* _bt_first: a scan that has not started descends to its first leaf page, or
\* finds that the index is empty.
FirstPage(p) ==
    /\ At(p, "seized_first")
    /\ moreRight' = [moreRight EXCEPT ![p] = TRUE]
    /\ page' = [page EXCEPT ![p] = IF @ = InvalidBlockNumber THEN 1 ELSE @]
    /\ To(p, "seized")
    /\ UNCHANGED <<cvVars, pageStatus, scanPage, reads>>

\* _bt_readnextpage gives up at the end: _bt_parallel_done.
EndOfScan(p) ==
    /\ At(p, "seized")
    /\ page[p] = P_NONE \/ ~moreRight[p]
    /\ pageStatus' = "done"
    /\ To(p, IF pageStatus = "done" THEN "end" ELSE "broadcast")
    /\ UNCHANGED <<cvVars, scanPage, page, moreRight, reads>>

\* Mutant: the other processes are not told that the scan is done.
DoneQuietly(p) ==
    /\ At(p, "broadcast")
    /\ To(p, "end")
    /\ UNCHANGED <<cvVars, scanVars>>

BroadcastDone(p) ==
    /\ At(p, "broadcast")
    /\ ConditionVariableBroadcast(p)
    /\ To(p, "end")
    /\ UNCHANGED scanVars

\* Mutant: the page after the next one is released.
ReleaseSkips(p) ==
    /\ At(p, "seized")
    /\ page[p] # P_NONE /\ moreRight[p]
    /\ scanPage' = IF page[p] < NumPages THEN page[p] + 2 ELSE P_NONE
    /\ pageStatus' = "idle"
    /\ To(p, "signal")
    /\ UNCHANGED <<cvVars, page, moreRight, reads>>

\* _bt_parallel_release, by _bt_readpage before it looks at the tuples or for
\* a page that is ignored.
Release(p) ==
    /\ At(p, "seized")
    /\ page[p] # P_NONE /\ moreRight[p]
    /\ scanPage' = page[p] + 1
    /\ pageStatus' = "idle"
    /\ To(p, "signal")
    /\ UNCHANGED <<cvVars, page, moreRight, reads>>

SignalRelease(p) ==
    /\ At(p, "signal")
    /\ ConditionVariableSignal(p)
    /\ To(p, "read")
    /\ UNCHANGED scanVars

\* The rest of _bt_readpage; the tuples of the page are then returned.
ReadPage(p) ==
    /\ At(p, "read")
    /\ IF page[p] \in Ignored
       THEN UNCHANGED <<moreRight, reads>>
       ELSE /\ reads' = [reads EXCEPT ![page[p]] = @ + 1]
            /\ moreRight' = [moreRight EXCEPT ![p] = page[p] < LastMatch]
    /\ To(p, "step")
    /\ UNCHANGED <<cvVars, pageStatus, scanPage, page>>

\* The executor asks for more tuples (_bt_steppage), or it has enough.
Continue(p) ==
    /\ At(p, "step")
    /\ To(p, "next") \/ To(p, "end")
    /\ UNCHANGED <<cvVars, scanVars>>

-----------------------------------------------------------------------------
(* The specification *)

Step(p) ==
    \/ Seize(p) \/ SeizeWaits(p) \/ SeizeSleeps(p) \/ SeizeFails(p)
    \/ StopWaiting(p)
    \/ FirstPage(p) \/ EndOfScan(p) \/ BroadcastDone(p) \/ Release(p)
    \/ SignalRelease(p) \/ ReadPage(p) \/ Continue(p)
    \/ CVStep(p) /\ UNCHANGED <<pc, scanVars>>

Interrupt(p) == LatchSetByOther(p) /\ UNCHANGED <<pc, scanVars>>

Next == \E p \in Procs : Step(p) \/ Interrupt(p)

Spec == Init /\ [][Next]_vars

\* Every process that can run does run.
FairSpec == Spec /\ \A p \in Procs : WF_vars(Step(p))

-----------------------------------------------------------------------------
(* Properties *)

\* The types of the variables.
TypeOK ==
    /\ CVTypeOK
    /\ pageStatus \in {"not_initialized", "idle", "advancing", "done"}
    /\ scanPage \in Pages \cup {P_NONE, InvalidBlockNumber}
    /\ pc \in [Procs -> {"first", "next", "wait_first", "wait",
                         "cancel_first", "cancel", "cancel_end",
                         "seized_first", "seized", "broadcast", "signal",
                         "read", "step", "end"}]
    /\ page \in [Procs -> Pages \cup {P_NONE, InvalidBlockNumber}]
    /\ moreRight \in [Procs -> BOOLEAN]
    /\ reads \in [Pages -> Nat]

\* The state is well typed, and a page is never read twice, by one process or
\* by two, so that no tuple is returned twice (_bt_parallel_seize).
PagesReadOnce == TypeOK /\ \A n \in Pages : reads[n] <= 1

\* When the scan is done and all the processes are at the end, every page that
\* can match has been read.
NothingMissed ==
    pageStatus = "done" /\ (\A p \in Procs : pc[p] = "end") =>
        \A n \in Pages \ Ignored : n <= LastMatch => reads[n] > 0

\* A process that has seized the scan and will release or end it.
HasScan(p) == pc[p] \in {"cancel_first", "cancel", "seized_first", "seized"}

\* A process that is in _bt_parallel_seize and will look at the scan again: it
\* is about to do so, or it is in the sleep or on its way there and was taken
\* off the list, which ends the sleep (SignalNotLost), or has no sleep prepared.
WillTest(p) ==
    \/ /\ pc[p] \in {"first", "next"}
       /\ \/ cvpc[p] = "ready" \/ ~OnList(p)
          \/ cvpc[p] = "interrupts" /\ done[p]
    \/ /\ pc[p] \in {"wait_first", "wait"}
       /\ ~cv_sleep_target[p] \/ ~OnList(p)

\* Whenever a process sleeps, somebody is responsible for it.  While the scan
\* advances a process has it.  When it is free a process has still to signal, or
\* will look at the scan and seize it: the one signal of a release never goes to
\* a process that turns away from the scan.  When it is done a process has still
\* to broadcast, or to take the sleeper off the list, or is about to set its
\* latch.
SleeperHasWaker ==
    \A p \in Procs : Asleep(p) =>
        \/ pageStatus = "advancing" /\ \E q \in Procs : HasScan(q)
        \/ pageStatus = "idle" /\ \E q \in Procs : pc[q] = "signal" \/ WillTest(q)
        \/ /\ pageStatus = "done"
           /\ \/ \E q \in Procs : pc[q] = "broadcast" \/ p \in due[q]
              \/ AboutToWake(p)

\* The scan ends for every process, since neither the signal of a release nor
\* the broadcast of the end is lost: "otherwise, they might wait forever for
\* the scan to advance to the next page" (_bt_parallel_done).
ScanEnds == <>(\A p \in Procs : At(p, "end"))
=============================================================================
