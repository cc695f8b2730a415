------------------------- MODULE ParallelScanProofs --------------------------
(***************************************************************************)
(* A parallel scan reads every page that can match exactly once, for any   *)
(* number of processes and pages, and whichever pages are deleted.         *)
(*                                                                         *)
(* The invariant: at most one process has seized the scan.  Pages from     *)
(* scanPage on have not been read; each page before it has been read, is   *)
(* ignored, or belongs to one process that is going to read it.            *)
(*                                                                         *)
(* Nor does a process sleep when nobody is going to wake it.  While the    *)
(* scan is free and a process sleeps on the list, or has looked at the     *)
(* scan in vain and is on its way to a sleep that it has prepared,         *)
(* somebody has still to signal or will look at the scan.  A signal may    *)
(* thus go to a process that has not fallen asleep: it seizes the scan and *)
(* signals in its turn.  A process whose sleep is not prepared joins the   *)
(* list and looks again.                                                   *)
(***************************************************************************)
EXTENDS ParallelScan, ConditionVariableProofs

\* Zenon proves the leaves that do not name a prover.
USE ZenonT(40)

Holding == {"cancel_first", "cancel", "seized_first", "seized"}
Reading == {"signal", "read"}

Types ==
    /\ pageStatus \in {"not_initialized", "idle", "advancing", "done"}
    /\ scanPage \in 0 .. NumPages + 1
    /\ pc \in [Procs -> {"first", "next", "wait_first", "wait", "cancel_first",
                         "cancel", "cancel_end", "seized_first", "seized",
                         "broadcast", "signal", "read", "step", "end"}]
    /\ page \in [Procs -> 0 .. NumPages + 1]
    /\ moreRight \in [Procs -> BOOLEAN]
    /\ reads \in [Pages -> Nat]

\* What a process has seized, or reads, or knows.
ProcInv(p) ==
    /\ pc[p] \in Holding => pageStatus = "advancing"
    /\ pc[p] \in {"cancel_first", "cancel", "seized_first"} => page[p] = scanPage
    /\ pc[p] = "seized" =>
         page[p] # 0 /\ (page[p] = scanPage \/ (scanPage = 0 /\ page[p] = 1))
    /\ pc[p] \in {"signal", "read", "step", "next", "wait", "cancel"} => scanPage # 0
    /\ pc[p] \in Reading => page[p] \in Pages /\ page[p] < scanPage /\ reads[page[p]] = 0
    /\ ~moreRight[p] => scanPage > LastMatch

PairInv(p, q) ==
    /\ pc[p] \in Holding /\ pc[q] \in Holding => p = q
    /\ pc[p] \in Reading /\ pc[q] \in Reading /\ page[p] = page[q] => p = q

BeingRead(n) == \E p \in Procs : pc[p] \in Reading /\ page[p] = n

PageInv(n) ==
    /\ reads[n] <= 1
    /\ n >= scanPage => reads[n] = 0
    /\ n < scanPage => n \in Ignored \/ reads[n] = 1 \/ BeingRead(n)

StatusInv ==
    /\ pageStatus = "not_initialized" => scanPage = 0
    /\ pageStatus = "done" =>
         scanPage = NumPages + 1 \/ scanPage > LastMatch \/ NumPages = 0

SInv ==
    /\ Types
    /\ \A p \in Procs : ProcInv(p)
    /\ \A p, q \in Procs : PairInv(p, q)
    /\ \A n \in Pages : PageInv(n)
    /\ StatusInv

\* The other processes are as they were.
Same(q) == pc'[q] = pc[q] /\ page'[q] = page[q] /\ moreRight'[q] = moreRight[q]
Others(p) == \A q \in Procs : q # p => Same(q)

-----------------------------------------------------------------------------
(* Steps *)

\* A process goes on; it neither seizes the scan nor starts or stops to read.
LEMMA MoveKeeps ==
    ASSUME SInv, NEW p \in Procs, Types', Others(p), ProcInv(p)',
           UNCHANGED <<pageStatus, scanPage, reads>>,
           pc'[p] \in Holding => pc[p] \in Holding,
           pc'[p] \in Reading <=> pc[p] \in Reading,
           pc[p] \in Reading => page'[p] = page[p]
    PROVE  SInv'
<1>1. ASSUME NEW q \in Procs, q # p PROVE ProcInv(q)'
  BY <1>1 DEF SInv, ProcInv, Others, Same, Pages
<1>2. \A q, r \in Procs : PairInv(q, r)'
  BY DEF SInv, PairInv, Others, Same
<1>3. \A n : BeingRead(n) => BeingRead(n)'
  BY DEF BeingRead, Others, Same
<1>4. \A n \in Pages : PageInv(n)'
  BY <1>3 DEF SInv, PageInv, Pages
<1>. QED
  BY <1>1, <1>2, <1>4 DEF SInv, StatusInv

\* The scan is seized by one process, when nobody has it.
LEMMA SeizeKeeps ==
    ASSUME SInv, NEW p \in Procs, Seize(p)
    PROVE  SInv'
<1>1. /\ pageStatus \in {"not_initialized", "idle"} /\ pageStatus' = "advancing"
      /\ page' = [page EXCEPT ![p] = scanPage]
      /\ \/ pc[p] = "first" /\ pc' = [pc EXCEPT ![p] = "cancel_first"]
         \/ pc[p] = "next" /\ pc' = [pc EXCEPT ![p] = "cancel"]
      /\ UNCHANGED <<scanPage, moreRight, reads>>
  BY DEF Seize, To
<1>2. Types'
  BY <1>1 DEF SInv, Types
<1>3. Others(p)
  BY <1>1 DEF SInv, Types, Others, Same
<1>4. /\ pc'[p] \in {"cancel_first", "cancel"} /\ page'[p] = scanPage
      /\ pc'[p] = "cancel" => pc[p] = "next"
      /\ moreRight'[p] = moreRight[p]
      /\ pc[p] \notin Holding \cup Reading /\ pc'[p] \notin Reading
  BY <1>1 DEF SInv, Types, Holding, Reading
<1>5. ASSUME NEW q \in Procs PROVE pc[q] \notin Holding
  BY <1>1 DEF SInv, ProcInv
<1>6. ProcInv(p)'
  BY <1>1, <1>4 DEF SInv, ProcInv
<1>7. ASSUME NEW q \in Procs, q # p PROVE ProcInv(q)'
  BY <1>1, <1>3, <1>5, <1>7 DEF SInv, ProcInv, Others, Same, Pages
<1>8. \A q, r \in Procs : PairInv(q, r)'
  BY <1>3, <1>4, <1>5 DEF SInv, PairInv, Others, Same
<1>9. \A n : BeingRead(n) => BeingRead(n)'
  BY <1>3, <1>4 DEF BeingRead, Others, Same
<1>10. \A n \in Pages : PageInv(n)'
  BY <1>1, <1>9 DEF SInv, PageInv, Pages
<1>. QED
  BY <1>1, <1>2, <1>6, <1>7, <1>8, <1>10 DEF SInv, StatusInv

\* The process that has the scan ends it, since nothing is left that matches.
LEMMA EndKeeps ==
    ASSUME SInv, NEW p \in Procs, EndOfScan(p)
    PROVE  SInv'
<1>1. /\ pc[p] = "seized" /\ (page[p] = NumPages + 1 \/ ~moreRight[p])
      /\ pageStatus' = "done"
      /\ \E l \in {"end", "broadcast"} : pc' = [pc EXCEPT ![p] = l]
      /\ UNCHANGED <<scanPage, page, moreRight, reads>>
  BY DEF EndOfScan, At, To, P_NONE
<1>2. Types'
  BY <1>1 DEF SInv, Types
<1>3. /\ Others(p) /\ pc[p] \in Holding /\ pc[p] \notin Reading
      /\ pc'[p] \in {"end", "broadcast"}
  BY <1>1 DEF SInv, Types, Others, Same, Holding, Reading
<1>4. ASSUME NEW q \in Procs, q # p PROVE ProcInv(q)'
  BY <1>1, <1>3, <1>4 DEF SInv, ProcInv, PairInv, Others, Same, Pages
<1>5. ProcInv(p)'
  BY <1>1, <1>3 DEF SInv, ProcInv, Holding, Reading
<1>6. \A q, r \in Procs : PairInv(q, r)'
  BY <1>1, <1>3 DEF SInv, PairInv, Others, Same, Holding, Reading
<1>7. \A n : BeingRead(n) => BeingRead(n)'
  BY <1>3 DEF BeingRead, Others, Same
<1>8. \A n \in Pages : PageInv(n)'
  BY <1>1, <1>7 DEF SInv, PageInv, Pages
<1>9. StatusInv'
  BY SMTT(40), <1>1, PagesAssumption DEF SInv, Types, ProcInv, StatusInv
<1>. QED
  BY <1>2, <1>4, <1>5, <1>6, <1>8, <1>9 DEF SInv

\* The next page is free again, and this one is the process's to read.
LEMMA ReleaseKeeps ==
    ASSUME SInv, NEW p \in Procs, Release(p)
    PROVE  SInv'
<1>1. /\ pc[p] = "seized" /\ page[p] # NumPages + 1 /\ moreRight[p]
      /\ scanPage' = page[p] + 1 /\ pageStatus' = "idle"
      /\ pc' = [pc EXCEPT ![p] = "signal"]
      /\ UNCHANGED <<page, moreRight, reads>>
  BY DEF Release, At, To, P_NONE
<1>2. /\ page[p] \in Nat /\ page[p] \in Pages /\ scanPage <= page[p]
      /\ scanPage \in Nat /\ scanPage' \in Nat /\ page[p] < scanPage'
      /\ scanPage < scanPage' /\ scanPage' \in 0 .. NumPages + 1 /\ scanPage' # 0
      /\ \A n \in Pages : n < scanPage' => n < scanPage \/ n = page[p]
  BY SMTT(40), <1>1, PagesAssumption DEF SInv, Types, ProcInv, Pages
<1>3. Types'
  BY <1>1, <1>2 DEF SInv, Types, Pages
<1>4. /\ Others(p) /\ pc[p] \in Holding /\ pc[p] \notin Reading
      /\ pc'[p] = "signal" /\ pc'[p] \in Reading /\ pc'[p] \notin Holding
      /\ page'[p] = page[p] /\ moreRight'[p] = moreRight[p]
  BY <1>1 DEF SInv, Types, Others, Same, Holding, Reading
<1>5. reads[page[p]] = 0
  BY SMTT(40), <1>2 DEF SInv, PageInv, Pages
<1>6. ProcInv(p)'
  BY <1>1, <1>2, <1>4, <1>5 DEF ProcInv, Pages
<1>7. ASSUME NEW q \in Procs, q # p
      PROVE  ProcInv(q)' /\ (pc[q] \in Reading => page[q] # page[p])
  <2>1. pc[q] \notin Holding /\ pc'[q] = pc[q]
    BY <1>4, <1>7 DEF SInv, PairInv, Others, Same
  <2>2. page'[q] = page[q] /\ moreRight'[q] = moreRight[q] /\ page[q] \in Nat
    BY SMTT(40), <1>4, <1>7, PagesAssumption DEF Others, Same, SInv, Types
  <2>3. pc[q] \in Reading => page[q] # page[p] /\ page[q] < scanPage'
    BY SMTT(40), <1>2, <2>2 DEF SInv, ProcInv
  <2>4. ~moreRight[q] => scanPage' > LastMatch
    BY SMTT(40), <1>2, PagesAssumption DEF SInv, ProcInv
  <2>5. pc[q] \notin {"cancel_first", "cancel", "seized_first", "seized"}
    BY <2>1 DEF Holding
  <2>. QED
    BY <1>1, <1>2, <2>1, <2>2, <2>3, <2>4, <2>5 DEF SInv, ProcInv, Pages
<1>8. \A q, r \in Procs : PairInv(q, r)'
  BY <1>1, <1>4, <1>7 DEF SInv, PairInv, Others, Same
<1>9. /\ \A n : BeingRead(n) => BeingRead(n)'
      /\ \A n : n = page[p] => BeingRead(n)'
  BY <1>4 DEF BeingRead, Others, Same
<1>10. ASSUME NEW n \in Pages PROVE PageInv(n)'
  <2>1. PageInv(n) /\ n \in Nat
    BY SMTT(40) DEF SInv, Pages
  <2>2. n >= scanPage' => n >= scanPage
    BY SMTT(40), <1>2, <2>1
  <2>3. reads' = reads /\ (n < scanPage' => n < scanPage \/ n = page[p])
    BY <1>1, <1>2
  <2>. QED
    BY <1>9, <2>1, <2>2, <2>3 DEF PageInv
<1>11. StatusInv'
  BY <1>1 DEF StatusInv
<1>. QED
  BY <1>3, <1>6, <1>7, <1>8, <1>10, <1>11 DEF SInv

\* A process reads the page that is its own.
LEMMA ReadKeeps ==
    ASSUME SInv, NEW p \in Procs, ReadPage(p)
    PROVE  SInv'
<1>1. /\ pc[p] = "read" /\ pc' = [pc EXCEPT ![p] = "step"]
      /\ UNCHANGED <<pageStatus, scanPage, page>>
      /\ \/ page[p] \in Ignored /\ UNCHANGED <<moreRight, reads>>
         \/ /\ reads' = [reads EXCEPT ![page[p]] = @ + 1]
            /\ moreRight' = [moreRight EXCEPT ![p] = page[p] < LastMatch]
  BY DEF ReadPage, At, To
<1>2. /\ page[p] \in Pages /\ page[p] < scanPage /\ reads[page[p]] = 0
      /\ scanPage # 0 /\ page[p] \in Nat /\ scanPage \in Nat
      /\ pc[p] \in Reading
  BY SMTT(40), <1>1, PagesAssumption DEF SInv, Types, ProcInv, Pages, Reading
<1>3. /\ reads' \in [Pages -> Nat]
      /\ \A n \in Pages : n # page[p] => reads'[n] = reads[n]
      /\ reads'[page[p]] \in {0, 1}
      /\ page[p] \in Ignored \/ reads'[page[p]] = 1
  BY SMTT(40), <1>1, <1>2 DEF SInv, Types
<1>4. Types'
  <2>1. moreRight' \in [Procs -> BOOLEAN]
    <3>1. \/ moreRight' = moreRight
          \/ moreRight' = [moreRight EXCEPT ![p] = page[p] < LastMatch]
      BY <1>1
    <3>2. PICK b : b = (page[p] < LastMatch)
      OBVIOUS
    <3>3. b \in BOOLEAN
      BY SMTT(40), <3>2
    <3>. QED
      BY <3>1, <3>2, <3>3 DEF SInv, Types
  <2>2. pc' \in [Procs -> {"first", "next", "wait_first", "wait", "cancel_first",
                          "cancel", "cancel_end", "seized_first", "seized",
                          "broadcast", "signal", "read", "step", "end"}]
    BY <1>1 DEF SInv, Types
  <2>. QED
    BY <1>1, <1>3, <2>1, <2>2 DEF SInv, Types
<1>5. /\ Others(p) /\ pc'[p] = "step" /\ page'[p] = page[p]
      /\ pc'[p] \notin Holding \cup Reading
  BY <1>1 DEF SInv, Types, Others, Same, Holding, Reading
<1>6. ProcInv(p)'
  <2>1. ~moreRight'[p] => scanPage > LastMatch \/ ~(page[p] < LastMatch)
    BY <1>1 DEF SInv, Types, ProcInv
  <2>2. ~moreRight'[p] => scanPage > LastMatch
    BY SMTT(40), <1>2, <2>1, PagesAssumption
  <2>. QED
    BY <1>1, <1>2, <1>5, <2>2 DEF ProcInv
<1>7. ASSUME NEW q \in Procs, q # p PROVE ProcInv(q)'
  <2>1. ProcInv(q) /\ pc'[q] = pc[q] /\ page'[q] = page[q] /\ moreRight'[q] = moreRight[q]
    BY <1>5, <1>7 DEF SInv, Others, Same
  <2>2. pc[q] \in Reading => reads'[page[q]] = reads[page[q]]
    BY <1>2, <1>3, <1>7, <2>1 DEF SInv, PairInv, ProcInv
  <2>. QED
    BY <1>1, <2>1, <2>2 DEF ProcInv, Pages
<1>8. \A q, r \in Procs : PairInv(q, r)'
  BY <1>5 DEF SInv, PairInv, Others, Same
<1>9. \A n : n # page[p] /\ BeingRead(n) => BeingRead(n)'
  BY <1>5 DEF BeingRead, Others, Same
<1>10. ASSUME NEW n \in Pages PROVE PageInv(n)'
  <2>1. CASE n = page[p]
    BY SMTT(40), <1>1, <1>2, <1>3, <2>1 DEF PageInv
  <2>2. CASE n # page[p]
    BY <1>1, <1>3, <1>9, <2>2 DEF SInv, PageInv, Pages
  <2>. QED
    BY <2>1, <2>2
<1>. QED
  BY <1>1, <1>4, <1>6, <1>7, <1>8, <1>10 DEF SInv, StatusInv

\* The steps that neither seize, release nor end the scan, nor read a page.
LEMMA WalkKeeps ==
    ASSUME SInv, NEW p \in Procs,
           \/ SeizeWaits(p) \/ SeizeSleeps(p) \/ SeizeFails(p) \/ StopWaiting(p)
           \/ FirstPage(p) \/ BroadcastDone(p) \/ SignalRelease(p) \/ Continue(p)
    PROVE  SInv'
<1>1. CASE FirstPage(p)
  <2>1. /\ pc[p] = "seized_first" /\ pc' = [pc EXCEPT ![p] = "seized"]
        /\ moreRight' = [moreRight EXCEPT ![p] = TRUE]
        /\ page' = [page EXCEPT ![p] = IF page[p] = 0 THEN 1 ELSE page[p]]
        /\ UNCHANGED <<pageStatus, scanPage, reads>>
    BY <1>1 DEF FirstPage, At, To, InvalidBlockNumber
  <2>2. 1 \in 0 .. NumPages + 1 /\ 0 # 1
    BY SMTT(40), PagesAssumption
  <2>3. Types' /\ Others(p)
    BY <2>1, <2>2 DEF SInv, Types, Others, Same
  <2>4. /\ pc'[p] = "seized" /\ moreRight'[p] /\ page[p] = scanPage
        /\ page'[p] = IF page[p] = 0 THEN 1 ELSE page[p]
        /\ pc[p] \in Holding /\ pc[p] \notin Reading /\ pc'[p] \notin Reading
        /\ pageStatus = "advancing"
    BY <2>1 DEF SInv, Types, ProcInv, Holding, Reading
  <2>5. ProcInv(p)'
    BY <2>1, <2>2, <2>4 DEF ProcInv
  <2>. QED
    BY <2>1, <2>3, <2>4, <2>5, MoveKeeps
<1>2. CASE \/ SeizeWaits(p) \/ SeizeSleeps(p) \/ SeizeFails(p) \/ StopWaiting(p)
           \/ BroadcastDone(p) \/ SignalRelease(p) \/ Continue(p)
  <2>1. /\ UNCHANGED scanVars
        /\ \/ pc[p] \in {"first", "next"} /\ pc' = [pc EXCEPT ![p] = "cancel_end"]
           \/ pc[p] = "first" /\ pc' = [pc EXCEPT ![p] = "wait_first"]
           \/ pc[p] = "next" /\ pc' = [pc EXCEPT ![p] = "wait"]
           \/ pc[p] = "wait_first" /\ pc' = [pc EXCEPT ![p] = "first"]
           \/ pc[p] = "wait" /\ pc' = [pc EXCEPT ![p] = "next"]
           \/ pc[p] = "cancel_first" /\ pc' = [pc EXCEPT ![p] = "seized_first"]
           \/ pc[p] = "cancel" /\ pc' = [pc EXCEPT ![p] = "seized"]
           \/ pc[p] \in {"cancel_end", "broadcast"} /\ pc' = [pc EXCEPT ![p] = "end"]
           \/ pc[p] = "signal" /\ pc' = [pc EXCEPT ![p] = "read"]
           \/ pc[p] = "step" /\ \E l \in {"next", "end"} : pc' = [pc EXCEPT ![p] = l]
    BY <1>2 DEF SeizeWaits, SeizeSleeps, SeizeFails, StopWaiting, BroadcastDone,
                SignalRelease, Continue, At, To
  <2>2. UNCHANGED <<pageStatus, scanPage, page, moreRight, reads>>
    BY <2>1 DEF scanVars
  <2>3. Types' /\ Others(p)
    BY <2>1, <2>2 DEF SInv, Types, Others, Same
  <2>4. /\ pc'[p] \in Holding => pc[p] \in Holding
        /\ pc'[p] \in Reading <=> pc[p] \in Reading
    BY <2>1 DEF SInv, Types, Holding, Reading
  <2>5. ProcInv(p)'
    BY <2>1, <2>2, <2>4 DEF SInv, Types, ProcInv, Pages
  <2>. QED
    BY <2>2, <2>3, <2>4, <2>5, MoveKeeps
<1>. QED
  BY <1>1, <1>2

\* The processes start with nothing seized and nothing read.
LEMMA InitSInv == Init => SInv
<1>. SUFFICES ASSUME Init PROVE SInv
  OBVIOUS
<1>1. Types
  BY SMTT(40), PagesAssumption DEF Init, btinitparallelscan, InvalidBlockNumber, Types
<1>2. \A p \in Procs : ProcInv(p)
  BY DEF Init, ProcInv, Holding, Reading
<1>3. \A p, q \in Procs : PairInv(p, q)
  BY DEF Init, PairInv, Holding, Reading
<1>4. \A n \in Pages : PageInv(n)
  BY SMTT(40), PagesAssumption
  DEF Init, btinitparallelscan, InvalidBlockNumber, PageInv, Pages
<1>5. StatusInv
  BY DEF Init, btinitparallelscan, InvalidBlockNumber, StatusInv
<1>. QED
  BY <1>1, <1>2, <1>3, <1>4, <1>5 DEF SInv

\* Every step keeps the invariant.
LEMMA NextKeeps == SInv /\ [Next]_vars => SInv'
<1>. SUFFICES ASSUME SInv, [Next]_vars PROVE SInv'
  OBVIOUS
<1>1. CASE UNCHANGED <<pc, scanVars>>
  BY <1>1
  DEF scanVars, SInv, Types, ProcInv, PairInv, PageInv, BeingRead, StatusInv, Pages
<1>2. CASE UNCHANGED vars
  BY <1>1, <1>2 DEF vars
<1>. QED
  BY <1>1, <1>2, SeizeKeeps, EndKeeps, ReleaseKeeps, ReadKeeps, WalkKeeps
  DEF Next, Step, Interrupt

\* The scan uses the condition variable by its functions.
LEMMA ScanUsesCV == [Next]_vars => [CVNext]_cvVars
BY DEF Next, Step, Interrupt, Seize, SeizeWaits, SeizeSleeps, SeizeFails, StopWaiting,
       FirstPage, EndOfScan, BroadcastDone, Release, SignalRelease, ReadPage, Continue, vars,
       CVNext, CVOperation

-----------------------------------------------------------------------------
(* Sleepers *)

Seizing == {"first", "next"}
Turning == {"wait_first", "wait"}
Stopping == {"cancel_first", "cancel", "cancel_end"}

\* Where a process uses the condition variable.
PlaceInv(p) ==
    /\ cv_sleep_target[p] => pc[p] \in Seizing \cup Turning \cup Stopping
    /\ cv_sleep_target[p] \/ pc[p] \in Turning => pageStatus # "not_initialized"
    /\ cvpc[p] \in {"latch", "recheck", "interrupts"} => pc[p] \in Seizing
    /\ cvpc[p] \in {"set", "pop"} => pc[p] \in {"read", "end"}
    /\ have_sentinel[p] => pageStatus = "done"
    /\ pc[p] \in {"broadcast", "cancel_end"} => pageStatus = "done"

\* A process that sleeps on, or is on its way to a sleep that it has prepared,
\* unless somebody takes it off the list.
Bound(p) ==
    SleepsOn(p) \/ (pc[p] \in Turning /\ cv_sleep_target[p] /\ Listed(wakeup, p))

\* Whom the sleepers rely on, while the scan advances, is free and is done.
Owned == pageStatus = "advancing" => \E q \in Procs : HasScan(q)
Free(p) ==
    (pageStatus = "idle" /\ Bound(p)) =>
        \E q \in Procs : pc[q] = "signal" \/ WillTest(q)
Over(p) ==
    (pageStatus = "done" /\ Bound(p)) =>
        \E q \in Procs : pc[q] = "broadcast" \/ p \in due[q]

SleepInv ==
    /\ \A p \in Procs : PlaceInv(p)
    /\ Owned
    /\ \A p \in Procs : Free(p) /\ Over(p)

\* The steps that leave the condition variable alone.
Alone(r) ==
    \/ Seize(r) \/ SeizeWaits(r) \/ SeizeFails(r) \/ FirstPage(r) \/ EndOfScan(r)
    \/ Release(r) \/ ReadPage(r) \/ Continue(r)

\* What they do to the place of their process and to the scan.
LEMMA AloneMoves ==
    ASSUME SInv, NEW r \in Procs, Alone(r)
    PROVE  /\ UNCHANGED cvVars /\ cvpc[r] = "ready"
           /\ \A q \in Procs : q # r => pc'[q] = pc[q]
           /\ \/ /\ pc[r] \in Seizing /\ pc'[r] \in {"cancel_first", "cancel"}
                 /\ pageStatus \in {"not_initialized", "idle"}
                 /\ pageStatus' = "advancing"
              \/ /\ pc[r] \in Seizing /\ pc'[r] \in Turning
                 /\ pageStatus = "advancing" /\ UNCHANGED pageStatus
              \/ /\ pc[r] \in Seizing /\ pc'[r] = "cancel_end"
                 /\ pageStatus = "done" /\ pageStatus' = "done"
              \/ pc[r] = "seized_first" /\ pc'[r] = "seized" /\ UNCHANGED pageStatus
              \/ /\ pc[r] = "seized" /\ pageStatus = "advancing"
                 /\ pc'[r] = "broadcast" /\ pageStatus' = "done"
              \/ /\ pc[r] = "seized" /\ pageStatus = "advancing"
                 /\ pc'[r] = "signal" /\ pageStatus' = "idle"
              \/ /\ pc[r] \in {"read", "step"} /\ pc'[r] \in {"step", "next", "end"}
                 /\ UNCHANGED pageStatus
<1>1. UNCHANGED cvVars /\ cvpc[r] = "ready"
  BY DEF Alone, Seize, SeizeWaits, SeizeFails, FirstPage, EndOfScan, Release, ReadPage,
         Continue, At
<1>2. \E l : pc' = [pc EXCEPT ![r] = l]
  BY DEF Alone, Seize, SeizeWaits, SeizeFails, FirstPage, EndOfScan, Release, ReadPage,
         Continue, To
<1>3. \A q \in Procs : q # r => pc'[q] = pc[q]
  BY <1>2 DEF SInv, Types
<1>4. pc[r] = "seized" => pageStatus = "advancing"
  BY DEF SInv, ProcInv, Holding
<1>. QED
  BY <1>1, <1>3, <1>4
  DEF Alone, Seize, SeizeWaits, SeizeFails, FirstPage, EndOfScan, Release, ReadPage,
      Continue, At, To, scanVars, Seizing, Turning, SInv, Types

\* Whoever frees the scan is going to signal, and whoever ends it to broadcast.
LEMMA AloneKeeps ==
    ASSUME SInv, CVInv, SleepInv, NEW r \in Procs, Alone(r)
    PROVE  SleepInv'
<1>1. /\ UNCHANGED <<wakeup, cv_sleep_target, cvpc, done, have_sentinel, due>>
      /\ cvpc[r] = "ready"
      /\ \A q \in Procs : q # r => pc'[q] = pc[q]
  BY AloneMoves DEF cvVars
<1>2. ASSUME NEW p \in Procs PROVE PlaceInv(p)'
  <2>1. /\ pageStatus = "done" => pageStatus' = "done"
        /\ pageStatus' = "not_initialized" =>
             pageStatus = "not_initialized" /\ pc'[r] \notin Turning
    BY AloneMoves DEF Turning
  <2>2. CASE p # r
    BY <1>1, <2>1, <2>2 DEF SleepInv, PlaceInv
  <2>3. CASE p = r
    <3>1. cv_sleep_target[r] => pc'[r] \in Seizing \cup Turning \cup Stopping
      BY AloneMoves DEF SleepInv, PlaceInv, Seizing, Turning, Stopping
    <3>2. pc'[r] \in {"broadcast", "cancel_end"} => pageStatus' = "done"
      BY AloneMoves DEF Turning
    <3>. QED
      BY <1>1, <2>1, <2>3, <3>1, <3>2 DEF SleepInv, PlaceInv
  <2>. QED
    BY <2>2, <2>3
<1>3. Owned'
  <2>. SUFFICES ASSUME pageStatus' = "advancing" PROVE \E q \in Procs : HasScan(q)'
    BY DEF Owned
  <2>1. CASE pc'[r] \in {"cancel_first", "cancel", "seized"}
    BY <2>1 DEF HasScan
  <2>2. CASE pc'[r] \notin {"cancel_first", "cancel", "seized"}
    <3>1. pageStatus = "advancing" /\ ~HasScan(r)
      BY <2>2, AloneMoves DEF HasScan, Seizing
    <3>. QED
      BY <1>1, <3>1 DEF SleepInv, Owned, HasScan
  <2>. QED
    BY <2>1, <2>2
<1>4. ASSUME NEW p \in Procs, pageStatus' # "advancing", Bound(p)' PROVE Bound(p)
  <2>1. pc'[p] \in Turning => pc[p] \in Turning
    BY <1>4, <1>1, AloneMoves DEF Turning
  <2>. QED
    BY <1>4, <1>1, <2>1 DEF Bound, SleepsOn
<1>5. ASSUME NEW p \in Procs, pageStatus' = "idle", Bound(p)'
      PROVE  \E q \in Procs : pc'[q] = "signal" \/ WillTest(q)'
  <2>1. CASE pc'[r] = "signal"
    BY <2>1
  <2>2. CASE pc'[r] # "signal"
    <3>1. pageStatus = "idle" /\ pc[r] \notin Seizing \cup Turning \cup {"signal"}
      <4>1. pc[r] = "seized_first" => pageStatus # "idle"
        BY DEF SInv, ProcInv, Holding
      <4>. QED
        BY <1>5, <2>2, <4>1, AloneMoves DEF Seizing, Turning
    <3>2. Bound(p)
      BY <1>4, <1>5
    <3>3. PICK q \in Procs : pc[q] = "signal" \/ WillTest(q)
      BY <3>1, <3>2 DEF SleepInv, Free
    <3>4. q # r
      BY <3>1, <3>3 DEF WillTest, Seizing, Turning
    <3>5. pc'[q] = "signal" \/ WillTest(q)'
      BY <1>1, <3>3, <3>4 DEF WillTest, OnList
    <3>. QED
      BY <3>5
  <2>. QED
    BY <2>1, <2>2
<1>6. ASSUME NEW p \in Procs, pageStatus' = "done", Bound(p)'
      PROVE  \E q \in Procs : pc'[q] = "broadcast" \/ p \in due'[q]
  <2>1. CASE pc'[r] = "broadcast"
    BY <2>1
  <2>2. CASE pc'[r] # "broadcast"
    <3>1. pageStatus = "done" /\ pc[r] # "broadcast"
      BY <1>6, <2>2, AloneMoves DEF Seizing
    <3>2. Bound(p)
      BY <1>4, <1>6
    <3>3. PICK q \in Procs : pc[q] = "broadcast" \/ p \in due[q]
      BY <3>1, <3>2 DEF SleepInv, Over
    <3>. QED
      BY <1>1, <3>1, <3>3
  <2>. QED
    BY <2>1, <2>2
<1>. QED
  BY <1>2, <1>3, <1>5, <1>6 DEF SleepInv, Free, Over

\* The steps that use the condition variable leave the scan as it is.
Using(r) ==
    \/ SeizeSleeps(r) \/ StopWaiting(r) \/ BroadcastDone(r) \/ SignalRelease(r)
    \/ (CVStep(r) \/ LatchSetByOther(r)) /\ UNCHANGED <<pc, scanVars>>

\* What they do to the place of their process.
LEMMA UsingMoves ==
    ASSUME SInv, NEW r \in Procs, Using(r)
    PROVE  /\ CVOperation(r) /\ pageStatus' = pageStatus
           /\ \A q \in Procs : q # r => pc'[q] = pc[q]
           /\ pc'[r] # pc[r] =>
                \/ SeizeSleeps(r) /\ pc[r] \in Turning /\ pc'[r] \in Seizing
                \/ StopWaiting(r) /\ pc[r] = "cancel_first" /\ pc'[r] = "seized_first"
                \/ StopWaiting(r) /\ pc[r] = "cancel" /\ pc'[r] = "seized"
                \/ StopWaiting(r) /\ pc[r] = "cancel_end" /\ pc'[r] = "end"
                \/ BroadcastDone(r) /\ pc[r] = "broadcast" /\ pc'[r] = "end"
                \/ SignalRelease(r) /\ pc[r] = "signal" /\ pc'[r] = "read"
<1>1. CVOperation(r) /\ pageStatus' = pageStatus
  BY DEF Using, SeizeSleeps, StopWaiting, BroadcastDone, SignalRelease, CVOperation,
         scanVars
<1>2. pc' = pc \/ \E l : pc' = [pc EXCEPT ![r] = l]
  BY DEF Using, SeizeSleeps, StopWaiting, BroadcastDone, SignalRelease, To
<1>3. \A q \in Procs : q # r => pc'[q] = pc[q]
  BY <1>2 DEF SInv, Types
<1>. QED
  BY <1>1, <1>3
  DEF Using, SeizeSleeps, StopWaiting, BroadcastDone, SignalRelease, At, To, SInv, Types,
      Seizing, Turning

\* They use it in their places only.
LEMMA UsingKeepsPlaces ==
    ASSUME SInv, CVInv, SleepInv, NEW r \in Procs, Using(r), NEW p \in Procs
    PROVE  PlaceInv(p)'
<1>1. CASE p # r
  <2>0. CVOperation(r) /\ pc'[p] = pc[p] /\ pageStatus' = pageStatus
    BY <1>1, UsingMoves
  <2>1. cvpc'[p] = cvpc[p] /\ cv_sleep_target'[p] = cv_sleep_target[p]
    BY <1>1, <2>0, OthersStay
  <2>2. \/ have_sentinel' = have_sentinel
        \/ \E x : have_sentinel' = [have_sentinel EXCEPT ![r] = x]
    <3>2. CASE ConditionVariableBroadcast(r) \/ PopNext(r) \/ ConditionVariableSignal(r)
      BY <3>2 DEF ConditionVariableBroadcast, PopNext, ConditionVariableSignal, cvVars
    <3>. QED
      BY <2>0, <3>2
      DEF CVOperation, CVStep, ConditionVariableSleep, ConditionVariablePrepareToSleep,
          ConditionVariableCancelSleep, WaitLatch, Recheck, CheckForInterrupts, SetLatch,
          LatchSetByOther
  <2>3. have_sentinel'[p] = have_sentinel[p]
    BY <1>1, <2>2 DEF CVInv, CVTypeOK
  <2>. QED
    BY <2>0, <2>1, <2>3 DEF SleepInv, PlaceInv
<1>2. CASE p = r /\ SeizeSleeps(r)
  <2>1. /\ pc[r] \in Turning /\ pc'[r] \in Seizing /\ pageStatus' = pageStatus
        /\ cvpc'[r] \in {"ready", "latch"} /\ have_sentinel' = have_sentinel
    BY <1>2 DEF SeizeSleeps, ConditionVariableSleep, ConditionVariablePrepareToSleep, Goto,
                To, CVInv, CVTypeOK, SInv, Types, scanVars, Seizing, Turning
  <2>2. pageStatus # "not_initialized" /\ pc'[r] \notin {"broadcast", "cancel_end"}
    BY <2>1 DEF SleepInv, PlaceInv, Seizing
  <2>. QED
    BY <1>2, <2>1, <2>2 DEF SleepInv, PlaceInv
<1>3. CASE p = r /\ StopWaiting(r)
  <2>1. /\ cvpc'[r] = "ready" /\ ~cv_sleep_target'[r] /\ pageStatus' = pageStatus
        /\ have_sentinel' = have_sentinel
    BY <1>3 DEF StopWaiting, ConditionVariableCancelSleep, CVInv, CVTypeOK, scanVars
  <2>2. pc'[r] \notin {"broadcast", "cancel_end"} \cup Turning
    BY <1>3 DEF StopWaiting, To, SInv, Types, Turning
  <2>. QED
    BY <1>3, <2>1, <2>2 DEF SleepInv, PlaceInv
<1>4. CASE p = r /\ (BroadcastDone(r) \/ SignalRelease(r))
  <2>1. /\ cvpc'[r] \in {"ready", "set"} /\ cv_sleep_target' = cv_sleep_target
        /\ pageStatus' = pageStatus /\ pc[r] \in {"broadcast", "signal"}
        /\ pc'[r] \in {"end", "read"}
    BY <1>4
    DEF BroadcastDone, SignalRelease, ConditionVariableBroadcast, ConditionVariableSignal,
        At, To, Goto, CVInv, CVTypeOK, SInv, Types, cvVars, scanVars
  <2>2. ~cv_sleep_target[r]
    BY <2>1 DEF SleepInv, PlaceInv, Seizing, Turning, Stopping
  <2>3. have_sentinel'[r] => pageStatus = "done"
    BY <1>4 DEF BroadcastDone, SignalRelease, ConditionVariableSignal, At, cvVars,
                SleepInv, PlaceInv
  <2>. QED
    BY <1>4, <2>1, <2>2, <2>3 DEF PlaceInv, Turning
<1>5. CASE p = r /\ (CVStep(r) \/ LatchSetByOther(r)) /\ UNCHANGED <<pc, scanVars>>
  <2>1. /\ pc' = pc /\ pageStatus' = pageStatus
        /\ cv_sleep_target'[r] => cv_sleep_target[r]
    BY <1>5 DEF CVStep, WaitLatch, Recheck, CheckForInterrupts, PopNext, SetLatch,
                LatchSetByOther, CVInv, CVTypeOK, scanVars
  <2>2. have_sentinel'[r] => have_sentinel[r]
    BY <1>5 DEF CVStep, WaitLatch, Recheck, CheckForInterrupts, PopNext, SetLatch,
                LatchSetByOther, CVInv, CVProc
  <2>3. /\ cvpc'[r] \in {"latch", "recheck", "interrupts"} =>
             cvpc[r] \in {"latch", "recheck", "interrupts"}
        /\ cvpc'[r] \in {"set", "pop"} => cvpc[r] \in {"set", "pop"}
    BY <1>5 DEF CVStep, WaitLatch, Recheck, CheckForInterrupts, PopNext, SetLatch,
                LatchSetByOther, Goto, CVInv, CVTypeOK
  <2>. QED
    BY <1>5, <2>1, <2>2, <2>3 DEF SleepInv, PlaceInv
<1>. QED
  BY <1>1, <1>2, <1>3, <1>4, <1>5 DEF Using

\* Nobody who has looked at the scan in vain falls asleep unless it was bound to.
LEMMA BoundBefore ==
    ASSUME SInv, CVInv, SleepInv, NEW r \in Procs, Using(r), NEW p \in Procs, Bound(p)'
    PROVE  Bound(p) /\ cv_sleep_target[p] /\ Listed(wakeup', p)
<1>1. Listed(wakeup', p)
  BY DEF Bound, SleepsOn
<1>2. Bound(p)
  <2>1. CASE p # r
    <3>1. pc'[p] = pc[p]
      BY <2>1, UsingMoves
    <3>2. SleepsOn(p)' => SleepsOn(p)
      BY <2>1, UsingMoves, SleepBegins
    <3>3. cv_sleep_target'[p] = cv_sleep_target[p] /\ Listed(wakeup, p)
      BY <1>1, <2>1, UsingMoves, OthersStay
    <3>. QED
      BY <3>1, <3>2, <3>3 DEF Bound
  <2>2. CASE p = r /\ SeizeSleeps(r)
    <3>1. pc[r] \in Turning /\ pc'[r] \notin Turning
      BY <2>2 DEF SeizeSleeps, To, SInv, Types, Turning
    <3>2. cvpc'[r] # "ready"
      BY <2>2, <3>1 DEF Bound, SleepsOn
    <3>3. cv_sleep_target[r] /\ wakeup' = wakeup
      BY <2>2, <3>2
      DEF SeizeSleeps, ConditionVariableSleep, ConditionVariablePrepareToSleep
    <3>. QED
      BY <1>1, <2>2, <3>1, <3>3 DEF Bound
  <2>3. CASE p = r /\ StopWaiting(r)
    <3>1. cvpc'[r] = "ready" /\ ~cv_sleep_target'[r]
      BY <2>3 DEF StopWaiting, ConditionVariableCancelSleep, CVInv, CVTypeOK
    <3>. QED
      BY <2>3, <3>1 DEF Bound, SleepsOn
  <2>4. CASE p = r /\ (BroadcastDone(r) \/ SignalRelease(r))
    <3>1. cvpc'[r] \in {"ready", "set"} /\ pc'[r] \in {"end", "read"}
      BY <2>4 DEF BroadcastDone, SignalRelease, ConditionVariableBroadcast,
                  ConditionVariableSignal, Goto, To, cvVars, CVInv, CVTypeOK, SInv, Types
    <3>. QED
      BY <2>4, <3>1 DEF Bound, SleepsOn, Turning
  <2>5. CASE p = r /\ CVStep(r) /\ UNCHANGED pc
    <3>1. cvpc[r] # "ready"
      BY <2>5 DEF CVStep, WaitLatch, Recheck, CheckForInterrupts, PopNext, SetLatch
    <3>2. ~ConditionVariableSleep(r)
      BY <3>1 DEF ConditionVariableSleep, ConditionVariablePrepareToSleep
    <3>3. pc[r] \notin Turning
      BY <3>1 DEF SleepInv, PlaceInv, CVInv, CVTypeOK, Seizing, Turning
    <3>. QED
      BY <2>5, <3>2, <3>3, UsingMoves, SleepBegins DEF Bound
  <2>6. CASE p = r /\ LatchSetByOther(r) /\ UNCHANGED pc
    BY <2>6 DEF LatchSetByOther, Bound, SleepsOn
  <2>. QED
    BY <2>1, <2>2, <2>3, <2>4, <2>5, <2>6 DEF Using
<1>3. cv_sleep_target[p]
  BY <1>2 DEF Bound, SleepsOn, CVInv, CVProc
<1>. QED
  BY <1>1, <1>2, <1>3

\* A process that will look at the scan still will, while the scan is free.
LEMMA WillStillTest ==
    ASSUME SInv, CVInv, SleepInv, NEW r \in Procs, Using(r), pageStatus = "idle",
           NEW q \in Procs, WillTest(q)
    PROVE  WillTest(q)'
<1>1. CASE q # r
  <2>1. CVOperation(r) /\ pc'[q] = pc[q]
    BY <1>1, UsingMoves
  <2>2. /\ cvpc'[q] = cvpc[q] /\ done'[q] = done[q]
        /\ cv_sleep_target'[q] = cv_sleep_target[q]
        /\ Listed(wakeup', q) => Listed(wakeup, q)
    BY <1>1, <2>1, OthersStay
  <2>. QED
    BY <2>1, <2>2 DEF WillTest, OnList, Listed
<1>2. CASE q = r /\ pc[r] \in Turning
  <2>1. SeizeSleeps(r) \/ ((CVStep(r) \/ LatchSetByOther(r)) /\ pc' = pc)
    BY <1>2 DEF Using, StopWaiting, BroadcastDone, SignalRelease, At, Turning
  <2>2. cvpc[r] = "ready"
    BY <1>2 DEF SleepInv, PlaceInv, CVInv, CVTypeOK, Seizing, Turning
  <2>3. CASE SeizeSleeps(r)
    <3>1. pc'[r] \in Seizing
      BY <2>3 DEF SeizeSleeps, To, SInv, Types, Seizing
    <3>2. CASE ~cv_sleep_target[r]
      <4>1. cvpc'[r] = "ready"
        BY <2>2, <2>3, <3>2
        DEF SeizeSleeps, ConditionVariableSleep, ConditionVariablePrepareToSleep
      <4>. QED
        BY <1>2, <3>1, <4>1 DEF WillTest, Seizing
    <3>3. CASE cv_sleep_target[r]
      <4>1. wakeup' = wakeup /\ ~OnList(r)
        BY <1>2, <2>3, <3>3
        DEF WillTest, Turning, SeizeSleeps, ConditionVariableSleep,
            ConditionVariablePrepareToSleep
      <4>. QED
        BY <1>2, <3>1, <4>1 DEF WillTest, OnList, Seizing
    <3>. QED
      BY <3>2, <3>3
  <2>4. CASE LatchSetByOther(r) /\ pc' = pc
    BY <1>2, <2>4 DEF LatchSetByOther, WillTest, OnList
  <2>. QED
    BY <2>1, <2>2, <2>3, <2>4
    DEF CVStep, WaitLatch, Recheck, CheckForInterrupts, PopNext, SetLatch
<1>3. CASE q = r /\ pc[r] \in Seizing
  <2>1. pc' = pc /\ (CVStep(r) \/ LatchSetByOther(r))
    BY <1>3 DEF Using, SeizeSleeps, StopWaiting, BroadcastDone, SignalRelease, At, Seizing
  <2>2. cvpc[r] \notin {"set", "pop"}
    BY <1>3 DEF SleepInv, PlaceInv, Seizing
  <2>3. CASE WaitLatch(r) \/ LatchSetByOther(r)
    <3>1. cvpc' = cvpc \/ (cvpc[r] = "latch" /\ cvpc'[r] = "recheck")
      BY <2>3 DEF WaitLatch, LatchSetByOther, Goto, CVInv, CVTypeOK
    <3>2. UNCHANGED <<wakeup, done>>
      BY <2>3 DEF WaitLatch, LatchSetByOther
    <3>. QED
      BY <1>3, <2>1, <3>1, <3>2 DEF WillTest, OnList, Seizing
  <2>4. CASE Recheck(r)
    <3>1. cvpc[r] = "recheck" /\ cvpc'[r] = "interrupts" /\ done'[r] = ~OnList(r)
      BY <2>4 DEF Recheck, Goto, CVInv, CVTypeOK
    <3>2. ~OnList(r)
      BY <1>3, <3>1 DEF WillTest, Seizing
    <3>. QED
      BY <1>3, <2>1, <3>1, <3>2 DEF WillTest, Seizing
  <2>5. CASE CheckForInterrupts(r)
    <3>1. CASE cvpc'[r] = "ready"
      BY <1>3, <2>1, <3>1 DEF WillTest, Seizing
    <3>2. CASE cvpc'[r] # "ready"
      <4>1. wakeup' = wakeup /\ ~done[r] /\ cvpc[r] = "interrupts"
        BY <2>5, <3>2 DEF CheckForInterrupts, Goto, CVInv, CVTypeOK
      <4>2. ~OnList(r)
        BY <1>3, <4>1 DEF WillTest, Seizing
      <4>. QED
        BY <1>3, <2>1, <4>1, <4>2 DEF WillTest, OnList, Seizing
    <3>. QED
      BY <3>1, <3>2
  <2>. QED
    BY <2>1, <2>2, <2>3, <2>4, <2>5 DEF CVStep, SetLatch, PopNext
<1>. QED
  BY <1>1, <1>2, <1>3 DEF WillTest, Seizing, Turning

\* A signal goes to a process that will look at the scan, or nobody sleeps.
LEMMA SignalPassesOn ==
    ASSUME SInv, CVInv, SleepInv, NEW r \in Procs, SignalRelease(r), pageStatus = "idle",
           NEW p \in Procs, Bound(p)
    PROVE  \E q \in Procs : WillTest(q)'
<1>1. wakeup # <<>>
  BY SMTT(40) DEF Bound, SleepsOn, Listed
<1>2. PICK h : h = Head(wakeup)
  OBVIOUS
<1>3. /\ wakeup' = Tail(wakeup) /\ pc[r] = "signal" /\ pc' = [pc EXCEPT ![r] = "read"]
  BY <1>1 DEF SignalRelease, ConditionVariableSignal, At, To
<1>4. h \in Procs /\ Listed(wakeup, h) /\ ~Listed(wakeup', h)
  BY <1>1, <1>2, <1>3, TailFacts DEF CVInv, CVTypeOK
<1>5. cv_sleep_target[h]
  BY <1>4 DEF CVInv, CVProc, SleepInv, PlaceInv
<1>6. pc[h] \in Seizing \cup Turning
  <2>1. pc[h] \in Seizing \cup Turning \cup Stopping /\ pc[h] # "cancel_end"
    BY <1>4, <1>5 DEF SleepInv, PlaceInv
  <2>2. pc[h] \notin Holding
    BY <1>4 DEF SInv, ProcInv
  <2>. QED
    BY <2>1, <2>2 DEF Stopping, Holding
<1>7. pc'[h] = pc[h]
  BY <1>3, <1>4, <1>6 DEF SInv, Types, Seizing, Turning
<1>8. WillTest(h)'
  BY <1>4, <1>6, <1>7 DEF WillTest, OnList, Listed, Seizing, Turning
<1>. QED
  BY <1>4, <1>8

\* A signal that takes a process off the list leaves one that will look at the
\* scan, and a broadcast is to wake everybody who sleeps on.
LEMMA UsingKeeps ==
    ASSUME SInv, CVInv, SleepInv, NEW r \in Procs, Using(r)
    PROVE  SleepInv'
<1>1. \A p \in Procs : PlaceInv(p)'
  BY UsingKeepsPlaces
<1>2. pageStatus' = pageStatus /\ \A q \in Procs : q # r => pc'[q] = pc[q]
  BY UsingMoves
<1>3. Owned'
  <2>1. HasScan(r) => HasScan(r)'
    BY UsingMoves DEF HasScan, Turning
  <2>2. \A q \in Procs : HasScan(q) => HasScan(q)'
    BY <1>2, <2>1 DEF HasScan
  <2>. QED
    BY <1>2, <2>2 DEF SleepInv, Owned
<1>4. ASSUME NEW p \in Procs, pageStatus' = "idle", Bound(p)'
      PROVE  \E q \in Procs : pc'[q] = "signal" \/ WillTest(q)'
  <2>1. pageStatus = "idle" /\ Bound(p)
    BY <1>2, <1>4, BoundBefore
  <2>2. PICK q \in Procs : pc[q] = "signal" \/ WillTest(q)
    BY <2>1 DEF SleepInv, Free
  <2>3. CASE WillTest(q)
    BY <2>1, <2>3, WillStillTest
  <2>4. CASE pc[q] = "signal" /\ pc'[q] = pc[q]
    BY <2>4
  <2>5. CASE pc[q] = "signal" /\ pc'[q] # pc[q]
    <3>1. SignalRelease(r)
      BY <1>2, <2>5, UsingMoves DEF Turning
    <3>. QED
      BY <2>1, <3>1, SignalPassesOn
  <2>. QED
    BY <2>2, <2>3, <2>4, <2>5
<1>5. ASSUME NEW p \in Procs, pageStatus' = "done", Bound(p)'
      PROVE  \E q \in Procs : pc'[q] = "broadcast" \/ p \in due'[q]
  <2>1. pageStatus = "done" /\ Bound(p)
    BY <1>2, <1>5, BoundBefore
  <2>2. PICK q \in Procs : pc[q] = "broadcast" \/ p \in due[q]
    BY <2>1 DEF SleepInv, Over
  <2>3. CASE p \in due[q]
    <3>1. Listed(wakeup', p)
      BY <1>5, BoundBefore
    <3>2. p \in due'[q]
      BY <2>3, <3>1, UsingMoves, DueStays
    <3>. QED
      BY <3>2
  <2>4. CASE pc[q] = "broadcast" /\ pc'[q] = pc[q]
    BY <2>4
  <2>5. CASE pc[q] = "broadcast" /\ pc'[q] # pc[q]
    <3>1. BroadcastDone(r)
      BY <1>2, <2>5, UsingMoves DEF Turning
    <3>2. ConditionVariableBroadcast(r)
      BY <3>1 DEF BroadcastDone
    <3>3. p \in due'[r]
      BY <1>5, <3>2, BoundBefore, BroadcastTakesAll
    <3>. QED
      BY <3>3
  <2>. QED
    BY <2>2, <2>3, <2>4, <2>5
<1>. QED
  BY <1>1, <1>3, <1>4, <1>5 DEF SleepInv, Free, Over

\* Every step keeps the promise to the sleepers.
LEMMA NextKeepsSleepers == SInv /\ CVInv /\ SleepInv /\ [Next]_vars => SleepInv'
<1>. SUFFICES ASSUME SInv, CVInv, SleepInv, [Next]_vars PROVE SleepInv'
  OBVIOUS
<1>1. CASE UNCHANGED vars
  <2>1. /\ UNCHANGED <<wakeup, cv_sleep_target, cvpc, done, have_sentinel, due, pc,
                       pageStatus>>
    BY <1>1 DEF vars, cvVars, scanVars
  <2>2. \A p \in Procs : PlaceInv(p)' /\ (Bound(p)' <=> Bound(p))
    BY <2>1 DEF SleepInv, PlaceInv, Bound, SleepsOn
  <2>3. \A p \in Procs : (WillTest(p)' <=> WillTest(p)) /\ (HasScan(p)' <=> HasScan(p))
    BY <2>1 DEF WillTest, HasScan, OnList
  <2>. QED
    BY <2>1, <2>2, <2>3 DEF SleepInv, Owned, Free, Over
<1>2. CASE Next
  <2>1. PICK r \in Procs : Step(r) \/ Interrupt(r)
    BY <1>2 DEF Next
  <2>2. Alone(r) \/ Using(r)
    BY <2>1 DEF Step, Interrupt, Alone, Using
  <2>. QED
    BY <2>2, AloneKeeps, UsingKeeps
<1>. QED
  BY <1>1, <1>2

\* Nobody sleeps at first.
LEMMA InitSleepInv == Init => SleepInv
<1>. SUFFICES ASSUME Init PROVE SleepInv
  OBVIOUS
<1>1. /\ pageStatus = "not_initialized" /\ pc = [p \in Procs |-> "first"]
      /\ cv_sleep_target = [p \in Procs |-> FALSE]
      /\ cvpc = [p \in Procs |-> "ready"] /\ have_sentinel = [p \in Procs |-> FALSE]
  BY DEF Init, btinitparallelscan, ConditionVariableInit
<1>. QED
  BY <1>1 DEF SleepInv, PlaceInv, Owned, Free, Over, Turning

-----------------------------------------------------------------------------
(* What holds in every reachable state *)

\* The inductive invariant, of the scan and of the condition variable.
THEOREM ScanInvariant == Spec => [](SInv /\ CVInv /\ WakeInv /\ SleepInv)
<1>1. Init => CVInv /\ WakeInv
  BY CVInitInv, WakeInit DEF Init, btinitparallelscan
<1>2. CVInv /\ WakeInv /\ [Next]_vars => CVInv' /\ WakeInv'
  BY ScanUsesCV, CVNextKeeps, WakeKept
<1>. QED
  BY <1>1, <1>2, InitSInv, InitSleepInv, NextKeeps, NextKeepsSleepers, PTL DEF Spec

\* The state is well typed, and no page is read twice, whichever processes
\* seize the scan in turn: no tuple is returned twice.
THEOREM ScanReadsOnce == Spec => []PagesReadOnce
<1>1. SInv /\ CVInv => PagesReadOnce
  <2>. SUFFICES ASSUME SInv, CVInv PROVE PagesReadOnce
    OBVIOUS
  <2>1. 0 .. NumPages + 1 = Pages \cup {P_NONE, InvalidBlockNumber}
    BY SMTT(40), PagesAssumption DEF Pages, P_NONE, InvalidBlockNumber
  <2>2. TypeOK
    BY <2>1 DEF SInv, Types, CVInv, TypeOK
  <2>. QED
    BY <2>2 DEF SInv, PageInv, PagesReadOnce
<1>. QED
  BY <1>1, ScanInvariant, PTL

\* When the scan is done and all the processes are at the end, every page that
\* can match has been read: a page that was seized has been read too.
THEOREM ScanMissesNothing == Spec => []NothingMissed
<1>1. SInv => NothingMissed
  <2>. SUFFICES ASSUME SInv, pageStatus = "done", \A p \in Procs : pc[p] = "end",
                       NEW n \in Pages \ Ignored, n <= LastMatch
                PROVE  reads[n] > 0
    BY DEF NothingMissed
  <2>1. n < scanPage
    BY SMTT(40), PagesAssumption DEF SInv, StatusInv, Types, Pages
  <2>2. ~BeingRead(n)
    BY DEF BeingRead, Reading
  <2>3. reads[n] = 1
    BY <2>1, <2>2 DEF SInv, PageInv
  <2>. QED
    BY SMTT(40), <2>3
<1>. QED
  BY <1>1, ScanInvariant, PTL

\* The broadcast at the end of the scan wakes every process that waits for the
\* next page: "otherwise, they might wait forever" (_bt_parallel_done).
THEOREM ScanBroadcastWakesAll == Spec => []BroadcastWakesAll
BY ScanInvariant, CVPromises, PTL

\* A process that sleeps is on the list of the condition variable, or its latch is
\* about to be set: a signal that took it off the list is not lost.  And nobody is
\* on the list twice.
THEOREM ScanLosesNoSignal == Spec => []SignalNotLost
BY ScanInvariant, CVPromises, PTL

\* Whenever a process sleeps, somebody has the scan, or is going to signal or to
\* seize it, or is going to wake the sleeper since the scan is done.
THEOREM ScanWakesSleepers == Spec => []SleeperHasWaker
<1>1. SInv /\ CVInv /\ WakeInv /\ SleepInv => SleeperHasWaker
  <2>. SUFFICES ASSUME SInv, CVInv, WakeInv, SleepInv, NEW p \in Procs, Asleep(p)
                PROVE
        \/ pageStatus = "advancing" /\ \E q \in Procs : HasScan(q)
        \/ pageStatus = "idle" /\ \E q \in Procs : pc[q] = "signal" \/ WillTest(q)
        \/ /\ pageStatus = "done"
           /\ \/ \E q \in Procs : pc[q] = "broadcast" \/ p \in due[q]
              \/ AboutToWake(p)
    BY DEF SleeperHasWaker
  <2>1. cv_sleep_target[p] /\ pc[p] \in Seizing
    BY DEF Asleep, CVInv, CVProc, SleepInv, PlaceInv
  <2>2. pageStatus \in {"idle", "advancing", "done"}
    BY <2>1 DEF SleepInv, PlaceInv, SInv, Types
  <2>3. OnList(p) => Bound(p)
    BY DEF Bound, SleepsOn, OnList, Listed, Asleep
  <2>4. CASE pageStatus = "advancing"
    BY <2>4 DEF SleepInv, Owned
  <2>5. CASE pageStatus = "idle"
    BY <2>1, <2>3, <2>5 DEF SleepInv, Free, WillTest, Seizing
  <2>6. CASE pageStatus = "done"
    BY <2>3, <2>6, CVPromises DEF SleepInv, Over, SignalNotLost
  <2>. QED
    BY <2>2, <2>4, <2>5, <2>6
<1>. QED
  BY <1>1, ScanInvariant, PTL

=============================================================================
