------------------------- MODULE ConditionVariable ---------------------------
(***************************************************************************)
(* A condition variable of the server and the processes that use it        *)
(* (src/backend/storage/lmgr/condition_variable.c in the PostgreSQL tree). *)
(*                                                                         *)
(* The module has the functions and no callers: the modules that extend    *)
(* it start a function when its process is "ready" and conjoin what the    *)
(* caller does.  A step is one section under cv->mutex, or one operation   *)
(* on a latch.                                                             *)
(***************************************************************************)
EXTENDS Naturals, Sequences, FiniteSets

CONSTANTS
    Procs,      \* the processes
    Nobody,     \* no process
    Disturbed   \* the processes whose latch serves other purposes as well

ASSUME NobodyAssumption == Nobody \notin Procs
ASSUME DisturbedAssumption == Disturbed \subseteq Procs

VARIABLES
    wakeup,           \* cv->wakeup
    cv_sleep_target,  \* per process: is this variable its sleep target?
    latch,            \* per process: is its latch set?
    cvpc,             \* per process: its place in a function
    proc,             \* per process: the process whose latch it is to set
    done,             \* per process: "done" of one turn of the sleep
    have_sentinel,    \* per process: "have_sentinel" of the broadcast
    due               \* history: whom a running broadcast is to wake

cvVars == <<wakeup, cv_sleep_target, latch, cvpc, proc, done, have_sentinel,
            due>>

Goto(p, l) == cvpc' = [cvpc EXCEPT ![p] = l]

OnList(p) == \E i \in DOMAIN wakeup : wakeup[i] = p

\* p is taken off the list (proclist_delete, if it is on it), so no broadcast
\* has to wake it any more.
Without(p) ==
    IF OnList(p)
    THEN LET i == CHOOSE i \in DOMAIN wakeup : wakeup[i] = p
         IN  [k \in 1 .. Len(wakeup) - 1 |-> wakeup[IF k < i THEN k ELSE k + 1]]
    ELSE wakeup
Settle(p) == due' = [b \in Procs |-> due[b] \ {p}]

-----------------------------------------------------------------------------
(* Sleeping *)

ConditionVariableInit ==
    /\ wakeup = <<>>
    /\ cv_sleep_target = [p \in Procs |-> FALSE]
    /\ latch = [p \in Procs |-> FALSE]
    /\ cvpc = [p \in Procs |-> "ready"]
    /\ proc = [p \in Procs |-> Nobody]
    /\ done = [p \in Procs |-> FALSE]
    /\ have_sentinel = [p \in Procs |-> FALSE]
    /\ due = [p \in Procs |-> {}]

\* The process joins the tail of the list.  Callers have no other sleep
\* prepared.
ConditionVariablePrepareToSleep(p) ==
    /\ cvpc[p] = "ready" /\ ~cv_sleep_target[p]
    /\ cv_sleep_target' = [cv_sleep_target EXCEPT ![p] = TRUE]
    /\ wakeup' = Append(wakeup, p)
    /\ UNCHANGED <<latch, cvpc, proc, done, have_sentinel, due>>

\* Mutant: a sleep that was not prepared is prepared and begins at once.
SleepAtOnce(p) ==
    /\ cvpc[p] = "ready"
    /\ cv_sleep_target' = [cv_sleep_target EXCEPT ![p] = TRUE]
    /\ wakeup' = IF cv_sleep_target[p] THEN wakeup ELSE Append(wakeup, p)
    /\ Goto(p, "latch")
    /\ UNCHANGED <<latch, proc, done, have_sentinel, due>>

\* A sleep that was not prepared is prepared, and the caller tests again.
ConditionVariableSleep(p) ==
    \/ ConditionVariablePrepareToSleep(p)
    \/ /\ cvpc[p] = "ready" /\ cv_sleep_target[p]
       /\ Goto(p, "latch")
       /\ UNCHANGED <<wakeup, cv_sleep_target, latch, proc, done,
                      have_sentinel, due>>

\* WaitLatch returns when the latch is set; the latch is reset before the
\* list is looked at.
WaitLatch(p) ==
    /\ cvpc[p] = "latch"
    /\ latch[p]
    /\ latch' = [latch EXCEPT ![p] = FALSE]
    /\ Goto(p, "recheck")
    /\ UNCHANGED <<wakeup, cv_sleep_target, proc, done, have_sentinel, due>>

\* A process that was taken off the list was signaled.  It joins the list
\* again before its caller tests the condition.
Recheck(p) ==
    /\ cvpc[p] = "recheck"
    /\ done' = [done EXCEPT ![p] = ~OnList(p)]
    /\ wakeup' = IF OnList(p) THEN wakeup ELSE Append(wakeup, p)
    /\ Goto(p, "interrupts")
    /\ UNCHANGED <<cv_sleep_target, latch, proc, have_sentinel, due>>

\* Mutant: the latch is reset at the end of a turn.
InterruptsReset(p) ==
    /\ cvpc[p] = "interrupts"
    /\ Goto(p, IF done[p] THEN "ready" ELSE "latch")
    /\ latch' = [latch EXCEPT ![p] = FALSE]
    /\ done' = [done EXCEPT ![p] = FALSE]
    /\ UNCHANGED <<wakeup, cv_sleep_target, due, proc, have_sentinel>>

\* CHECK_FOR_INTERRUPTS.  A handler that waits for another condition variable
\* cancels this sleep.
CheckForInterrupts(p) ==
    /\ cvpc[p] = "interrupts"
    /\ \/ /\ Goto(p, IF done[p] THEN "ready" ELSE "latch")
          /\ UNCHANGED <<wakeup, cv_sleep_target, due>>
       \/ /\ p \in Disturbed
          /\ cv_sleep_target' = [cv_sleep_target EXCEPT ![p] = FALSE]
          /\ wakeup' = Without(p)
          /\ Settle(p)
          /\ Goto(p, "ready")
    /\ done' = [done EXCEPT ![p] = FALSE]
    /\ UNCHANGED <<latch, proc, have_sentinel>>

ConditionVariableCancelSleep(p) ==
    /\ cvpc[p] = "ready"
    /\ cv_sleep_target' = [cv_sleep_target EXCEPT ![p] = FALSE]
    /\ wakeup' = IF cv_sleep_target[p] THEN Without(p) ELSE wakeup
    /\ Settle(p)
    /\ UNCHANGED <<latch, cvpc, proc, done, have_sentinel>>

-----------------------------------------------------------------------------
(* Waking *)

\* Take the first entry off the list; its latch is set in the next step.
ConditionVariableSignal(p) ==
    /\ cvpc[p] = "ready"
    /\ IF wakeup = <<>>
       THEN UNCHANGED cvVars
       ELSE /\ proc' = [proc EXCEPT ![p] = Head(wakeup)]
            /\ wakeup' = Tail(wakeup)
            /\ Settle(Head(wakeup))
            /\ Goto(p, "set")
            /\ UNCHANGED <<cv_sleep_target, latch, done, have_sentinel>>

\* Mutant: a broadcast wakes the first entry and adds no sentinel.
BroadcastFirst(p) ==
    /\ cvpc[p] = "ready" /\ ~cv_sleep_target[p]
    /\ IF wakeup = <<>>
       THEN UNCHANGED cvVars
       ELSE LET first == Head(wakeup)
                sleepers == {q \in Procs : cv_sleep_target[q] /\ OnList(q)}
            IN  /\ proc' = [proc EXCEPT ![p] = first]
                /\ wakeup' = Tail(wakeup)
                /\ due' = [b \in Procs |->
                             (IF b = p THEN sleepers ELSE due[b]) \ {first}]
                /\ Goto(p, "set")
                /\ UNCHANGED <<cv_sleep_target, latch, done, have_sentinel>>

\* The first section of a broadcast, by a process that has no sleep prepared:
\* take the first entry off and, if others are left, add the own entry as a
\* sentinel.
ConditionVariableBroadcast(p) ==
    /\ cvpc[p] = "ready" /\ ~cv_sleep_target[p]
    /\ IF wakeup = <<>>
       THEN UNCHANGED cvVars
       ELSE LET first == Head(wakeup)
                others == Tail(wakeup)
                sleepers == {q \in Procs : cv_sleep_target[q] /\ OnList(q)}
            IN  /\ proc' = [proc EXCEPT ![p] = first]
                /\ wakeup' = IF others = <<>> THEN <<>> ELSE Append(others, p)
                /\ have_sentinel' =
                       [have_sentinel EXCEPT ![p] = others # <<>>]
                /\ due' = [b \in Procs |->
                             (IF b = p THEN sleepers ELSE due[b]) \ {first}]
                /\ Goto(p, "set")
                /\ UNCHANGED <<cv_sleep_target, latch, done>>

\* SetLatch, unless the list was empty or the broadcast met its own sentinel.
SetLatch(p) ==
    /\ cvpc[p] = "set"
    /\ latch' = IF proc[p] = Nobody \/ (proc[p] = p /\ ~cv_sleep_target[p])
                THEN latch ELSE [latch EXCEPT ![proc[p]] = TRUE]
    /\ proc' = [proc EXCEPT ![p] = Nobody]
    /\ Goto(p, IF have_sentinel[p] THEN "pop" ELSE "ready")
    /\ UNCHANGED <<wakeup, cv_sleep_target, done, have_sentinel, due>>

\* The loop of a broadcast, which goes on while the sentinel is on the list.
PopNext(p) ==
    /\ cvpc[p] = "pop"
    /\ proc' = [proc EXCEPT ![p] = IF wakeup = <<>> THEN Nobody
                                                    ELSE Head(wakeup)]
    /\ wakeup' = IF wakeup = <<>> THEN <<>> ELSE Tail(wakeup)
    /\ have_sentinel' =
           [have_sentinel EXCEPT ![p] = \E i \in DOMAIN wakeup' : wakeup'[i] = p]
    /\ Settle(proc'[p])
    /\ Goto(p, "set")
    /\ UNCHANGED <<cv_sleep_target, latch, done>>

-----------------------------------------------------------------------------
(* Steps inside the functions, and what the functions promise *)

CVStep(p) ==
    \/ WaitLatch(p) \/ Recheck(p) \/ CheckForInterrupts(p)
    \/ SetLatch(p) \/ PopNext(p)

\* The latch of a process is set for another purpose.
LatchSetByOther(p) ==
    /\ p \in Disturbed
    /\ ~latch[p]
    /\ latch' = [latch EXCEPT ![p] = TRUE]
    /\ UNCHANGED <<wakeup, cv_sleep_target, cvpc, proc, done, have_sentinel,
                   due>>

CVTypeOK ==
    /\ wakeup \in Seq(Procs)
    /\ cv_sleep_target \in [Procs -> BOOLEAN]
    /\ latch \in [Procs -> BOOLEAN]
    /\ cvpc \in [Procs -> {"ready", "latch", "recheck", "interrupts", "set",
                           "pop"}]
    /\ proc \in [Procs -> Procs \cup {Nobody}]
    /\ done \in [Procs -> BOOLEAN]
    /\ have_sentinel \in [Procs -> BOOLEAN]
    /\ due \in [Procs -> SUBSET Procs]

Asleep(p) == cvpc[p] = "latch" /\ ~latch[p]

\* A process is on the list at most once, as a waiter or as a sentinel: the
\* list is threaded through one link per process.
ListedOnce ==
    \A i, j \in DOMAIN wakeup : wakeup[i] = wakeup[j] => i = j

\* Somebody has taken p off the list and is about to set its latch.
AboutToWake(p) == \E b \in Procs : cvpc[b] = "set" /\ proc[b] = p

\* A process that sleeps is on the list, where the next signal finds it, or its
\* latch is about to be set: whoever is taken off the list learns of it, also
\* when it joins the list again or its latch is used for other purposes.  And
\* nobody is on the list twice, so that each signal takes one process off.
SignalNotLost ==
    /\ ListedOnce
    /\ \A p \in Procs : Asleep(p) => OnList(p) \/ AboutToWake(p)

\* A broadcast wakes all the processes that were on the list when it began,
\* whoever else signals, broadcasts, joins or leaves meanwhile.
BroadcastWakesAll ==
    \A p \in Procs : cvpc[p] = "ready" => due[p] = {}
=============================================================================
