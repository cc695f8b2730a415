------------------------------- MODULE LWLock --------------------------------
(***************************************************************************)
(* A lightweight lock of the server (src/backend/storage/lmgr/lwlock.c in  *)
(* the PostgreSQL tree), with any number of processes.                     *)
(*                                                                         *)
(* A step is one atomic operation on lock->state, one section under the    *)
(* wait list lock, one write of lwWaiting, or one operation on a process   *)
(* semaphore.  A compare-and-exchange loop is one step, since only its     *)
(* last iteration has an effect.                                           *)
(***************************************************************************)
EXTENDS Naturals, Sequences, FiniteSets

CONSTANTS
    Procs,       \* the processes
    Ops,         \* the functions that processes call
    Values,      \* the values of the variable that a lock may protect
    MaxForeign   \* bound: no more posts for other reasons once a semaphore has
                 \* had this many

ASSUME ProcsAssumption == IsFiniteSet(Procs)
ASSUME OpsAssumption ==
    /\ Ops \subseteq {"LWLockAcquire", "LWLockConditionalAcquire",
                     "LWLockAcquireOrWait", "LWLockWaitForVar", "LWLockUpdateVar"}
    /\ Ops \ {"LWLockUpdateVar"} # {}
ASSUME ValuesAssumption == Values # {} /\ MaxForeign \in Nat

VARIABLES
    state,       \* lock->state: holders and flags
    waiters,     \* lock->waiters
    lwWaiting,   \* per process: PGPROC.lwWaiting
    sem,         \* per process: the count of PGPROC.sem
    var,         \* the variable of LWLockUpdateVar and LWLockWaitForVar
    pc,          \* per process: its place in a function
    call,        \* per process: the arguments of the call
    extraWaits,  \* per process: extraWaits of the call
    wakeup,      \* per process: the local list "wakeup"
    owns,        \* history: the mode in which a process owns the lock
    foreign      \* history: posts for other reasons, per process

vars == <<state, waiters, lwWaiting, sem, var, pc, call,
          extraWaits, wakeup, owns, foreign>>

queueVars == <<waiters, lwWaiting>>
semVars == <<sem, extraWaits, foreign>>
rest == <<var, call, wakeup>>

-----------------------------------------------------------------------------
(* Modes, calls and the initial state *)

Modes == {"shared", "exclusive"}

\* A value that stands for an argument that a function does not have.
Unused == CHOOSE v \in Values : TRUE

\* The calls of a process that does not own the lock.
Calls ==
    [op : Ops \ {"LWLockUpdateVar", "LWLockWaitForVar"}, mode : Modes,
     oldval : {Unused}]
    \cup [op : Ops \cap {"LWLockWaitForVar"}, mode : {"shared"},
          oldval : Values]

\* The arguments are gone when a call returns.
NoCall == CHOOSE c \in Calls : TRUE

Labels ==
    {"idle", "attempt1", "check1", "value1", "queue", "queue_body", "set_ok",
     "attempt2", "check2", "value2", "sleep", "retry", "dequeue",
     "dequeue_body", "dequeue_flag", "dequeue_sleep", "got", "held",
     "release", "wake", "wake_body", "update", "update_body", "wake_clear",
     "wake_post"}

Goto(p, l) == pc' = [pc EXCEPT ![p] = l]

\* Where p is once LWLockWakeup or LWLockUpdateVar returns.
Back(p) == IF owns[p] = "none" THEN "idle" ELSE "held"

\* PGPROC.lwWaitMode, which is read only while q is queued: the mode of the
\* call, or LW_WAIT_UNTIL_FREE.
lwWaitMode(q) == IF call[q].op = "LWLockAcquire" THEN call[q].mode
                                                 ELSE "until_free"

UntilFree(q) == lwWaitMode(q) = "until_free"

\* The elements of list s that are in set S, in their order: what a loop over s
\* leaves on it, or moves to another list (proclist_delete,
\* proclist_push_tail).
Among(s, S) ==
    LET F[i \in 0 .. Len(s)] ==
            IF i = 0 THEN <<>>
            ELSE IF s[i] \in S THEN Append(F[i - 1], s[i]) ELSE F[i - 1]
    IN  F[Len(s)]

LWLockInitialize ==
    /\ state = [exclusive |-> 0, shared |-> 0, has_waiters |-> FALSE,
                release_ok |-> TRUE, locked |-> FALSE]
    /\ waiters = <<>>

Init ==
    /\ LWLockInitialize
    /\ var \in Values
    /\ lwWaiting = [p \in Procs |-> "not_waiting"]
    /\ sem = [p \in Procs |-> 0]
    /\ pc = [p \in Procs |-> "idle"]
    /\ call = [p \in Procs |-> NoCall]
    /\ extraWaits = [p \in Procs |-> 0]
    /\ wakeup = [p \in Procs |-> <<>>]
    /\ owns = [p \in Procs |-> "none"]
    /\ foreign = [p \in Procs |-> 0]

-----------------------------------------------------------------------------
(* Acquiring *)

\* LWLockAcquire, LWLockConditionalAcquire, LWLockAcquireOrWait or
\* LWLockWaitForVar is called.
Begin(p) ==
    /\ pc[p] = "idle"
    /\ \E c \in Calls :
           /\ call' = [call EXCEPT ![p] = c]
           /\ Goto(p, IF c.op = "LWLockWaitForVar" THEN "check1"
                                                   ELSE "attempt1")
    /\ UNCHANGED <<state, queueVars, semVars, var, wakeup, owns>>

\* Mutant: shared lockers do not look for an exclusive owner.
LockFreeShared(mode) == mode = "exclusive" => state.exclusive + state.shared = 0

\* May a process take the lock in this mode?
LockFree(mode) ==
    state.exclusive = 0 /\ (mode = "exclusive" => state.shared = 0)

LWLockAttemptLock(p) ==
    /\ LockFree(call[p].mode)
    /\ state' = [state EXCEPT ![call[p].mode] = @ + 1]
    /\ owns' = [owns EXCEPT ![p] = call[p].mode]

\* The first attempt; a conditional call returns when it fails.
FirstAttempt(p) ==
    /\ pc[p] = "attempt1"
    /\ \/ LWLockAttemptLock(p) /\ Goto(p, "got")
       \/ /\ ~LockFree(call[p].mode)
          /\ Goto(p, IF call[p].op = "LWLockConditionalAcquire"
                     THEN "got" ELSE "queue")
          /\ UNCHANGED <<state, owns>>
    /\ UNCHANGED <<queueVars, semVars, rest>>

\* Mutant: a queued process sleeps at once.
SleepAtOnce(p) ==
    /\ pc[p] = "attempt2"
    /\ Goto(p, "sleep")
    /\ UNCHANGED <<state, queueVars, semVars, rest, owns>>

\* The attempt after queueing, which decides whether to sleep.
SecondAttempt(p) ==
    /\ pc[p] = "attempt2"
    /\ \/ LWLockAttemptLock(p) /\ Goto(p, "dequeue")
       \/ /\ ~LockFree(call[p].mode)
          /\ Goto(p, "sleep")
          /\ UNCHANGED <<state, owns>>
    /\ UNCHANGED <<queueVars, semVars, rest>>

\* Any of the four callers waits for LW_FLAG_LOCKED to be clear and sets it.
LWLockWaitListLock(p) ==
    /\ pc[p] \in {"queue", "dequeue", "wake", "update"}
    /\ ~state.locked
    /\ state' = [state EXCEPT !.locked = TRUE]
    /\ Goto(p, CASE pc[p] = "queue" -> "queue_body"
                 [] pc[p] = "dequeue" -> "dequeue_body"
                 [] pc[p] = "wake" -> "wake_body"
                 [] pc[p] = "update" -> "update_body")
    /\ UNCHANGED <<queueVars, semVars, rest, owns>>

\* Queue at the tail, or at the head to wait until the lock is free.
LWLockQueueSelf(p) ==
    /\ pc[p] = "queue_body"
    /\ state' = [state EXCEPT !.has_waiters = TRUE, !.locked = FALSE]
    /\ lwWaiting' = [lwWaiting EXCEPT ![p] = "waiting"]
    /\ waiters' = IF UntilFree(p) THEN <<p>> \o waiters ELSE Append(waiters, p)
    /\ Goto(p, IF call[p].op = "LWLockWaitForVar" THEN "set_ok"
                                                  ELSE "attempt2")
    /\ UNCHANGED <<semVars, rest, owns>>

\* Where a function goes on once its process has slept and was woken.
Woken(op) == IF op = "LWLockAcquire" THEN "retry"
             ELSE IF op = "LWLockAcquireOrWait" THEN "got" ELSE "check1"

\* PGSemaphoreLock in a loop: a post that does not come with a wakeup is
\* counted in extraWaits and the process sleeps on.
Sleep(p) ==
    /\ pc[p] \in {"sleep", "dequeue_sleep"}
    /\ sem[p] > 0
    /\ sem' = [sem EXCEPT ![p] = @ - 1]
    /\ IF lwWaiting[p] = "not_waiting"
       THEN /\ Goto(p, IF pc[p] = "dequeue_sleep" THEN "got" ELSE Woken(call[p].op))
            /\ UNCHANGED extraWaits
       ELSE /\ extraWaits' = [extraWaits EXCEPT ![p] = @ + 1]
            /\ UNCHANGED pc
    /\ UNCHANGED <<state, queueVars, foreign, rest, owns>>

\* Mutant: a process that retries leaves LW_FLAG_RELEASE_OK alone.
RetryOnly(p) ==
    /\ pc[p] = "retry"
    /\ Goto(p, "attempt1")
    /\ UNCHANGED <<state, queueVars, semVars, rest, owns>>

\* Retrying: allow LWLockRelease to release waiters again.
Retry(p) ==
    /\ pc[p] = "retry"
    /\ state' = [state EXCEPT !.release_ok = TRUE]
    /\ Goto(p, "attempt1")
    /\ UNCHANGED <<queueVars, semVars, rest, owns>>

\* Mutant: a process does not ask whether it is still on the list.
DequeueBlindly(p) ==
    /\ pc[p] = "dequeue_body"
    /\ waiters' = Among(waiters, Procs \ {p})
    /\ lwWaiting' = [lwWaiting EXCEPT ![p] = "not_waiting"]
    /\ state' = [state EXCEPT !.has_waiters = @ /\ waiters' # <<>>,
                              !.locked = FALSE]
    /\ Goto(p, "got")
    /\ UNCHANGED <<semVars, rest, owns>>

\* Undo queueing: the process is still on the list, or somebody has taken it
\* off and will wake it up.
LWLockDequeueSelf(p) ==
    /\ pc[p] = "dequeue_body"
    /\ IF lwWaiting[p] = "waiting"
       THEN /\ waiters' = Among(waiters, Procs \ {p})
            /\ lwWaiting' = [lwWaiting EXCEPT ![p] = "not_waiting"]
            /\ Goto(p, "got")
       ELSE /\ Goto(p, "dequeue_flag")
            /\ UNCHANGED <<waiters, lwWaiting>>
    /\ state' = [state EXCEPT !.has_waiters = @ /\ waiters' # <<>>,
                              !.locked = FALSE]
    /\ UNCHANGED <<semVars, rest, owns>>

\* Set LW_FLAG_RELEASE_OK again and wait for the scheduled wakeup.
DequeuedByOther(p) ==
    /\ pc[p] = "dequeue_flag"
    /\ state' = [state EXCEPT !.release_ok = TRUE]
    /\ Goto(p, "dequeue_sleep")
    /\ UNCHANGED <<queueVars, semVars, rest, owns>>

\* Mutant: absorbed posts are not given back.
FixNothing(p) ==
    /\ pc[p] = "got"
    /\ extraWaits' = [extraWaits EXCEPT ![p] = 0]
    /\ call' = [call EXCEPT ![p] = NoCall]
    /\ Goto(p, Back(p))
    /\ UNCHANGED <<state, queueVars, sem, foreign, var, wakeup, owns>>

\* The end of a call: give back the posts that it absorbed.  Those of
\* LWLockDequeueSelf are given back here too, which is the next thing that
\* each of its callers does.
FixSemaphore(p) ==
    /\ pc[p] = "got"
    /\ sem' = [sem EXCEPT ![p] = @ + extraWaits[p]]
    /\ extraWaits' = [extraWaits EXCEPT ![p] = 0]
    /\ call' = [call EXCEPT ![p] = NoCall]
    /\ Goto(p, Back(p))
    /\ UNCHANGED <<state, queueVars, foreign, var, wakeup, owns>>

-----------------------------------------------------------------------------
(* Waiting for the variable *)

\* The first read of LWLockConflictsWithVar: is the lock held exclusively?
ConflictsWithVar(p) ==
    /\ pc[p] \in {"check1", "check2"}
    /\ Goto(p, CASE state.exclusive # 0 /\ pc[p] = "check1" -> "value1"
                 [] state.exclusive # 0 /\ pc[p] = "check2" -> "value2"
                 [] state.exclusive = 0 /\ pc[p] = "check1" -> "got"
                 [] state.exclusive = 0 /\ pc[p] = "check2" -> "dequeue")
    /\ UNCHANGED <<state, queueVars, semVars, rest, owns>>

\* The second read: does the variable still have the old value?
CompareVar(p) ==
    /\ pc[p] \in {"value1", "value2"}
    /\ Goto(p, CASE var = call[p].oldval /\ pc[p] = "value1" -> "queue"
                 [] var = call[p].oldval /\ pc[p] = "value2" -> "sleep"
                 [] var # call[p].oldval /\ pc[p] = "value1" -> "got"
                 [] var # call[p].oldval /\ pc[p] = "value2" -> "dequeue")
    /\ UNCHANGED <<state, queueVars, semVars, rest, owns>>

\* LWLockWaitForVar, once queued, makes sure that a release wakes it.
SetReleaseOk(p) ==
    /\ pc[p] = "set_ok"
    /\ state' = [state EXCEPT !.release_ok = TRUE]
    /\ Goto(p, "check2")
    /\ UNCHANGED <<queueVars, semVars, rest, owns>>

-----------------------------------------------------------------------------
(* Releasing and waking *)

\* LWLockUpdateVar: the variable first, then the waiters for it.
LWLockUpdateVar(p) ==
    /\ "LWLockUpdateVar" \in Ops
    /\ pc[p] = "held" /\ owns[p] = "exclusive"
    /\ \E v \in Values : var' = v
    /\ Goto(p, "update")
    /\ UNCHANGED <<state, queueVars, semVars, call, wakeup, owns>>

\* LWLockReleaseClearVar: the variable first, then LWLockRelease.
LWLockReleaseClearVar(p) ==
    /\ "LWLockUpdateVar" \in Ops
    /\ pc[p] = "held" /\ owns[p] = "exclusive"
    /\ \E v \in Values : var' = v
    /\ Goto(p, "release")
    /\ UNCHANGED <<state, queueVars, semVars, call, wakeup, owns>>

\* LWLockRelease, also by LWLockReleaseAll when an error is cleaned up.
LWLockRelease(p) ==
    /\ pc[p] \in {"held", "release"}
    /\ state' = [state EXCEPT ![owns[p]] = @ - 1]
    /\ owns' = [owns EXCEPT ![p] = "none"]
    /\ Goto(p, IF /\ state.has_waiters /\ state.release_ok
                  /\ state'.exclusive = 0 /\ state'.shared = 0
               THEN "wake" ELSE "idle")
    /\ UNCHANGED <<queueVars, semVars, rest>>

\* Take the waiters in set W off the list, in their order.
TakeOff(p, W) ==
    /\ waiters' = Among(waiters, Procs \ W)
    /\ wakeup' = [wakeup EXCEPT ![p] = Among(waiters, W)]
    /\ lwWaiting' = [q \in Procs |-> IF q \in W THEN "pending_wakeup"
                                                ELSE lwWaiting[q]]
    /\ Goto(p, IF W = {} THEN Back(p) ELSE "wake_clear")

\* Whom a release wakes: those that wait until the lock is free and either
\* the first exclusive locker or all the shared ones, whichever came first.
ToWake ==
    LET at(i) == lwWaitMode(waiters[i])
        Lockers == {i \in DOMAIN waiters : at(i) # "until_free"}
        First == {i \in Lockers : \A j \in Lockers : i <= j}
    IN  {waiters[i] : i \in
           {i \in DOMAIN waiters :
              IF \E f \in First : at(f) = "exclusive"
              THEN \A f \in First : i <= f
              ELSE at(i) # "exclusive"}}

LWLockWakeup(p) ==
    /\ pc[p] = "wake_body"
    /\ TakeOff(p, ToWake)
    /\ state' = [state EXCEPT
                   !.release_ok = \A q \in ToWake : UntilFree(q),
                   !.has_waiters = @ /\ ToWake # {},
                   !.locked = FALSE]
    /\ UNCHANGED <<semVars, var, call, owns>>

\* Mutant: nobody is woken for a new value.
WakeNobody(p) ==
    /\ pc[p] = "update_body"
    /\ TakeOff(p, {})
    /\ state' = [state EXCEPT !.locked = FALSE]
    /\ UNCHANGED <<semVars, var, call, owns>>

\* LWLockUpdateVar wakes the waiters in front that wait until the lock is
\* free.
WakeForVar(p) ==
    /\ pc[p] = "update_body"
    /\ TakeOff(p, {waiters[i] : i \in {i \in DOMAIN waiters :
                     \A j \in 1 .. i : UntilFree(waiters[j])}})
    /\ state' = [state EXCEPT !.locked = FALSE]
    /\ UNCHANGED <<semVars, var, call, owns>>

\* The loops over "wakeup": first lwWaiting is reset, ...
ClearWaiting(p) ==
    /\ pc[p] = "wake_clear"
    /\ lwWaiting' = [lwWaiting EXCEPT ![Head(wakeup[p])] = "not_waiting"]
    /\ Goto(p, "wake_post")
    /\ UNCHANGED <<state, waiters, semVars, rest, owns>>

\* ... then the semaphore is posted.
PostWaiter(p) ==
    /\ pc[p] = "wake_post"
    /\ sem' = [sem EXCEPT ![Head(wakeup[p])] = @ + 1]
    /\ wakeup' = [wakeup EXCEPT ![p] = Tail(@)]
    /\ Goto(p, IF Tail(wakeup[p]) = <<>> THEN Back(p) ELSE "wake_clear")
    /\ UNCHANGED <<state, queueVars, extraWaits, foreign, var, call, owns>>

\* Another user posts the semaphore.
ForeignPost(p) ==
    /\ \A q \in Procs : foreign[q] < MaxForeign
    /\ foreign' = [foreign EXCEPT ![p] = @ + 1]
    /\ sem' = [sem EXCEPT ![p] = @ + 1]
    /\ UNCHANGED <<state, queueVars, extraWaits, pc, rest, owns>>

-----------------------------------------------------------------------------
(* The specification *)

\* A step inside a call, which the process takes without being asked to.
Step(p) ==
    \/ FirstAttempt(p) \/ SecondAttempt(p) \/ LWLockWaitListLock(p)
    \/ LWLockQueueSelf(p) \/ Sleep(p) \/ Retry(p) \/ LWLockDequeueSelf(p)
    \/ DequeuedByOther(p) \/ FixSemaphore(p) \/ ConflictsWithVar(p)
    \/ CompareVar(p) \/ SetReleaseOk(p) \/ LWLockRelease(p)
    \/ LWLockWakeup(p) \/ WakeForVar(p) \/ ClearWaiting(p) \/ PostWaiter(p)

\* A new call.
NewCall(p) == Begin(p) \/ LWLockUpdateVar(p) \/ LWLockReleaseClearVar(p)

Next == \E p \in Procs : Step(p) \/ NewCall(p) \/ ForeignPost(p)

Spec == Init /\ [][Next]_vars

-----------------------------------------------------------------------------
(* Properties *)

\* The types of the variables.
TypeOK ==
    /\ state \in [exclusive : Nat, shared : Nat, has_waiters : BOOLEAN,
                  release_ok : BOOLEAN, locked : BOOLEAN]
    /\ var \in Values
    /\ waiters \in Seq(Procs)
    /\ lwWaiting \in [Procs -> {"not_waiting", "waiting", "pending_wakeup"}]
    /\ sem \in [Procs -> Nat] /\ extraWaits \in [Procs -> Nat]
    /\ foreign \in [Procs -> 0 .. MaxForeign]
    /\ pc \in [Procs -> Labels]
    /\ call \in [Procs -> Calls]
    /\ wakeup \in [Procs -> Seq(Procs)]
    /\ owns \in [Procs -> Modes \cup {"none"}]

Owners(mode) == {p \in Procs : owns[p] = mode}

\* A process that owns the lock exclusively is its only owner, however
\* attempts, releases and wakeups interleave (LWLockAttemptLock).
MutualExclusion ==
    \A p, q \in Procs :
        owns[p] = "exclusive" /\ owns[q] # "none" => p = q

Asleep(p) == pc[p] \in {"sleep", "dequeue_sleep"} /\ sem[p] = 0

\* A release has taken q off the list to let it try again, and q has not yet
\* done so.
Retrying(q) ==
    /\ lwWaiting[q] # "waiting" /\ ~UntilFree(q)
    /\ pc[q] \in {"attempt2", "dequeue", "dequeue_body", "dequeue_flag",
                  "sleep", "retry"}

\* No wakeup is lost.  Somebody is bound to wake a process that sleeps: one
\* that has it on its list; or, while it is on the wait list, an owner of the
\* lock, one that is on its way to LWLockWakeup, or one that will try for the
\* lock next.  This is what the second attempt and LW_FLAG_HAS_WAITERS are
\* for.
NoLostWakeup ==
    \A p \in Procs : Asleep(p) =>
        \E q \in Procs \ {p} :
            IF lwWaiting[p] = "waiting"
            THEN \/ owns[q] # "none" \/ Retrying(q)
                 \/ pc[q] \in {"wake", "wake_body", "attempt1"}
            ELSE \E i \in DOMAIN wakeup[q] : wakeup[q][i] = p

\* Releases wake nobody while LW_FLAG_RELEASE_OK is clear.  Then a process
\* that was woken is still to try again, and it sets the flag before.
ReleaseOkReturns == ~state.release_ok => \E q \in Procs : Retrying(q)

\* The process that p sleeps for has not forgotten it: p is on the wait list
\* or on the list of exactly one process that wakes it up, and not on both.
\* LWLockQueueSelf panics on a process that is still to be woken.  And a
\* release, which looks at the list only when LW_FLAG_HAS_WAITERS is set, sees
\* it whenever somebody is queued.
QueuedOnce ==
    /\ TypeOK
    /\ waiters # <<>> => state.has_waiters
    /\ \A p \in Procs :
        LET times(s) == Cardinality({i \in DOMAIN s : s[i] = p})
            Wakers == {q \in Procs : /\ times(wakeup[q]) # 0
                                     /\ ~(pc[q] = "wake_post"
                                            /\ Head(wakeup[q]) = p)}
        IN  /\ times(waiters) = (IF lwWaiting[p] = "waiting" THEN 1 ELSE 0)
            /\ Cardinality(Wakers)
                 = (IF lwWaiting[p] = "pending_wakeup" THEN 1 ELSE 0)
            /\ pc[p] = "queue" => lwWaiting[p] = "not_waiting"

\* Between calls a semaphore holds the posts of its other users and nothing
\* else, but for a wakeup whose process was faster than the post.
PostsBalance ==
    \A p \in Procs :
        pc[p] \in {"idle", "held"} =>
            sem[p] + Cardinality({q \in Procs : /\ pc[q] = "wake_post"
                                                /\ Head(wakeup[q]) = p})
              = foreign[p]

\* A process does not sleep for a value that LWLockUpdateVar has replaced,
\* unless somebody is still on the way to wake it.
VarChangeSeen ==
    \A p \in Procs :
        /\ Asleep(p) /\ pc[p] = "sleep"
        /\ call[p].op = "LWLockWaitForVar"
        /\ var # call[p].oldval
        => \E q \in Procs \ {p} :
               pc[q] \in {"update", "update_body", "wake_clear", "wake_post",
                          "release", "wake", "wake_body"}
=============================================================================
