---------------------------- MODULE LWLockProofs ----------------------------
(***************************************************************************)
(* A lightweight lock excludes, and nobody that waits for it is forgotten, *)
(* for every finite set of processes, every set of functions that they     *)
(* call and every number of foreign posts.                                 *)
(*                                                                         *)
(* Three invariants, each proved from those before it:                     *)
(*                                                                         *)
(*  - IInv: the counts in lock->state are the numbers of the owners.  They *)
(*    are only as long as a process that tries for the lock does not own   *)
(*    it and one that releases it does.  An exclusive owner is then alone. *)
(*  - Base: lwWaiting says on which list a process is, lists have no       *)
(*    repetitions, and a semaphore has the posts that its process is owed. *)
(*  - WInv: for whoever waits on the list there is a process that will     *)
(*    look at the list, and it finds LW_FLAG_RELEASE_OK set or a process   *)
(*    that will set it.                                                    *)
(***************************************************************************)
EXTENDS LWLock, FiniteSetTheorems, TLAPS

\* Zenon proves the leaves that do not name a prover.
USE ZenonT(60)

\* Places where a process does not own the lock, and where it does.
Outside == {"idle", "attempt1", "check1", "value1", "queue", "queue_body",
            "set_ok", "attempt2", "check2", "value2", "sleep", "retry"}
Inside == {"held", "release"}

\* Places of a call that has arguments.
InCall == (Outside \ {"idle"}) \cup
          {"dequeue", "dequeue_body", "dequeue_flag", "dequeue_sleep", "got"}

\* What the place of process p says of its ownership and its arguments.
PlaceInv(p) ==
    /\ pc[p] \in Outside => owns[p] = "none"
    /\ pc[p] \in Inside => owns[p] \in Modes
    /\ pc[p] \in InCall => call[p].mode \in Modes

Types ==
    /\ pc \in [Procs -> Labels]
    /\ owns \in [Procs -> Modes \cup {"none"}]
    /\ DOMAIN call = Procs
    /\ DOMAIN state = {"exclusive", "shared", "has_waiters", "release_ok", "locked"}

\* The counts are the numbers of the owners.
Counted == \A m \in Modes : state[m] = Cardinality(Owners(m))

\* One exclusive owner, or shared ones.
Compatible == state.exclusive <= 1 /\ (state.exclusive # 0 => state.shared = 0)

IInv ==
    /\ Types
    /\ \A p \in Procs : PlaceInv(p)
    /\ Counted
    /\ Compatible

\* The owners are finitely many, so that they can be counted.
LEMMA OwnersFinite ==
    ASSUME NEW m
    PROVE  IsFiniteSet(Owners(m)) /\ Cardinality(Owners(m)) \in Nat
<1>1. IsFiniteSet(Owners(m))
  BY ProcsAssumption, FS_Subset DEF Owners
<1>. QED
  BY <1>1, FS_CardinalityType

\* Nobody owns a new lock.
LEMMA InitIInv == Init => IInv
<1>. SUFFICES ASSUME Init PROVE IInv
  OBVIOUS
<1>1. Types
  BY DEF Init, LWLockInitialize, Types, Labels
<1>2. \A p \in Procs : PlaceInv(p)
  BY DEF Init, PlaceInv, Outside, Inside, InCall
<1>3. \A m \in Modes : Owners(m) = {}
  BY DEF Init, Owners, Modes
<1>4. Cardinality({}) = 0
  BY FS_EmptySet
<1>5. state["exclusive"] = 0 /\ state["shared"] = 0
  BY DEF Init, LWLockInitialize
<1>6. Counted
  BY <1>3, <1>4, <1>5 DEF Counted, Modes
<1>. QED
  BY SMTT(40), <1>1, <1>2, <1>5, <1>6 DEF IInv, Compatible

\* A step that only moves process p, or sets flags or arguments, keeps the
\* invariant when the ownership of p suits the place it goes to.
LEMMA MoveKeeps ==
    ASSUME IInv, NEW p \in Procs, NEW l \in Labels, Goto(p, l),
           owns' = owns, DOMAIN state' = DOMAIN state,
           \A m \in Modes : state'[m] = state[m],
           DOMAIN call' = Procs,
           \A q \in Procs : q # p => call'[q] = call[q],
           l \in Outside => owns[p] = "none",
           l \in Inside => owns[p] \in Modes,
           l \in InCall => call'[p].mode \in Modes
    PROVE  IInv'
<1>1. Types'
  BY DEF IInv, Types, Goto
<1>2. pc'[p] = l /\ \A q \in Procs : q # p => pc'[q] = pc[q]
  BY DEF IInv, Types, Goto
<1>3. \A q \in Procs : PlaceInv(q)'
  BY <1>2 DEF IInv, PlaceInv
<1>4. \A m \in Modes : Owners(m)' = Owners(m)
  BY DEF Owners
<1>5. Counted'
  BY <1>4 DEF IInv, Counted
<1>6. Compatible'
  BY DEF IInv, Compatible, Modes
<1>. QED
  BY <1>1, <1>3, <1>5, <1>6 DEF IInv

\* A process takes the lock.
LEMMA AttemptKeeps ==
    ASSUME IInv, NEW p \in Procs, pc[p] \in {"attempt1", "attempt2"},
           NEW l \in {"got", "dequeue"}, Goto(p, l), LWLockAttemptLock(p),
           call' = call
    PROVE  IInv'
<1>1. PICK mode \in Modes : mode = call[p].mode /\ owns[p] = "none"
  BY DEF IInv, PlaceInv, Outside, InCall
<1>2. /\ owns' = [owns EXCEPT ![p] = mode]
      /\ LockFree(mode)
      /\ state' = [state EXCEPT ![mode] = @ + 1]
  BY <1>1 DEF LWLockAttemptLock
<1>3. Types'
  BY <1>1, <1>2 DEF IInv, Types, Goto, Labels
<1>4. /\ pc'[p] = l /\ owns'[p] = mode
      /\ \A q \in Procs : q # p => pc'[q] = pc[q] /\ owns'[q] = owns[q]
  BY <1>2 DEF IInv, Types, Goto
<1>5. \A q \in Procs : PlaceInv(q)'
  BY SMTT(40), <1>1, <1>4 DEF IInv, PlaceInv, Outside, Inside, InCall
<1>6. /\ state'[mode] = state[mode] + 1
      /\ \A m \in Modes : m # mode => state'[m] = state[m]
  BY <1>1, <1>2 DEF IInv, Types, Modes
<1>7. Counted'
  <2>1. Owners(mode)' = Owners(mode) \cup {p} /\ p \notin Owners(mode)
    BY <1>1, <1>4 DEF Owners, Modes
  <2>2. Cardinality(Owners(mode) \cup {p}) = Cardinality(Owners(mode)) + 1
    BY <2>1, OwnersFinite, FS_AddElement
  <2>3. \A m \in Modes : m # mode => Owners(m)' = Owners(m)
    BY <1>1, <1>4 DEF Owners, Modes
  <2>. QED
    BY <1>6, <2>1, <2>2, <2>3 DEF IInv, Counted
<1>8. Compatible'
  <2>1. state.exclusive \in Nat /\ state.shared \in Nat
    BY OwnersFinite DEF IInv, Counted, Modes
  <2>. QED
    BY SMTT(40), <1>1, <1>2, <1>6, <2>1 DEF LockFree, Compatible, Modes
<1>. QED
  BY <1>3, <1>5, <1>7, <1>8 DEF IInv

\* An owner gives the lock back.
LEMMA ReleaseKeeps ==
    ASSUME IInv, NEW p \in Procs, LWLockRelease(p)
    PROVE  IInv'
<1>1. PICK mode \in Modes : mode = owns[p]
  BY DEF IInv, PlaceInv, Inside, LWLockRelease
<1>2. /\ owns' = [owns EXCEPT ![p] = "none"]
      /\ state' = [state EXCEPT ![mode] = @ - 1]
      /\ call' = call
      /\ \E l \in {"wake", "idle"} : Goto(p, l)
  BY <1>1 DEF LWLockRelease, rest
<1>3. PICK l \in {"wake", "idle"} : Goto(p, l)
  BY <1>2
<1>4. Types'
  BY <1>1, <1>2, <1>3 DEF IInv, Types, Goto, Labels
<1>5. /\ pc'[p] = l /\ owns'[p] = "none"
      /\ \A q \in Procs : q # p => pc'[q] = pc[q] /\ owns'[q] = owns[q]
  BY <1>2, <1>3 DEF IInv, Types, Goto
<1>6. \A q \in Procs : PlaceInv(q)'
  BY SMTT(40), <1>2, <1>5 DEF IInv, PlaceInv, Outside, Inside, InCall
<1>7. /\ state'[mode] = state[mode] - 1
      /\ \A m \in Modes : m # mode => state'[m] = state[m]
  BY <1>1, <1>2 DEF IInv, Types, Modes
<1>8. p \in Owners(mode)
  BY <1>1 DEF Owners
<1>9. Counted'
  <2>1. Owners(mode)' = Owners(mode) \ {p}
    BY <1>1, <1>5 DEF Owners, Modes
  <2>2. Cardinality(Owners(mode) \ {p}) = Cardinality(Owners(mode)) - 1
    BY <1>8, OwnersFinite, FS_RemoveElement
  <2>3. \A m \in Modes : m # mode => Owners(m)' = Owners(m)
    BY <1>1, <1>5 DEF Owners, Modes
  <2>. QED
    BY <1>7, <2>1, <2>2, <2>3 DEF IInv, Counted
<1>10. Compatible'
  <2>1. state.exclusive \in Nat /\ state.shared \in Nat
    BY OwnersFinite DEF IInv, Counted, Modes
  <2>2. state'.exclusive \in Nat /\ state'.shared \in Nat
    <3>1. \A m \in Modes : Cardinality(Owners(m)') \in Nat
      BY <1>9, OwnersFinite, ProcsAssumption, FS_Subset, FS_CardinalityType DEF Owners
    <3>. QED
      BY <1>9, <3>1 DEF Counted, Modes
  <2>. QED
    BY SMTT(40), <1>1, <1>7, <2>1, <2>2 DEF IInv, Compatible, Modes
<1>. QED
  BY <1>4, <1>6, <1>9, <1>10 DEF IInv

-----------------------------------------------------------------------------
(* The other steps move a process or set flags *)

\* The steps on the way into and out of the wait list.
LEMMA QueueKeeps ==
    ASSUME IInv, NEW p \in Procs,
           \/ LWLockWaitListLock(p) \/ LWLockQueueSelf(p) \/ Retry(p)
           \/ LWLockDequeueSelf(p) \/ DequeuedByOther(p) \/ SetReleaseOk(p)
    PROVE  IInv'
<1>. USE MoveKeeps DEF rest, Labels, Outside, Inside, InCall
<1>1. DOMAIN call = Procs /\ PlaceInv(p) /\ Types /\ pc[p] \in Labels
  BY DEF IInv, Types
<1>2. CASE LWLockWaitListLock(p)
  <2>1. /\ owns' = owns /\ call' = call
        /\ DOMAIN state' = DOMAIN state /\ \A m \in Modes : state'[m] = state[m]
    BY <1>1, <1>2 DEF LWLockWaitListLock, Types, Modes
  <2>2. CASE pc[p] = "queue"
    <3>1. Goto(p, "queue_body")
      BY <1>2, <2>2 DEF LWLockWaitListLock
    <3>. QED
      BY <1>1, <2>1, <2>2, <3>1 DEF PlaceInv
  <2>3. CASE pc[p] = "dequeue"
    <3>1. Goto(p, "dequeue_body")
      BY <1>2, <2>3 DEF LWLockWaitListLock
    <3>. QED
      BY <1>1, <2>1, <2>3, <3>1 DEF PlaceInv
  <2>4. CASE pc[p] = "wake"
    <3>1. Goto(p, "wake_body")
      BY <1>2, <2>4 DEF LWLockWaitListLock
    <3>. QED
      BY <1>1, <2>1, <2>4, <3>1 DEF PlaceInv
  <2>5. CASE pc[p] = "update"
    <3>1. Goto(p, "update_body")
      BY <1>2, <2>5 DEF LWLockWaitListLock
    <3>. QED
      BY <1>1, <2>1, <2>5, <3>1 DEF PlaceInv
  <2>. QED
    BY <1>2, <2>2, <2>3, <2>4, <2>5 DEF LWLockWaitListLock
<1>3. CASE LWLockQueueSelf(p)
  <2>1. /\ owns' = owns /\ call' = call /\ pc[p] = "queue_body"
        /\ DOMAIN state' = DOMAIN state /\ \A m \in Modes : state'[m] = state[m]
        /\ \E l \in {"set_ok", "attempt2"} : Goto(p, l)
    BY <1>1, <1>3 DEF LWLockQueueSelf, Types, Modes
  <2>. QED
    BY <1>1, <2>1 DEF PlaceInv
<1>4. CASE Retry(p)
  <2>1. /\ owns' = owns /\ call' = call /\ pc[p] = "retry"
        /\ DOMAIN state' = DOMAIN state /\ \A m \in Modes : state'[m] = state[m]
        /\ Goto(p, "attempt1")
    BY <1>1, <1>4 DEF Retry, Types, Modes
  <2>. QED
    BY <1>1, <2>1 DEF PlaceInv
<1>5. CASE LWLockDequeueSelf(p)
  <2>1. /\ owns' = owns /\ call' = call /\ pc[p] = "dequeue_body"
        /\ DOMAIN state' = DOMAIN state /\ \A m \in Modes : state'[m] = state[m]
        /\ \E l \in {"got", "dequeue_flag"} : Goto(p, l)
    BY <1>1, <1>5 DEF LWLockDequeueSelf, Types, Modes
  <2>. QED
    BY <1>1, <2>1 DEF PlaceInv
<1>6. CASE DequeuedByOther(p)
  <2>1. /\ owns' = owns /\ call' = call /\ pc[p] = "dequeue_flag"
        /\ DOMAIN state' = DOMAIN state /\ \A m \in Modes : state'[m] = state[m]
        /\ Goto(p, "dequeue_sleep")
    BY <1>1, <1>6 DEF DequeuedByOther, Types, Modes
  <2>. QED
    BY <1>1, <2>1 DEF PlaceInv
<1>7. CASE SetReleaseOk(p)
  <2>1. /\ owns' = owns /\ call' = call /\ pc[p] = "set_ok"
        /\ DOMAIN state' = DOMAIN state /\ \A m \in Modes : state'[m] = state[m]
        /\ Goto(p, "check2")
    BY <1>1, <1>7 DEF SetReleaseOk, Types, Modes
  <2>. QED
    BY <1>1, <2>1 DEF PlaceInv
<1>. QED
  BY <1>2, <1>3, <1>4, <1>5, <1>6, <1>7

\* The attempts, and the steps that wait.
LEMMA WaitKeeps ==
    ASSUME IInv, NEW p \in Procs,
           \/ FirstAttempt(p) \/ SecondAttempt(p) \/ Sleep(p)
           \/ ConflictsWithVar(p) \/ CompareVar(p)
    PROVE  IInv'
<1>. USE MoveKeeps DEF rest, Labels, Outside, Inside, InCall
<1>1. DOMAIN call = Procs /\ PlaceInv(p) /\ pc \in [Procs -> Labels]
  BY DEF IInv, Types
<1>2. CASE FirstAttempt(p)
  <2>1. CASE LWLockAttemptLock(p) /\ Goto(p, "got")
    BY <1>2, <2>1, AttemptKeeps DEF FirstAttempt
  <2>2. CASE ~ (LWLockAttemptLock(p) /\ Goto(p, "got"))
    <3>1. /\ owns' = owns /\ call' = call /\ state' = state /\ pc[p] = "attempt1"
          /\ \E l \in {"got", "queue"} : Goto(p, l)
      BY <1>2, <2>2 DEF FirstAttempt
    <3>. QED
      BY <1>1, <3>1 DEF PlaceInv
  <2>. QED
    BY <2>1, <2>2
<1>3. CASE SecondAttempt(p)
  <2>1. CASE LWLockAttemptLock(p) /\ Goto(p, "dequeue")
    BY <1>3, <2>1, AttemptKeeps DEF SecondAttempt
  <2>2. CASE ~ (LWLockAttemptLock(p) /\ Goto(p, "dequeue"))
    <3>1. /\ owns' = owns /\ call' = call /\ state' = state /\ pc[p] = "attempt2"
          /\ Goto(p, "sleep")
      BY <1>3, <2>2 DEF SecondAttempt
    <3>. QED
      BY <1>1, <3>1 DEF PlaceInv
  <2>. QED
    BY <2>1, <2>2
<1>4. CASE Sleep(p)
  <2>1. /\ owns' = owns /\ call' = call /\ state' = state
        /\ pc[p] \in {"sleep", "dequeue_sleep"}
    BY <1>4 DEF Sleep
  <2>2. \/ \E l \in {"got", "retry", "check1"} :
             /\ Goto(p, l)
             /\ pc[p] = "dequeue_sleep" => l = "got"
        \/ Goto(p, pc[p])
    BY <1>1, <1>4 DEF Sleep, Woken, Goto
  <2>. QED
    BY <1>1, <2>1, <2>2 DEF PlaceInv
<1>5. CASE ConflictsWithVar(p)
  <2>1. /\ owns' = owns /\ call' = call /\ state' = state
        /\ pc[p] \in {"check1", "check2"}
        /\ \E l \in {"value1", "value2", "got", "dequeue"} : Goto(p, l)
    BY <1>5 DEF ConflictsWithVar
  <2>. QED
    BY <1>1, <2>1 DEF PlaceInv
<1>6. CASE CompareVar(p)
  <2>1. /\ owns' = owns /\ call' = call /\ state' = state
        /\ pc[p] \in {"value1", "value2"}
        /\ \E l \in {"queue", "sleep", "got", "dequeue"} : Goto(p, l)
    BY <1>6 DEF CompareVar
  <2>. QED
    BY <1>1, <2>1 DEF PlaceInv
<1>. QED
  BY <1>2, <1>3, <1>4, <1>5, <1>6

\* The steps that wake others, and the ends and beginnings of calls.
LEMMA WakeKeeps ==
    ASSUME IInv, NEW p \in Procs,
           \/ LWLockWakeup(p) \/ WakeForVar(p) \/ ClearWaiting(p)
           \/ PostWaiter(p) \/ FixSemaphore(p) \/ NewCall(p)
    PROVE  IInv'
<1>. USE MoveKeeps DEF rest, Labels, Outside, Inside, InCall
<1>1. /\ DOMAIN call = Procs /\ PlaceInv(p) /\ Types
      /\ owns[p] \in Modes \cup {"none"}
  BY DEF IInv, Types
<1>2. /\ Back(p) \in {"idle", "held"}
      /\ Back(p) = "idle" => owns[p] = "none"
      /\ Back(p) = "held" => owns[p] \in Modes
  BY <1>1 DEF Back
<1>3. CASE LWLockWakeup(p) \/ WakeForVar(p)
  <2>1. /\ owns' = owns /\ call' = call
        /\ DOMAIN state' = DOMAIN state /\ \A m \in Modes : state'[m] = state[m]
    BY <1>1, <1>3 DEF LWLockWakeup, WakeForVar, Types, Modes
  <2>2. \E l \in {Back(p), "wake_clear"} : Goto(p, l)
    BY <1>3 DEF LWLockWakeup, WakeForVar, TakeOff
  <2>. QED
    BY <1>1, <1>2, <2>1, <2>2
<1>4. CASE ClearWaiting(p) \/ PostWaiter(p)
  <2>1. owns' = owns /\ call' = call /\ state' = state
    BY <1>4 DEF ClearWaiting, PostWaiter
  <2>2. \E l \in {Back(p), "wake_clear", "wake_post"} : Goto(p, l)
    BY <1>4 DEF ClearWaiting, PostWaiter
  <2>. QED
    BY <1>1, <1>2, <2>1, <2>2
<1>5. CASE FixSemaphore(p)
  <2>1. /\ owns' = owns /\ state' = state /\ Goto(p, Back(p))
        /\ DOMAIN call' = Procs /\ \A q \in Procs : q # p => call'[q] = call[q]
    BY <1>1, <1>5 DEF FixSemaphore
  <2>. QED
    BY <1>1, <1>2, <2>1
<1>6. CASE Begin(p)
  <2>1. PICK c \in Calls :
          /\ call' = [call EXCEPT ![p] = c]
          /\ Goto(p, IF c.op = "LWLockWaitForVar" THEN "check1" ELSE "attempt1")
    BY <1>6 DEF Begin
  <2>2. c.mode \in Modes
    BY DEF Calls, Modes
  <2>3. /\ DOMAIN call' = Procs /\ call'[p].mode \in Modes
        /\ \A q \in Procs : q # p => call'[q] = call[q]
    BY <1>1, <2>1, <2>2
  <2>4. owns' = owns /\ state' = state /\ owns[p] = "none"
    BY <1>1, <1>6 DEF Begin, PlaceInv
  <2>. QED
    BY <2>1, <2>3, <2>4
<1>7. CASE LWLockUpdateVar(p) \/ LWLockReleaseClearVar(p)
  <2>1. /\ owns' = owns /\ call' = call /\ state' = state /\ pc[p] = "held"
        /\ \E l \in {"update", "release"} : Goto(p, l)
    BY <1>7 DEF LWLockUpdateVar, LWLockReleaseClearVar
  <2>. QED
    BY <1>1, <2>1 DEF PlaceInv
<1>. QED
  BY <1>3, <1>4, <1>5, <1>6, <1>7 DEF NewCall

-----------------------------------------------------------------------------
(* Mutual exclusion *)

\* Every step keeps the invariant.
LEMMA NextKeeps == IInv /\ [Next]_vars => IInv'
<1>. SUFFICES ASSUME IInv, [Next]_vars PROVE IInv'
  OBVIOUS
<1>1. ASSUME NEW p \in Procs, Step(p) PROVE IInv'
  BY <1>1, QueueKeeps, WaitKeeps, WakeKeeps, ReleaseKeeps DEF Step
<1>2. ASSUME NEW p \in Procs, NewCall(p) PROVE IInv'
  BY <1>2, WakeKeeps
<1>3. ASSUME pc' = pc, call' = call, state' = state, owns' = owns PROVE IInv'
  BY SMTT(40), <1>3 DEF IInv, Types, PlaceInv, Counted, Owners, Compatible
<1>4. ASSUME NEW p \in Procs, ForeignPost(p) PROVE IInv'
  BY <1>3, <1>4 DEF ForeignPost, rest
<1>5. CASE UNCHANGED vars
  BY <1>3, <1>5 DEF vars
<1>. QED
  BY <1>1, <1>2, <1>4, <1>5 DEF Next

\* In every reachable state the counts in lock->state are the numbers of the
\* owners, and at most one of them is exclusive.
THEOREM LockInvariant == Spec => []IInv
BY InitIInv, NextKeeps, PTL DEF Spec

\* A process that owns the lock exclusively is its only owner, for any finite
\* number of processes (LWLockAttemptLock).
THEOREM LockExcludes == Spec => []MutualExclusion
<1>1. IInv => MutualExclusion
  <2>. SUFFICES ASSUME IInv, NEW p \in Procs, NEW q \in Procs,
                       owns[p] = "exclusive", owns[q] # "none"
                PROVE  p = q
    BY DEF MutualExclusion
  <2>1. p \in Owners("exclusive") /\ owns[q] \in Modes /\ q \in Owners(owns[q])
    BY DEF IInv, Types, Owners
  <2>2. \A m \in Modes : Cardinality(Owners(m)) = 0 => Owners(m) = {}
    BY OwnersFinite, FS_EmptySet
  <2>3. state.exclusive \in Nat /\ state.exclusive # 0
    BY <2>1, <2>2, OwnersFinite DEF IInv, Counted, Modes
  <2>4. state.exclusive = 1 /\ state.shared = 0
    BY SMTT(40), <2>3 DEF IInv, Compatible
  <2>5. owns[q] = "exclusive"
    BY <2>1, <2>2, <2>4 DEF IInv, Counted, Modes
  <2>6. PICK x : Owners("exclusive") = {x}
    BY <2>4, OwnersFinite, FS_Singleton DEF IInv, Counted, Modes
  <2>. QED
    BY <2>1, <2>5, <2>6
<1>. QED
  BY <1>1, LockInvariant, PTL

-----------------------------------------------------------------------------
(* Lists *)

\* A set of numbers that is not empty has a least element.
LEMMA Least ==
    ASSUME NEW T \in SUBSET Nat, T # {}
    PROVE  \E x \in T : \A y \in T : x <= y
<1>1. PICK x \in T : \A y \in T : ~ (<<y, x>> \in OpToRel(<, Nat))
  BY NatLessThanWellFounded, WFMin
<1>2. ASSUME NEW y \in T PROVE x <= y
  <2>1. <<y, x>> \notin {ss \in Nat \X Nat : ss[1] < ss[2]}
    BY <1>1, Zenon DEF OpToRel
  <2>2. <<y, x>> \in Nat \X Nat /\ <<y, x>>[1] = y /\ <<y, x>>[2] = x
    BY SMTT(40)
  <2>3. ~ (y < x)
    BY <2>1, <2>2, SMTT(40)
  <2>. QED
    BY <2>3, SMTT(40)
<1>. QED
  BY <1>2

\* Induction on numbers, for a set.
LEMMA SetInduction ==
    ASSUME NEW S, 0 \in S, \A n \in Nat : n \in S => n + 1 \in S
    PROVE  Nat \subseteq S
<1>. DEFINE T == Nat \ S
<1>. SUFFICES ASSUME T # {} PROVE FALSE
  OBVIOUS
<1>1. PICK x \in T : \A y \in T : x <= y
  BY Least
<1>2. x # 0 /\ x - 1 \in Nat /\ x - 1 + 1 = x
  BY SMTT(40)
<1>3. x - 1 \notin T
  BY <1>1, <1>2, SMTT(40)
<1>. QED
  BY <1>2, <1>3

\* x is on list s; s lists nothing twice.
On(s, p) == \E i \in DOMAIN s : s[i] = p
Once(s) == \A i, j \in DOMAIN s : s[i] = s[j] => i = j

\* One round of the loop of Among: what the first i elements of s give.
Round(F, s, S, i) ==
    IF i = 0 THEN <<>>
    ELSE IF s[i] \in S THEN Append(F[i - 1], s[i]) ELSE F[i - 1]

\* t lists the elements of S among the first n of s, in their order.
Lists(t, s, S, n) ==
    /\ t \in Seq(Procs)
    /\ \A x : On(t, x) <=> x \in S /\ \E k \in 1 .. n : s[k] = x
    /\ \A i, j \in DOMAIN t : i < j =>
           \E k, l \in 1 .. n : k < l /\ s[k] = t[i] /\ s[l] = t[j]

\* An element that is added at the end comes after those that are there.
LEMMA ListsMore ==
    ASSUME NEW s \in Seq(Procs), NEW S, NEW t, NEW n \in Nat, n + 1 \in 1 .. Len(s),
           Lists(t, s, S, n)
    PROVE  Lists(IF s[n + 1] \in S THEN Append(t, s[n + 1]) ELSE t, s, S, n + 1)
<1>1. CASE s[n + 1] \in S
  <2>. DEFINE u == Append(t, s[n + 1])
  <2>1. t \in Seq(Procs) /\ s[n + 1] \in Procs
    BY SMTT(40) DEF Lists
  <2>2. /\ u \in Seq(Procs) /\ Len(u) = Len(t) + 1 /\ Len(t) \in Nat
        /\ \A i \in 1 .. Len(t) : u[i] = t[i]
        /\ u[Len(t) + 1] = s[n + 1]
        /\ DOMAIN u = 1 .. Len(t) + 1 /\ DOMAIN t = 1 .. Len(t)
    BY SMTT(40), <2>1
  <2>. HIDE DEF u
  <2>3. ASSUME NEW x PROVE On(u, x) <=> x \in S /\ \E k \in 1 .. n + 1 : s[k] = x
    <3>1. On(u, x) <=> On(t, x) \/ x = s[n + 1]
      BY SMTT(40), <2>2 DEF On
    <3>2. (\E k \in 1 .. n + 1 : s[k] = x) <=> (\E k \in 1 .. n : s[k] = x) \/ x = s[n + 1]
      BY SMTT(40)
    <3>. QED
      BY <1>1, <3>1, <3>2 DEF Lists
  <2>4. ASSUME NEW i \in DOMAIN u, NEW j \in DOMAIN u, i < j
        PROVE  \E k, l \in 1 .. n + 1 : k < l /\ s[k] = u[i] /\ s[l] = u[j]
    <3>1. i \in DOMAIN t /\ u[i] = t[i]
      BY SMTT(40), <2>2, <2>4
    <3>2. CASE j \in DOMAIN t
      <4>1. PICK k, l \in 1 .. n : k < l /\ s[k] = t[i] /\ s[l] = t[j]
        BY <2>4, <3>1, <3>2 DEF Lists
      <4>2. u[j] = t[j]
        BY <2>2, <3>2
      <4>3. k \in 1 .. n + 1 /\ l \in 1 .. n + 1
        BY SMTT(40)
      <4>. QED
        BY <3>1, <4>1, <4>2, <4>3
    <3>3. CASE j \notin DOMAIN t
      <4>1. u[j] = s[n + 1]
        BY SMTT(40), <2>2, <3>3
      <4>2. On(t, u[i])
        BY <3>1 DEF On
      <4>3. PICK k \in 1 .. n : s[k] = u[i]
        BY <4>2 DEF Lists
      <4>4. k \in 1 .. n + 1 /\ n + 1 \in 1 .. n + 1 /\ k < n + 1
        BY SMTT(40)
      <4>. QED
        BY <4>1, <4>3, <4>4
    <3>. QED
      BY <3>2, <3>3
  <2>5. Lists(u, s, S, n + 1)
    BY <2>2, <2>3, <2>4 DEF Lists
  <2>. QED
    BY <1>1, <2>5 DEF u
<1>2. CASE s[n + 1] \notin S
  <2>1. ASSUME NEW x, x \in S
        PROVE  (\E k \in 1 .. n + 1 : s[k] = x) <=> (\E k \in 1 .. n : s[k] = x)
    BY SMTT(40), <1>2, <2>1
  <2>2. \A k \in 1 .. n : k \in 1 .. n + 1
    BY SMTT(40)
  <2>3. ASSUME NEW x PROVE On(t, x) <=> x \in S /\ \E k \in 1 .. n + 1 : s[k] = x
    BY <2>1 DEF Lists
  <2>4. ASSUME NEW i \in DOMAIN t, NEW j \in DOMAIN t, i < j
        PROVE  \E k, l \in 1 .. n + 1 : k < l /\ s[k] = t[i] /\ s[l] = t[j]
    <3>1. PICK k, l \in 1 .. n : k < l /\ s[k] = t[i] /\ s[l] = t[j]
      BY <2>4 DEF Lists
    <3>. QED
      BY <2>2, <3>1
  <2>5. Lists(t, s, S, n + 1)
    BY <2>3, <2>4 DEF Lists
  <2>. QED
    BY <1>2, <2>5
<1>. QED
  BY <1>1, <1>2

\* The loop of Among is defined, since it goes through s once.
LEMMA AmongDefined ==
    ASSUME NEW s \in Seq(Procs), NEW S
    PROVE  \E F : /\ F = [i \in 0 .. Len(s) |-> Round(F, s, S, i)]
                  /\ Among(s, S) = F[Len(s)]
<1>. DEFINE Good(F, n) == F = [i \in 0 .. n |-> Round(F, s, S, i)]
            Ns == {n \in Nat : \E F : Good(F, n)}
<1>1. 0 \in Ns
  <2>1. 0 .. 0 = {0}
    BY SMTT(40)
  <2>2. [i \in {0} |-> <<>>] = [i \in {0} |-> Round([j \in {0} |-> <<>>], s, S, i)]
    BY DEF Round
  <2>3. Good([i \in 0 .. 0 |-> <<>>], 0)
    BY <2>1, <2>2
  <2>. QED
    BY <2>3
<1>2. ASSUME NEW n \in Nat, n \in Ns PROVE n + 1 \in Ns
  <2>1. PICK F : Good(F, n)
    BY <1>2
  <2>. DEFINE G == [i \in 0 .. n + 1 |-> IF i = n + 1 THEN Round(F, s, S, n + 1) ELSE F[i]]
  <2>2. ASSUME NEW i \in 0 .. n + 1 PROVE G[i] = Round(G, s, S, i)
    <3>1. CASE i = 0
      <4>1. i \in 0 .. n /\ i # n + 1
        BY SMTT(40), <3>1
      <4>2. F[i] = Round(F, s, S, i)
        BY <2>1, <4>1
      <4>3. G[i] = F[i]
        BY <4>1
      <4>. QED
        BY <3>1, <4>2, <4>3 DEF Round
    <3>2. CASE i # 0
      <4>1. i - 1 \in 0 .. n /\ i - 1 \in 0 .. n + 1 /\ i - 1 # n + 1
        BY SMTT(40), <3>2
      <4>2. G[i - 1] = F[i - 1]
        BY <4>1
      <4>3. Round(G, s, S, i) = Round(F, s, S, i)
        <5>. HIDE DEF G
        <5>. QED
          BY <4>2 DEF Round
      <4>4. i # n + 1 => i \in 0 .. n
        BY SMTT(40)
      <4>. QED
        BY <2>1, <4>3, <4>4
    <3>. QED
      BY <3>1, <3>2
  <2>3. Good(G, n + 1)
    BY <2>2
  <2>4. n + 1 \in Nat
    BY SMTT(40)
  <2>. QED
    BY <2>3, <2>4
<1>3. Len(s) \in Ns
  <2>. HIDE DEF Ns
  <2>. QED
    BY <1>1, <1>2, SetInduction, SMTT(40)
<1>4. PICK F : F = CHOOSE G : Good(G, Len(s))
  OBVIOUS
<1>5. Good(F, Len(s))
  BY <1>3, <1>4
<1>6. Among(s, S) = F[Len(s)]
  BY <1>4 DEF Among, Round
<1>. QED
  BY <1>5, <1>6

\* What Among gives: the elements of s that are in S, in their order.
LEMMA AmongFacts ==
    ASSUME NEW s \in Seq(Procs), NEW S
    PROVE  Lists(Among(s, S), s, S, Len(s))
<1>1. PICK F : /\ F = [i \in 0 .. Len(s) |-> Round(F, s, S, i)]
               /\ Among(s, S) = F[Len(s)]
  BY AmongDefined
<1>. DEFINE Ns == {n \in Nat : n <= Len(s) => Lists(F[n], s, S, n)}
<1>2. 0 \in Ns
  <2>1. F[0] = <<>>
    <3>1. 0 \in 0 .. Len(s)
      BY SMTT(40)
    <3>. QED
      BY <1>1, <3>1 DEF Round
  <2>2. Lists(<<>>, s, S, 0)
    BY SMTT(40) DEF Lists, On
  <2>. QED
    BY <2>1, <2>2
<1>3. ASSUME NEW n \in Nat, n \in Ns PROVE n + 1 \in Ns
  <2>. SUFFICES ASSUME n + 1 <= Len(s) PROVE Lists(F[n + 1], s, S, n + 1)
    BY SMTT(40)
  <2>1. n + 1 \in 0 .. Len(s) /\ n + 1 \in 1 .. Len(s) /\ n + 1 # 0 /\ n <= Len(s)
        /\ n + 1 - 1 = n
    BY SMTT(40)
  <2>2. F[n + 1] = IF s[n + 1] \in S THEN Append(F[n], s[n + 1]) ELSE F[n]
    <3>1. F[n + 1] = Round(F, s, S, n + 1)
      BY <1>1, <2>1
    <3>. QED
      BY SMTT(40), <2>1, <3>1 DEF Round
  <2>3. Lists(F[n], s, S, n)
    BY <1>3, <2>1
  <2>. QED
    BY <2>1, <2>2, <2>3, ListsMore
<1>4. Len(s) \in Ns /\ Len(s) <= Len(s)
  <2>. HIDE DEF Ns
  <2>. QED
    BY <1>2, <1>3, SetInduction, SMTT(40)
<1>. QED
  BY <1>1, <1>4

-----------------------------------------------------------------------------
(* The lists of waiters and of processes to wake *)

\* Among keeps the elements in S, and a list free of repetitions.
LEMMA AmongKeeps ==
    ASSUME NEW s \in Seq(Procs), NEW S
    PROVE  /\ Among(s, S) \in Seq(Procs)
           /\ \A x : On(Among(s, S), x) <=> On(s, x) /\ x \in S
           /\ Once(s) => Once(Among(s, S))
<1>. PICK t : t = Among(s, S)
  OBVIOUS
<1>1. Lists(t, s, S, Len(s)) /\ DOMAIN s = 1 .. Len(s)
  BY SMTT(40), AmongFacts
<1>2. t \in Seq(Procs)
  BY <1>1 DEF Lists
<1>3. ASSUME NEW x PROVE On(t, x) <=> On(s, x) /\ x \in S
  <2>1. On(t, x) <=> x \in S /\ \E k \in 1 .. Len(s) : s[k] = x
    BY <1>1 DEF Lists
  <2>. QED
    BY <1>1, <2>1 DEF On
<1>4. ASSUME Once(s), NEW i \in DOMAIN t, NEW j \in DOMAIN t, t[i] = t[j], i < j
      PROVE  FALSE
  <2>1. PICK k, l \in 1 .. Len(s) : k < l /\ s[k] = t[i] /\ s[l] = t[j]
    BY <1>1, <1>4 DEF Lists
  <2>2. k = l
    BY <1>1, <1>4, <2>1 DEF Once
  <2>. QED
    BY SMTT(40), <1>1, <2>1, <2>2
<1>5. \A i, j \in DOMAIN t : i < j \/ j < i \/ i = j
  BY SMTT(40), <1>2
<1>6. Once(s) => Once(t)
  BY <1>4, <1>5 DEF Once
<1>. QED
  BY <1>2, <1>3, <1>6

\* A process that queues is on the list, at its end or in front, once.
LEMMA QueueFacts ==
    ASSUME NEW s \in Seq(Procs), NEW p \in Procs, ~On(s, p), Once(s),
           NEW t, t = <<p>> \o s \/ t = Append(s, p)
    PROVE  /\ t \in Seq(Procs) /\ t # <<>> /\ Once(t)
           /\ \A x : On(t, x) <=> On(s, x) \/ x = p
<1>1. PICK n \in Nat : /\ s \in [1 .. n -> Procs] /\ Len(s) = n
                       /\ DOMAIN s = 1 .. n
  BY SMTT(40)
<1>2. CASE t = Append(s, p)
  <2>1. /\ t \in Seq(Procs) /\ t # <<>> /\ DOMAIN t = 1 .. n + 1
        /\ t[n + 1] = p /\ \A i \in 1 .. n : t[i] = s[i]
    BY SMTT(40), <1>1, <1>2
  <2>2. n + 1 \in 1 .. n + 1 /\ \A i : i \in 1 .. n + 1 <=> i \in 1 .. n \/ i = n + 1
    BY SMTT(40)
  <2>3. \A x : On(t, x) <=> On(s, x) \/ x = p
    BY <1>1, <2>1, <2>2 DEF On
  <2>4. ASSUME NEW i \in DOMAIN t, NEW j \in DOMAIN t, t[i] = t[j] PROVE i = j
    BY <1>1, <2>1, <2>2, <2>4 DEF On, Once
  <2>. QED
    BY <2>1, <2>3, <2>4 DEF Once
<1>3. CASE t = <<p>> \o s
  <2>1. /\ t \in Seq(Procs) /\ t # <<>> /\ DOMAIN t = 1 .. n + 1
        /\ t[1] = p /\ \A i \in 1 .. n : t[i + 1] = s[i]
    BY SMTT(40), <1>1, <1>3
  <2>2. /\ \A i \in 1 .. n + 1 : i = 1 \/ \E k \in 1 .. n : i = k + 1
        /\ \A k \in 1 .. n : k + 1 \in 1 .. n + 1
        /\ 1 \in 1 .. n + 1
    <3>1. \A i \in 1 .. n + 1 : i # 1 => i - 1 \in 1 .. n /\ i = (i - 1) + 1
      BY SMTT(40)
    <3>2. /\ \A k \in 1 .. n : k + 1 \in 1 .. n + 1
          /\ 1 \in 1 .. n + 1
      BY SMTT(40)
    <3>. QED
      BY <3>1, <3>2
  <2>3. ASSUME NEW x PROVE On(t, x) <=> On(s, x) \/ x = p
    <3>1. ASSUME On(t, x), x # p PROVE On(s, x)
      <4>1. PICK i \in 1 .. n + 1 : t[i] = x
        BY <2>1, <3>1 DEF On
      <4>2. PICK k \in 1 .. n : i = k + 1
        BY <2>1, <2>2, <3>1, <4>1
      <4>. QED
        BY <1>1, <2>1, <4>1, <4>2 DEF On
    <3>2. ASSUME On(s, x) PROVE On(t, x)
      <4>1. PICK k \in 1 .. n : s[k] = x
        BY <1>1, <3>2 DEF On
      <4>2. k + 1 \in DOMAIN t /\ t[k + 1] = x
        BY <2>1, <2>2, <4>1
      <4>. QED
        BY <4>2 DEF On
    <3>3. On(t, p)
      BY <2>1, <2>2 DEF On
    <3>. QED
      BY <3>1, <3>2, <3>3
  <2>4. ASSUME NEW i \in DOMAIN t, NEW j \in DOMAIN t, t[i] = t[j] PROVE i = j
    <3>1. ASSUME NEW k \in 1 .. n PROVE t[k + 1] # p /\ t[k + 1] = s[k]
      BY <1>1, <2>1 DEF On
    <3>2. CASE i = 1 \/ j = 1
      BY SMTT(40), <2>1, <2>2, <2>4, <3>1, <3>2
    <3>3. CASE i # 1 /\ j # 1
      <4>1. PICK k \in 1 .. n : i = k + 1
        BY <2>1, <2>2, <3>3
      <4>2. PICK l \in 1 .. n : j = l + 1
        BY <2>1, <2>2, <3>3
      <4>3. s[k] = s[l]
        BY <2>4, <3>1, <4>1, <4>2
      <4>. QED
        BY <1>1, <4>1, <4>2, <4>3 DEF Once
    <3>. QED
      BY <3>2, <3>3
  <2>. QED
    BY <2>1, <2>3, <2>4 DEF Once
<1>. QED
  BY <1>2, <1>3

\* The head of a list, and the rest of it.
LEMMA TailFacts ==
    ASSUME NEW s \in Seq(Procs), s # <<>>
    PROVE  /\ Head(s) = s[1] /\ s[1] \in Procs /\ 1 \in DOMAIN s
           /\ Tail(s) \in Seq(Procs)
           /\ Once(s) => Once(Tail(s))
           /\ \A x : On(Tail(s), x) <=> \E i \in DOMAIN s : i # 1 /\ s[i] = x
<1>1. /\ Head(s) = s[1] /\ s[1] \in Procs /\ 1 \in DOMAIN s
      /\ Tail(s) \in Seq(Procs)
      /\ \A i \in DOMAIN Tail(s) : i + 1 \in DOMAIN s /\ i + 1 # 1 /\ Tail(s)[i] = s[i + 1]
      /\ \A i \in DOMAIN s : i # 1 => i - 1 \in DOMAIN Tail(s) /\ (i - 1) + 1 = i
  BY SMTT(40)
<1>2. \A i, j \in DOMAIN Tail(s) : i + 1 = j + 1 => i = j
  BY SMTT(40)
<1>3. Once(s) => Once(Tail(s))
  <2>. SUFFICES ASSUME Once(s), NEW i \in DOMAIN Tail(s), NEW j \in DOMAIN Tail(s),
                       Tail(s)[i] = Tail(s)[j]
                PROVE  i = j
    BY DEF Once
  <2>1. /\ i + 1 \in DOMAIN s /\ Tail(s)[i] = s[i + 1]
        /\ j + 1 \in DOMAIN s /\ Tail(s)[j] = s[j + 1]
    BY <1>1
  <2>. QED
    BY <1>2, <2>1 DEF Once
<1>4. ASSUME NEW x PROVE On(Tail(s), x) <=> \E i \in DOMAIN s : i # 1 /\ s[i] = x
  <2>1. ASSUME NEW i \in DOMAIN s, i # 1, s[i] = x PROVE On(Tail(s), x)
    <3>1. i - 1 \in DOMAIN Tail(s) /\ (i - 1) + 1 = i
      BY <1>1, <2>1
    <3>2. Tail(s)[i - 1] = x
      BY <1>1, <2>1, <3>1
    <3>. QED
      BY <3>1, <3>2 DEF On
  <2>2. ASSUME NEW i \in DOMAIN Tail(s), Tail(s)[i] = x
        PROVE  \E k \in DOMAIN s : k # 1 /\ s[k] = x
    <3>1. i + 1 \in DOMAIN s /\ i + 1 # 1 /\ s[i + 1] = x
      BY <1>1, <2>2
    <3>. QED
      BY <3>1
  <2>. QED
    BY <2>1, <2>2 DEF On
<1>. QED
  BY <1>1, <1>3, <1>4

\* A list with nothing on it is empty.
LEMMA NothingOn ==
    ASSUME NEW s \in Seq(Procs)
    PROVE  s = <<>> <=> ~ \E x : On(s, x)
<1>1. s # <<>> => 1 \in DOMAIN s
  BY SMTT(40)
<1>2. DOMAIN <<>> = {}
  BY SMTT(40)
<1>. QED
  BY <1>1, <1>2 DEF On

-----------------------------------------------------------------------------
(* What the places of the processes say of the lists and the semaphores *)

\* Places of a process that queued and has not yet found out that it is off
\* the list; and those of one that wakes others.
Queued == {"set_ok", "attempt2", "check2", "value2", "sleep", "dequeue",
           "dequeue_body", "dequeue_flag", "dequeue_sleep"}
Waking == {"wake_clear", "wake_post"}

\* q has taken p off the list and has not reset its lwWaiting.
ToClear(q, p) ==
    \E i \in DOMAIN wakeup[q] : wakeup[q][i] = p /\ (pc[q] = "wake_post" => i # 1)

\* Those that have reset the lwWaiting of p and not posted its semaphore.
Posting(p) == {q \in Procs : pc[q] = "wake_post" /\ Head(wakeup[q]) = p}

\* Which function p is in, and whether it took the lock there.
OpInv(p) ==
    /\ pc[p] \in {"check1", "value1", "set_ok", "check2", "value2"} =>
           call[p].op = "LWLockWaitForVar"
    /\ pc[p] \in {"attempt1", "attempt2", "retry"} =>
           call[p].op # "LWLockWaitForVar"
    /\ pc[p] \in {"queue", "queue_body"} \cup Queued =>
           call[p].op # "LWLockConditionalAcquire"
    /\ pc[p] \in {"dequeue", "dequeue_body", "dequeue_flag", "dequeue_sleep"}
         /\ call[p].op # "LWLockWaitForVar" => owns[p] # "none"
    /\ pc[p] \in {"update", "update_body", "release"} => owns[p] = "exclusive"

\* lwWaiting says on which list p is.
ListInv(p) ==
    /\ On(waiters, p) <=> lwWaiting[p] = "waiting"
    /\ lwWaiting[p] = "pending_wakeup" <=> \E q \in Procs : ToClear(q, p)
    /\ \A q, r \in Procs : ToClear(q, p) /\ ToClear(r, p) => q = r
    /\ lwWaiting[p] # "not_waiting" => pc[p] \in Queued
    /\ lwWaiting[p] = "waiting" => pc[p] \notin {"dequeue_flag", "dequeue_sleep"}

\* The list of a process that wakes others.
WakeInv(p) ==
    /\ Once(wakeup[p])
    /\ wakeup[p] # <<>> <=> pc[p] \in Waking

\* A process that was woken and has not slept since is owed one post.
Owed(p) == IF pc[p] \in Queued /\ lwWaiting[p] = "not_waiting" THEN 1 ELSE 0

\* The posts of p, absorbed and still to come, are the foreign ones and the
\* one that it is owed.
PostInv(p) ==
    /\ extraWaits[p] <= foreign[p]
    /\ pc[p] \notin InCall => extraWaits[p] = 0
    /\ sem[p] + extraWaits[p] + Cardinality(Posting(p)) = foreign[p] + Owed(p)

Base ==
    /\ TypeOK
    /\ Once(waiters)
    /\ waiters # <<>> => state.has_waiters
    /\ \A p \in Procs : OpInv(p) /\ ListInv(p) /\ WakeInv(p) /\ PostInv(p)

\* The processes that are about to post are finitely many.
LEMMA PostingFinite ==
    ASSUME NEW p
    PROVE  IsFiniteSet(Posting(p)) /\ Cardinality(Posting(p)) \in Nat
<1>1. IsFiniteSet(Posting(p))
  BY ProcsAssumption, FS_Subset DEF Posting
<1>. QED
  BY <1>1, FS_CardinalityType

\* The type of lock->state.
StateType == [exclusive : Nat, shared : Nat, has_waiters : BOOLEAN,
              release_ok : BOOLEAN, locked : BOOLEAN]

\* What the steps do to lock->state keeps its type.
LEMMA StateKept ==
    ASSUME state \in StateType, NEW m \in Modes, NEW n \in Nat,
           NEW a \in BOOLEAN, NEW b \in BOOLEAN, NEW c \in BOOLEAN
    PROVE  /\ [state EXCEPT ![m] = n] \in StateType
           /\ [state EXCEPT !.locked = a] \in StateType
           /\ [state EXCEPT !.release_ok = a] \in StateType
           /\ [state EXCEPT !.has_waiters = a, !.locked = b] \in StateType
           /\ [state EXCEPT !.release_ok = a, !.has_waiters = b, !.locked = c]
                \in StateType
<1>1. [state EXCEPT !.exclusive = n] \in StateType /\ [state EXCEPT !.shared = n] \in StateType
  BY SMTT(40) DEF StateType
<1>2. [state EXCEPT !.locked = a] \in StateType /\ [state EXCEPT !.release_ok = a] \in StateType
  BY SMTT(40) DEF StateType
<1>3. ASSUME NEW s \in StateType
      PROVE  [s EXCEPT !.has_waiters = b] \in StateType
  BY SMTT(40) DEF StateType
<1>4. ASSUME NEW s \in StateType, NEW d \in BOOLEAN
      PROVE  [s EXCEPT !.locked = d] \in StateType
  BY SMTT(40) DEF StateType
<1>5. [state EXCEPT !.has_waiters = a, !.locked = b]
        = [[state EXCEPT !.has_waiters = a] EXCEPT !.locked = b]
  OBVIOUS
<1>6. [state EXCEPT !.release_ok = a, !.has_waiters = b, !.locked = c]
        = [[[state EXCEPT !.release_ok = a] EXCEPT !.has_waiters = b] EXCEPT !.locked = c]
  OBVIOUS
<1>7. [state EXCEPT !.has_waiters = a] \in StateType
  BY SMTT(40) DEF StateType
<1>. QED
  BY <1>1, <1>2, <1>3, <1>4, <1>5, <1>6, <1>7 DEF Modes

\* A process that the step of another does not touch.
LEMMA Untouched ==
    ASSUME NEW q \in Procs, OpInv(q), ListInv(q), WakeInv(q), PostInv(q),
           pc'[q] = pc[q], call'[q] = call[q], owns'[q] = owns[q],
           On(waiters, q)' <=> On(waiters, q), lwWaiting'[q] = lwWaiting[q],
           \A r \in Procs : ToClear(r, q)' <=> ToClear(r, q),
           wakeup'[q] = wakeup[q],
           sem'[q] = sem[q], extraWaits'[q] = extraWaits[q],
           foreign'[q] = foreign[q], Posting(q)' = Posting(q)
    PROVE  OpInv(q)' /\ ListInv(q)' /\ WakeInv(q)' /\ PostInv(q)'
<1>1. OpInv(q)'
  BY DEF OpInv
<1>2. ListInv(q)'
  BY DEF ListInv
<1>3. WakeInv(q)'
  BY DEF WakeInv
<1>4. PostInv(q)'
  BY DEF PostInv, Owed
<1>. QED
  BY <1>1, <1>2, <1>3, <1>4

\* A step that only moves p keeps the invariant when it stays queued or
\* unqueued.
LEMMA MoveKeepsBase ==
    ASSUME Base, TypeOK', NEW p \in Procs, NEW l \in Labels, Goto(p, l),
           pc[p] \notin Waking, l \notin Waking, pc[p] \in Queued <=> l \in Queued,
           l \notin InCall => pc[p] \notin InCall,
           l \in {"dequeue_flag", "dequeue_sleep"} => lwWaiting[p] # "waiting",
           waiters' = waiters, lwWaiting' = lwWaiting, wakeup' = wakeup,
           sem' = sem, extraWaits' = extraWaits, foreign' = foreign,
           waiters # <<>> => state'.has_waiters,
           \A q \in Procs : q # p => call'[q] = call[q] /\ owns'[q] = owns[q],
           OpInv(p)'
    PROVE  Base'
<1>1. pc'[p] = l /\ \A q \in Procs : q # p => pc'[q] = pc[q]
  BY DEF Base, TypeOK, Goto
<1>2. \A q, r \in Procs : ToClear(q, r)' <=> ToClear(q, r)
  BY <1>1 DEF ToClear, Waking
<1>3. \A q \in Procs : On(waiters, q)' <=> On(waiters, q)
  BY DEF On
<1>4. ASSUME NEW q \in Procs PROVE Posting(q)' = Posting(q)
  BY <1>1 DEF Posting, Waking
<1>5. ASSUME NEW q \in Procs, q # p
      PROVE  OpInv(q)' /\ ListInv(q)' /\ WakeInv(q)' /\ PostInv(q)'
  BY <1>1, <1>2, <1>3, <1>4, <1>5, Untouched DEF Base
<1>6. ListInv(p)'
  BY <1>1, <1>2, <1>3 DEF Base, ListInv
<1>7. WakeInv(p)'
  BY <1>1 DEF Base, WakeInv
<1>8. PostInv(p)'
  <2>1. Owed(p)' = Owed(p)
    BY <1>1 DEF Owed
  <2>. QED
    BY <1>1, <1>4, <2>1 DEF Base, PostInv
<1>9. Once(waiters)'
  BY DEF Base, Once
<1>. QED
  BY <1>5, <1>6, <1>7, <1>8, <1>9 DEF Base

\* The arguments of a call.
LEMMA CallFacts ==
    ASSUME NEW c \in Calls
    PROVE  /\ c.mode \in Modes
           /\ c.op \in {"LWLockAcquire", "LWLockConditionalAcquire",
                        "LWLockAcquireOrWait", "LWLockWaitForVar"}
<1>1. c.mode \in Modes /\ c.op \in Ops /\ c.op # "LWLockUpdateVar"
  BY SMTT(40) DEF Calls, Modes
<1>. QED
  BY <1>1, OpsAssumption

\* A step that changes the places, arguments and owners of one process, the
\* variable and the state keeps the types.
LEMMA MoveTypes ==
    ASSUME TypeOK, NEW p \in Procs, NEW l \in Labels, Goto(p, l),
           state' \in StateType, var' \in Values,
           waiters' = waiters, lwWaiting' = lwWaiting, wakeup' = wakeup,
           sem' = sem, extraWaits' = extraWaits, foreign' = foreign,
           call' \in [Procs -> Calls], owns' \in [Procs -> Modes \cup {"none"}]
    PROVE  TypeOK'
<1>1. pc' \in [Procs -> Labels]
  BY DEF TypeOK, Goto
<1>. QED
  BY <1>1 DEF TypeOK, StateType

\* The steps into a call and through it that leave the lists alone.
LEMMA WaitKeepsBase ==
    ASSUME IInv, Base, NEW p \in Procs,
           \/ Retry(p) \/ DequeuedByOther(p) \/ SetReleaseOk(p)
           \/ ConflictsWithVar(p) \/ CompareVar(p)
    PROVE  Base'
<1>. USE DEF rest, queueVars, semVars, Labels, Waking, Queued, InCall, Outside
<1>1. /\ TypeOK /\ state \in StateType /\ var \in Values /\ OpInv(p) /\ ListInv(p)
      /\ call \in [Procs -> Calls] /\ owns \in [Procs -> Modes \cup {"none"}]
      /\ waiters # <<>> => state.has_waiters
  BY DEF Base, TypeOK, StateType
<1>2. [state EXCEPT !.release_ok = TRUE] \in StateType
      /\ [state EXCEPT !.release_ok = TRUE].has_waiters = state.has_waiters
  BY <1>1, StateKept DEF Modes, IInv, Types
<1>3. CASE Retry(p)
  <2>1. Goto(p, "attempt1") /\ pc[p] = "retry" /\ pc'[p] = "attempt1"
    BY <1>1, <1>3 DEF Retry, Goto, TypeOK
  <2>2. OpInv(p)'
    BY <1>1, <1>3, <2>1 DEF OpInv, Retry
  <2>4. TypeOK'
    BY <1>1, <1>2, <1>3, <2>1, MoveTypes DEF Retry
  <2>. QED
    BY <1>1, <1>2, <1>3, <2>1, <2>2, <2>4, MoveKeepsBase DEF Retry
<1>4. CASE DequeuedByOther(p)
  <2>1. Goto(p, "dequeue_sleep") /\ pc[p] = "dequeue_flag" /\ pc'[p] = "dequeue_sleep"
    BY <1>1, <1>4 DEF DequeuedByOther, Goto, TypeOK
  <2>2. OpInv(p)'
    BY <1>1, <1>4, <2>1 DEF OpInv, DequeuedByOther
  <2>3. lwWaiting[p] # "waiting"
    BY <1>1, <2>1 DEF ListInv
  <2>4. TypeOK'
    BY <1>1, <1>2, <1>4, <2>1, MoveTypes DEF DequeuedByOther
  <2>. QED
    BY <1>1, <1>2, <1>4, <2>1, <2>2, <2>3, <2>4, MoveKeepsBase DEF DequeuedByOther
<1>5. CASE SetReleaseOk(p)
  <2>1. Goto(p, "check2") /\ pc[p] = "set_ok" /\ pc'[p] = "check2"
    BY <1>1, <1>5 DEF SetReleaseOk, Goto, TypeOK
  <2>2. OpInv(p)'
    BY <1>1, <1>5, <2>1 DEF OpInv, SetReleaseOk
  <2>4. TypeOK'
    BY <1>1, <1>2, <1>5, <2>1, MoveTypes DEF SetReleaseOk
  <2>. QED
    BY <1>1, <1>2, <1>5, <2>1, <2>2, <2>4, MoveKeepsBase DEF SetReleaseOk
<1>6. CASE ConflictsWithVar(p)
  <2>1. PICK l \in {"value1", "value2", "got", "dequeue"} :
          /\ Goto(p, l)
          /\ \/ pc[p] = "check1" /\ l \in {"value1", "got"}
             \/ pc[p] = "check2" /\ l \in {"value2", "dequeue"}
    BY <1>6 DEF ConflictsWithVar
  <2>2. /\ pc'[p] = l /\ call' = call /\ owns' = owns
        /\ call[p].op = "LWLockWaitForVar"
    BY <1>1, <1>6, <2>1 DEF Goto, TypeOK, OpInv, ConflictsWithVar
  <2>3. OpInv(p)'
    BY <2>1, <2>2 DEF OpInv
  <2>4. TypeOK'
    BY <1>1, <1>6, <2>1, MoveTypes DEF ConflictsWithVar
  <2>. QED
    BY <1>1, <1>6, <2>1, <2>3, <2>4, MoveKeepsBase DEF ConflictsWithVar
<1>7. CASE CompareVar(p)
  <2>1. PICK l \in {"queue", "sleep", "got", "dequeue"} :
          /\ Goto(p, l)
          /\ \/ pc[p] = "value1" /\ l \in {"queue", "got"}
             \/ pc[p] = "value2" /\ l \in {"sleep", "dequeue"}
    BY <1>7 DEF CompareVar
  <2>2. /\ pc'[p] = l /\ call' = call /\ owns' = owns
        /\ call[p].op = "LWLockWaitForVar"
    BY <1>1, <1>7, <2>1 DEF Goto, TypeOK, OpInv, CompareVar
  <2>3. OpInv(p)'
    BY <2>1, <2>2 DEF OpInv
  <2>4. TypeOK'
    BY <1>1, <1>7, <2>1, MoveTypes DEF CompareVar
  <2>. QED
    BY <1>1, <1>7, <2>1, <2>3, <2>4, MoveKeepsBase DEF CompareVar
<1>. QED
  BY <1>3, <1>4, <1>5, <1>6, <1>7

\* The counts of an owner's mode are not zero.
LEMMA OwnerCounted ==
    ASSUME IInv, NEW p \in Procs, NEW m \in Modes, owns[p] = m
    PROVE  state[m] \in Nat /\ state[m] # 0
<1>1. p \in Owners(m)
  BY DEF Owners
<1>2. Cardinality(Owners(m)) \in Nat /\ Cardinality(Owners(m)) # 0
  BY <1>1, OwnersFinite, FS_EmptySet
<1>. QED
  BY <1>2 DEF IInv, Counted

\* The steps that begin a call, try for the lock, take the wait list lock or
\* release.
LEMMA LockKeepsBase ==
    ASSUME IInv, Base, NEW p \in Procs,
           \/ NewCall(p) \/ FirstAttempt(p) \/ SecondAttempt(p)
           \/ LWLockWaitListLock(p) \/ LWLockRelease(p)
    PROVE  Base'
<1>. USE DEF rest, queueVars, semVars, Labels, Waking, Queued, InCall, Outside
<1>1. /\ TypeOK /\ state \in StateType /\ var \in Values /\ OpInv(p) /\ ListInv(p)
      /\ call \in [Procs -> Calls] /\ owns \in [Procs -> Modes \cup {"none"}]
      /\ waiters # <<>> => state.has_waiters
      /\ \A m \in Modes : \A n : [state EXCEPT ![m] = n].has_waiters = state.has_waiters
  BY DEF Base, TypeOK, StateType, IInv, Types, Modes
<1>2. CASE Begin(p)
  <2>1. PICK c \in Calls, l \in {"check1", "attempt1"} :
          /\ call' = [call EXCEPT ![p] = c] /\ Goto(p, l)
          /\ c.op = "LWLockWaitForVar" <=> l = "check1"
    BY <1>2 DEF Begin
  <2>2. /\ pc[p] = "idle" /\ pc'[p] = l /\ call'[p] = c /\ owns' = owns
        /\ call' \in [Procs -> Calls] /\ \A q \in Procs : q # p => call'[q] = call[q]
    BY <1>1, <1>2, <2>1 DEF Goto, TypeOK, Begin
  <2>3. OpInv(p)'
    BY <2>1, <2>2 DEF OpInv
  <2>4. TypeOK'
    BY <1>1, <1>2, <2>1, <2>2, MoveTypes DEF Begin
  <2>. QED
    BY <1>1, <1>2, <2>1, <2>2, <2>3, <2>4, MoveKeepsBase DEF Begin
<1>3. CASE LWLockUpdateVar(p) \/ LWLockReleaseClearVar(p)
  <2>1. PICK l \in {"update", "release"} : Goto(p, l)
    BY <1>3 DEF LWLockUpdateVar, LWLockReleaseClearVar
  <2>2. /\ pc[p] = "held" /\ pc'[p] = l /\ owns[p] = "exclusive"
        /\ owns' = owns /\ call' = call /\ state' = state /\ var' \in Values
        /\ waiters' = waiters /\ lwWaiting' = lwWaiting /\ wakeup' = wakeup
        /\ sem' = sem /\ extraWaits' = extraWaits /\ foreign' = foreign
    BY <1>1, <1>3, <2>1 DEF Goto, TypeOK, LWLockUpdateVar, LWLockReleaseClearVar
  <2>3. OpInv(p)'
    BY <2>1, <2>2 DEF OpInv
  <2>4. TypeOK'
    BY <1>1, <2>1, <2>2, MoveTypes
  <2>. QED
    BY <1>1, <2>1, <2>2, <2>3, <2>4, MoveKeepsBase
<1>4. ASSUME LWLockAttemptLock(p)
      PROVE  /\ state' \in StateType /\ state'.has_waiters = state.has_waiters
             /\ owns' \in [Procs -> Modes \cup {"none"}] /\ owns'[p] # "none"
             /\ \A q \in Procs : q # p => owns'[q] = owns[q]
  <2>1. PICK m \in Modes : m = call[p].mode
    BY <1>1, CallFacts
  <2>2. state[m] + 1 \in Nat
    BY SMTT(40), <1>1 DEF StateType, Modes
  <2>3. state' = [state EXCEPT ![m] = state[m] + 1] /\ owns' = [owns EXCEPT ![p] = m]
    BY <1>4, <2>1 DEF LWLockAttemptLock
  <2>. QED
    BY <1>1, <2>1, <2>2, <2>3, StateKept DEF Modes
<1>5. CASE FirstAttempt(p)
  <2>1. PICK l \in {"got", "queue"} :
          /\ Goto(p, l) /\ (l = "queue" => call[p].op # "LWLockConditionalAcquire")
          /\ LWLockAttemptLock(p) \/ UNCHANGED <<state, owns>>
    BY <1>5 DEF FirstAttempt
  <2>2. /\ state' \in StateType /\ state'.has_waiters = state.has_waiters
        /\ owns' \in [Procs -> Modes \cup {"none"}]
        /\ \A q \in Procs : q # p => owns'[q] = owns[q]
    BY <1>1, <1>4, <2>1
  <2>3. pc[p] = "attempt1" /\ pc'[p] = l /\ call' = call
    BY <1>1, <1>5, <2>1 DEF Goto, TypeOK, FirstAttempt
  <2>4. OpInv(p)'
    BY <2>1, <2>3 DEF OpInv
  <2>5. TypeOK'
    BY <1>1, <1>5, <2>1, <2>2, MoveTypes DEF FirstAttempt
  <2>. QED
    BY <1>1, <1>5, <2>1, <2>2, <2>3, <2>4, <2>5, MoveKeepsBase DEF FirstAttempt
<1>6. CASE SecondAttempt(p)
  <2>1. PICK l \in {"dequeue", "sleep"} :
          /\ Goto(p, l)
          /\ \/ LWLockAttemptLock(p)
             \/ l = "sleep" /\ UNCHANGED <<state, owns>>
    BY <1>6 DEF SecondAttempt
  <2>2. /\ state' \in StateType /\ state'.has_waiters = state.has_waiters
        /\ owns' \in [Procs -> Modes \cup {"none"}]
        /\ \A q \in Procs : q # p => owns'[q] = owns[q]
        /\ l = "dequeue" => owns'[p] # "none"
    BY <1>1, <1>4, <2>1
  <2>3. pc[p] = "attempt2" /\ pc'[p] = l /\ call' = call
    BY <1>1, <1>6, <2>1 DEF Goto, TypeOK, SecondAttempt
  <2>4. OpInv(p)'
    BY <1>1, <2>1, <2>2, <2>3 DEF OpInv
  <2>5. TypeOK'
    BY <1>1, <1>6, <2>1, <2>2, MoveTypes DEF SecondAttempt
  <2>. QED
    BY <1>1, <1>6, <2>1, <2>2, <2>3, <2>4, <2>5, MoveKeepsBase DEF SecondAttempt
<1>7. CASE LWLockWaitListLock(p)
  <2>1. PICK l \in {"queue_body", "dequeue_body", "wake_body", "update_body"} :
          /\ Goto(p, l)
          /\ pc[p] = "queue" <=> l = "queue_body"
          /\ pc[p] = "dequeue" <=> l = "dequeue_body"
          /\ pc[p] = "wake" <=> l = "wake_body"
          /\ pc[p] = "update" <=> l = "update_body"
    BY <1>7 DEF LWLockWaitListLock
  <2>2. /\ state' \in StateType /\ state'.has_waiters = state.has_waiters
        /\ call' = call /\ owns' = owns /\ pc'[p] = l
        /\ pc[p] \in {"queue", "dequeue", "wake", "update"}
    BY <1>1, <1>7, <2>1, StateKept DEF LWLockWaitListLock, Goto, TypeOK, IInv, Types, Modes
  <2>3. OpInv(p)'
    BY <1>1, <2>1, <2>2 DEF OpInv
  <2>4. TypeOK'
    BY <1>1, <1>7, <2>1, <2>2, MoveTypes DEF LWLockWaitListLock
  <2>. QED
    BY <1>1, <1>7, <2>1, <2>2, <2>3, <2>4, MoveKeepsBase DEF LWLockWaitListLock
<1>8. CASE LWLockRelease(p)
  <2>1. PICK l \in {"wake", "idle"} : Goto(p, l)
    BY <1>8 DEF LWLockRelease
  <2>2. PICK m \in Modes : m = owns[p]
    BY <1>8 DEF LWLockRelease, IInv, PlaceInv, Inside
  <2>3. state[m] - 1 \in Nat
    <3>1. state[m] \in Nat /\ state[m] # 0
      BY <2>2, OwnerCounted
    <3>. QED
      BY SMTT(40), <3>1
  <2>4. /\ state' = [state EXCEPT ![m] = state[m] - 1]
        /\ owns' = [owns EXCEPT ![p] = "none"] /\ call' = call
        /\ pc[p] \in {"held", "release"} /\ pc'[p] = l
    BY <1>1, <1>8, <2>1, <2>2 DEF LWLockRelease, Goto, TypeOK
  <2>5. /\ state' \in StateType /\ state'.has_waiters = state.has_waiters
        /\ owns' \in [Procs -> Modes \cup {"none"}]
        /\ \A q \in Procs : q # p => owns'[q] = owns[q]
    BY <1>1, <2>3, <2>4, StateKept
  <2>6. OpInv(p)'
    BY <2>1, <2>4 DEF OpInv
  <2>7. TypeOK'
    BY <1>1, <1>8, <2>1, <2>4, <2>5, MoveTypes DEF LWLockRelease
  <2>. QED
    BY <1>1, <1>8, <2>1, <2>4, <2>5, <2>6, <2>7, MoveKeepsBase DEF LWLockRelease
<1>. QED
  BY <1>2, <1>3, <1>5, <1>6, <1>7, <1>8 DEF NewCall

\* The steps on the semaphore of p: it sleeps, gives back what it absorbed, or
\* another user posts.
LEMMA SleepKeepsBase ==
    ASSUME IInv, Base, NEW p \in Procs, Sleep(p) \/ FixSemaphore(p) \/ ForeignPost(p)
    PROVE  Base'
<1>. USE DEF rest, queueVars, semVars
<1>1. /\ TypeOK /\ OpInv(p) /\ ListInv(p) /\ WakeInv(p) /\ PostInv(p)
      /\ sem[p] \in Nat /\ extraWaits[p] \in Nat /\ foreign[p] \in Nat
      /\ Cardinality(Posting(p)) \in Nat /\ Owed(p) \in {0, 1}
      /\ foreign[p] \in 0 .. MaxForeign
  <2>1. foreign[p] \in 0 .. MaxForeign
    BY DEF Base, TypeOK
  <2>2. foreign[p] \in Nat
    BY SMTT(40), <2>1
  <2>. QED
    BY <2>1, <2>2, PostingFinite DEF Base, TypeOK, Owed
<1>2. /\ waiters' = waiters /\ lwWaiting' = lwWaiting /\ wakeup' = wakeup /\ owns' = owns
      /\ state' = state /\ var' = var
      /\ \A q \in Procs : q # p => /\ sem'[q] = sem[q] /\ foreign'[q] = foreign[q]
                                   /\ extraWaits'[q] = extraWaits[q]
                                   /\ pc'[q] = pc[q] /\ call'[q] = call[q]
  BY <1>1 DEF Sleep, FixSemaphore, ForeignPost, Goto, TypeOK
<1>3. pc[p] \notin Waking => pc'[p] \notin Waking
  BY <1>1 DEF Sleep, FixSemaphore, ForeignPost, Goto, TypeOK, Waking, Woken, Back
<1>4. pc[p] \in Waking => pc' = pc
  BY DEF Sleep, FixSemaphore, ForeignPost, Waking
<1>5. \A q, r \in Procs : ToClear(q, r)' <=> ToClear(q, r)
  BY <1>2, <1>3, <1>4 DEF ToClear, Waking
<1>6. \A q \in Procs : On(waiters, q)' <=> On(waiters, q)
  BY <1>2 DEF On
<1>7. ASSUME NEW q \in Procs PROVE Posting(q)' = Posting(q)
  BY <1>2, <1>3, <1>4 DEF Posting, Waking
<1>8. ASSUME NEW q \in Procs, q # p
      PROVE  OpInv(q)' /\ ListInv(q)' /\ WakeInv(q)' /\ PostInv(q)'
  BY <1>2, <1>5, <1>6, <1>7, <1>8, Untouched DEF Base
<1>9. WakeInv(p)'
  BY <1>1, <1>2, <1>3, <1>4 DEF WakeInv
<1>10. Once(waiters)' /\ (waiters # <<>> => state.has_waiters)'
  BY <1>2 DEF Base, Once
<1>11. SUFFICES TypeOK' /\ OpInv(p)' /\ ListInv(p)' /\ PostInv(p)'
  BY <1>8, <1>9, <1>10 DEF Base
<1>12. CASE Sleep(p) /\ lwWaiting[p] = "not_waiting"
  <2>1. PICK l \in {"got", "retry", "check1"} :
          /\ Goto(p, l)
          /\ l = "retry" => call[p].op = "LWLockAcquire"
          /\ l = "check1" => /\ pc[p] = "sleep" /\ call[p].op # "LWLockAcquire"
                             /\ call[p].op # "LWLockAcquireOrWait"
    BY <1>12 DEF Sleep, Woken
  <2>2. /\ pc[p] \in {"sleep", "dequeue_sleep"} /\ pc'[p] = l /\ call' = call
        /\ sem[p] > 0 /\ sem' = [sem EXCEPT ![p] = sem[p] - 1]
        /\ extraWaits' = extraWaits /\ foreign' = foreign
    BY <1>1, <1>12, <2>1 DEF Sleep, Goto, TypeOK
  <2>3. sem[p] - 1 \in Nat /\ sem'[p] = sem[p] - 1
    <3>1. sem[p] - 1 \in Nat
      BY SMTT(40), <1>1, <2>2
    <3>. QED
      BY <1>1, <2>2, <3>1 DEF TypeOK
  <2>4. TypeOK'
    BY <1>1, <1>2, <2>1, <2>2, <2>3 DEF TypeOK, Goto, Labels
  <2>5. call[p].op \in {"LWLockAcquire", "LWLockConditionalAcquire",
                       "LWLockAcquireOrWait", "LWLockWaitForVar"}
    BY <1>1, CallFacts DEF TypeOK
  <2>6. l = "check1" => call[p].op = "LWLockWaitForVar"
    BY <1>1, <2>1, <2>2, <2>5 DEF OpInv, Queued
  <2>7. OpInv(p)'
    BY <2>1, <2>2, <2>6 DEF OpInv, Queued
  <2>8. ListInv(p)'
    BY <1>1, <1>2, <1>5, <1>6, <1>12 DEF ListInv
  <2>9. Owed(p) = 1 /\ Owed(p)' = 0
    BY <1>12, <2>1, <2>2 DEF Owed, Queued
  <2>10. pc'[p] \in InCall
    BY <2>1, <2>2 DEF InCall, Outside
  <2>11. sem'[p] + extraWaits[p] + Cardinality(Posting(p)) = foreign[p] + 0
    BY SMTT(40), <1>1, <2>3, <2>9 DEF PostInv
  <2>12. PostInv(p)'
    BY <1>1, <1>7, <2>2, <2>9, <2>10, <2>11 DEF PostInv
  <2>. QED
    BY <2>4, <2>7, <2>8, <2>12
<1>13. CASE Sleep(p) /\ lwWaiting[p] # "not_waiting"
  <2>1. /\ pc[p] \in {"sleep", "dequeue_sleep"} /\ pc' = pc /\ call' = call
        /\ sem[p] > 0 /\ sem' = [sem EXCEPT ![p] = sem[p] - 1]
        /\ extraWaits' = [extraWaits EXCEPT ![p] = extraWaits[p] + 1]
        /\ foreign' = foreign
    BY <1>13 DEF Sleep
  <2>2. sem[p] - 1 \in Nat /\ extraWaits[p] + 1 \in Nat
    BY SMTT(40), <1>1, <2>1
  <2>3. sem'[p] = sem[p] - 1 /\ extraWaits'[p] = extraWaits[p] + 1
    BY <1>1, <2>1 DEF TypeOK
  <2>4. TypeOK'
    BY <1>1, <1>2, <2>1, <2>2 DEF TypeOK
  <2>5. OpInv(p)' /\ ListInv(p)'
    BY <1>1, <1>2, <1>5, <1>6, <2>1 DEF OpInv, ListInv
  <2>6. Owed(p) = 0 /\ Owed(p)' = 0
    BY <1>2, <1>13, <2>1 DEF Owed
  <2>7. pc'[p] \in InCall
    BY <2>1 DEF InCall, Outside
  <2>8. /\ sem'[p] + extraWaits'[p] + Cardinality(Posting(p)) = foreign[p] + 0
        /\ extraWaits'[p] <= foreign[p]
    BY SMTT(40), <1>1, <2>2, <2>3, <2>6 DEF PostInv
  <2>9. PostInv(p)'
    BY <1>7, <2>1, <2>6, <2>7, <2>8 DEF PostInv
  <2>. QED
    BY <2>4, <2>5, <2>9
<1>14. CASE FixSemaphore(p)
  <2>1. PICK l \in {"idle", "held"} : Goto(p, l)
    BY <1>14 DEF FixSemaphore, Back
  <2>2. /\ pc[p] = "got" /\ pc'[p] = l
        /\ sem' = [sem EXCEPT ![p] = sem[p] + extraWaits[p]]
        /\ extraWaits' = [extraWaits EXCEPT ![p] = 0]
        /\ call' = [call EXCEPT ![p] = NoCall] /\ foreign' = foreign
    BY <1>1, <1>14, <2>1 DEF FixSemaphore, Goto, TypeOK
  <2>3. sem[p] + extraWaits[p] \in Nat /\ 0 \in Nat
    BY SMTT(40), <1>1
  <2>4. sem'[p] = sem[p] + extraWaits[p] /\ extraWaits'[p] = 0
    BY <1>1, <2>2 DEF TypeOK
  <2>5. NoCall \in Calls
    <3>1. call[p] \in Calls
      BY <1>1 DEF TypeOK
    <3>. QED
      BY <3>1 DEF NoCall
  <2>6. TypeOK'
    <3>1. /\ sem' \in [Procs -> Nat] /\ extraWaits' \in [Procs -> Nat]
          /\ call' \in [Procs -> Calls] /\ pc' \in [Procs -> Labels]
      BY <1>1, <2>1, <2>2, <2>3, <2>5 DEF TypeOK, Goto, Labels
    <3>. QED
      BY <1>1, <1>2, <2>2, <3>1 DEF TypeOK
  <2>7. OpInv(p)'
    BY <2>1, <2>2 DEF OpInv, Queued
  <2>8. ListInv(p)'
    BY <1>1, <1>2, <1>5, <1>6, <2>1, <2>2 DEF ListInv, Queued
  <2>9. Owed(p) = 0 /\ Owed(p)' = 0
    BY <2>1, <2>2 DEF Owed, Queued
  <2>10. /\ sem'[p] + 0 + Cardinality(Posting(p)) = foreign[p] + 0
         /\ 0 <= foreign[p]
    BY SMTT(40), <1>1, <2>4, <2>9 DEF PostInv
  <2>11. PostInv(p)'
    BY <1>7, <2>2, <2>4, <2>9, <2>10 DEF PostInv
  <2>. QED
    BY <2>6, <2>7, <2>8, <2>11
<1>15. CASE ForeignPost(p)
  <2>1. /\ pc' = pc /\ call' = call /\ extraWaits' = extraWaits
        /\ sem' = [sem EXCEPT ![p] = sem[p] + 1]
        /\ foreign' = [foreign EXCEPT ![p] = foreign[p] + 1]
        /\ foreign[p] < MaxForeign
    BY <1>15 DEF ForeignPost
  <2>2. sem[p] + 1 \in Nat /\ foreign[p] + 1 \in 0 .. MaxForeign
    BY SMTT(40), <1>1, <2>1, ValuesAssumption
  <2>3. sem'[p] = sem[p] + 1 /\ foreign'[p] = foreign[p] + 1
    BY <1>1, <2>1 DEF TypeOK
  <2>4. TypeOK'
    BY <1>1, <1>2, <2>1, <2>2 DEF TypeOK
  <2>5. OpInv(p)' /\ ListInv(p)'
    BY <1>1, <1>2, <1>5, <1>6, <2>1 DEF OpInv, ListInv
  <2>6. Owed(p)' = Owed(p)
    BY <1>2, <2>1 DEF Owed
  <2>7. /\ sem'[p] + extraWaits[p] + Cardinality(Posting(p)) = foreign'[p] + Owed(p)
        /\ extraWaits[p] <= foreign'[p]
    BY SMTT(40), <1>1, <2>3 DEF PostInv
  <2>8. PostInv(p)'
    BY <1>1, <1>7, <2>1, <2>6, <2>7 DEF PostInv
  <2>. QED
    BY <2>4, <2>5, <2>8
<1>. QED
  BY <1>12, <1>13, <1>14, <1>15

\* p puts itself on the list.
LEMMA QueueKeepsBase ==
    ASSUME IInv, Base, NEW p \in Procs, LWLockQueueSelf(p)
    PROVE  Base'
<1>. USE DEF rest, queueVars, semVars
<1>1. /\ TypeOK /\ state \in StateType /\ OpInv(p) /\ ListInv(p) /\ WakeInv(p)
      /\ PostInv(p) /\ Once(waiters) /\ waiters \in Seq(Procs)
  BY DEF Base, TypeOK, StateType
<1>2. PICK l \in {"set_ok", "attempt2"} :
        /\ Goto(p, l) /\ (l = "set_ok" <=> call[p].op = "LWLockWaitForVar")
  BY DEF LWLockQueueSelf
<1>3. /\ pc[p] = "queue_body" /\ pc'[p] = l
      /\ \A q \in Procs : q # p => pc'[q] = pc[q] /\ lwWaiting'[q] = lwWaiting[q]
      /\ lwWaiting' = [lwWaiting EXCEPT ![p] = "waiting"] /\ lwWaiting'[p] = "waiting"
      /\ call' = call /\ owns' = owns /\ wakeup' = wakeup /\ var' = var
      /\ sem' = sem /\ extraWaits' = extraWaits /\ foreign' = foreign
  BY <1>1, <1>2 DEF LWLockQueueSelf, Goto, TypeOK
<1>4. state' \in StateType /\ state'.has_waiters
  <2>1. state' = [state EXCEPT !.has_waiters = TRUE, !.locked = FALSE]
    BY DEF LWLockQueueSelf
  <2>. QED
    BY <1>1, <2>1, StateKept DEF Modes, IInv, Types
<1>5. lwWaiting[p] = "not_waiting" /\ ~On(waiters, p)
  BY <1>1, <1>3 DEF ListInv, Queued
<1>6. /\ waiters' \in Seq(Procs) /\ Once(waiters)'
      /\ \A x : On(waiters, x)' <=> On(waiters, x) \/ x = p
  <2>1. PICK t : /\ t = waiters' /\ (t = <<p>> \o waiters \/ t = Append(waiters, p))
    BY DEF LWLockQueueSelf
  <2>2. t \in Seq(Procs) /\ Once(t) /\ \A x : On(t, x) <=> On(waiters, x) \/ x = p
    BY <1>1, <1>5, <2>1, QueueFacts
  <2>. QED
    BY <2>1, <2>2 DEF On, Once
<1>7. TypeOK'
  BY <1>1, <1>2, <1>3, <1>4, <1>6 DEF TypeOK, StateType, Goto, Labels
<1>8. \A q, r \in Procs : ToClear(q, r)' <=> ToClear(q, r)
  BY <1>2, <1>3 DEF ToClear
<1>9. ASSUME NEW q \in Procs PROVE Posting(q)' = Posting(q)
  BY <1>2, <1>3 DEF Posting
<1>10. ASSUME NEW q \in Procs, q # p
       PROVE  OpInv(q)' /\ ListInv(q)' /\ WakeInv(q)' /\ PostInv(q)'
  BY <1>3, <1>6, <1>8, <1>9, <1>10, Untouched DEF Base
<1>11. OpInv(p)'
  BY <1>1, <1>2, <1>3 DEF OpInv, Queued
<1>12. ListInv(p)'
  BY <1>1, <1>2, <1>3, <1>5, <1>6, <1>8 DEF ListInv, Queued
<1>13. WakeInv(p)'
  BY <1>1, <1>2, <1>3 DEF WakeInv, Waking
<1>14. PostInv(p)'
  <2>1. Owed(p) = 0 /\ Owed(p)' = 0 /\ pc'[p] \in InCall
    BY <1>2, <1>3 DEF Owed, Queued, InCall, Outside
  <2>. QED
    BY <1>1, <1>3, <1>9, <2>1 DEF PostInv
<1>. QED
  BY <1>4, <1>6, <1>7, <1>10, <1>11, <1>12, <1>13, <1>14 DEF Base

\* p takes itself off the list, or finds that it is off.
LEMMA DequeueKeepsBase ==
    ASSUME IInv, Base, NEW p \in Procs, LWLockDequeueSelf(p)
    PROVE  Base'
<1>. USE DEF rest, queueVars, semVars
<1>1. /\ TypeOK /\ state \in StateType /\ OpInv(p) /\ ListInv(p) /\ WakeInv(p)
      /\ PostInv(p) /\ Once(waiters) /\ waiters \in Seq(Procs)
      /\ waiters # <<>> => state.has_waiters
      /\ state.has_waiters \in BOOLEAN
  BY DEF Base, TypeOK, StateType
<1>2. PICK b \in BOOLEAN : b = (state.has_waiters /\ waiters' # <<>>)
  OBVIOUS
<1>3. /\ state' \in StateType /\ state'.has_waiters = b
  <2>1. state' = [state EXCEPT !.has_waiters = b, !.locked = FALSE]
    BY <1>2 DEF LWLockDequeueSelf
  <2>. QED
    BY <1>1, <2>1, StateKept DEF Modes, IInv, Types
<1>4. /\ pc[p] = "dequeue_body" /\ call' = call /\ owns' = owns /\ wakeup' = wakeup
      /\ var' = var /\ sem' = sem /\ extraWaits' = extraWaits /\ foreign' = foreign
  BY DEF LWLockDequeueSelf
<1>5. CASE lwWaiting[p] # "waiting"
  <2>1. /\ Goto(p, "dequeue_flag") /\ pc'[p] = "dequeue_flag"
        /\ waiters' = waiters /\ lwWaiting' = lwWaiting
    BY <1>1, <1>5 DEF LWLockDequeueSelf, Goto, TypeOK
  <2>2. OpInv(p)'
    BY <1>1, <1>4, <2>1 DEF OpInv, Queued
  <2>3. TypeOK'
    BY <1>1, <1>3, <1>4, <2>1, MoveTypes DEF TypeOK, Labels
  <2>4. waiters # <<>> => state'.has_waiters
    BY <1>1, <1>2, <1>3, <2>1
  <2>. QED
    BY <1>4, <1>5, <2>1, <2>2, <2>3, <2>4, MoveKeepsBase
    DEF Labels, Waking, Queued, InCall, Outside
<1>6. CASE lwWaiting[p] = "waiting"
  <2>1. /\ Goto(p, "got") /\ pc'[p] = "got"
        /\ waiters' = Among(waiters, Procs \ {p})
        /\ lwWaiting' = [lwWaiting EXCEPT ![p] = "not_waiting"]
        /\ lwWaiting'[p] = "not_waiting"
        /\ \A q \in Procs : q # p => pc'[q] = pc[q] /\ lwWaiting'[q] = lwWaiting[q]
    BY <1>1, <1>6 DEF LWLockDequeueSelf, Goto, TypeOK
  <2>2. /\ waiters' \in Seq(Procs) /\ Once(waiters)'
        /\ \A x \in Procs : On(waiters, x)' <=> On(waiters, x) /\ x # p
    <3>1. PICK t : t = waiters'
      OBVIOUS
    <3>2. /\ t \in Seq(Procs) /\ Once(t)
          /\ \A x \in Procs : On(t, x) <=> On(waiters, x) /\ x # p
      <4>1. PICK S : S = Procs \ {p}
        OBVIOUS
      <4>2. t = Among(waiters, S)
        BY <2>1, <3>1, <4>1
      <4>3. t \in Seq(Procs) /\ Once(t) /\ \A x : On(t, x) <=> On(waiters, x) /\ x \in S
        BY <1>1, <4>2, AmongKeeps
      <4>. QED
        BY <4>1, <4>3
    <3>. QED
      BY <3>1, <3>2 DEF On, Once
  <2>3. (waiters # <<>> => state.has_waiters)'
    <3>1. waiters' # <<>> => waiters # <<>>
      <4>1. PICK t : t = Among(waiters, Procs \ {p})
        OBVIOUS
      <4>2. t \in Seq(Procs) /\ \A x : On(t, x) => On(waiters, x)
        BY <1>1, <4>1, AmongKeeps
      <4>. QED
        BY <1>1, <2>1, <4>1, <4>2, NothingOn
    <3>. QED
      BY <1>1, <1>2, <1>3, <3>1
  <2>4. TypeOK'
    BY <1>1, <1>3, <1>4, <2>1, <2>2 DEF TypeOK, StateType, Goto, Labels
  <2>5. \A q, r \in Procs : ToClear(q, r)' <=> ToClear(q, r)
    BY <1>4, <2>1 DEF ToClear
  <2>6. ASSUME NEW q \in Procs PROVE Posting(q)' = Posting(q)
    BY <1>4, <2>1 DEF Posting
  <2>7. ASSUME NEW q \in Procs, q # p
        PROVE  OpInv(q)' /\ ListInv(q)' /\ WakeInv(q)' /\ PostInv(q)'
    BY <1>4, <2>1, <2>2, <2>5, <2>6, <2>7, Untouched DEF Base
  <2>8. OpInv(p)'
    BY <2>1 DEF OpInv, Queued
  <2>9. ListInv(p)'
    BY <1>1, <1>6, <2>1, <2>2, <2>5 DEF ListInv
  <2>10. WakeInv(p)'
    BY <1>1, <1>4, <2>1 DEF WakeInv, Waking
  <2>11. PostInv(p)'
    <3>1. Owed(p) = 0 /\ Owed(p)' = 0 /\ pc'[p] \in InCall
      BY <1>6, <2>1 DEF Owed, Queued, InCall, Outside
    <3>. QED
      BY <1>1, <1>4, <2>6, <3>1 DEF PostInv
  <2>. QED
    BY <2>2, <2>3, <2>4, <2>7, <2>8, <2>9, <2>10, <2>11 DEF Base
<1>. QED
  BY <1>5, <1>6

\* p takes waiters off the list to wake them up.
LEMMA TakeOffKeepsBase ==
    ASSUME IInv, Base, NEW p \in Procs, NEW W, \A x \in W : On(waiters, x),
           TakeOff(p, W), pc[p] \in {"wake_body", "update_body"},
           state' \in StateType, waiters' # <<>> => state'.has_waiters,
           sem' = sem, extraWaits' = extraWaits, foreign' = foreign,
           var' = var, call' = call, owns' = owns
    PROVE  Base'
<1>1. /\ TypeOK /\ OpInv(p) /\ ListInv(p) /\ WakeInv(p) /\ PostInv(p)
      /\ Once(waiters) /\ waiters \in Seq(Procs)
  BY DEF Base, TypeOK
<1>2. PICK l \in {"idle", "held", "wake_clear"} :
        Goto(p, l) /\ (l = "wake_clear" <=> W # {})
  BY DEF TakeOff, Back
<1>3. /\ pc'[p] = l
      /\ \A q \in Procs : q # p => pc'[q] = pc[q] /\ wakeup'[q] = wakeup[q]
      /\ \A q \in Procs : q \in W => lwWaiting'[q] = "pending_wakeup"
      /\ \A q \in Procs : q \notin W => lwWaiting'[q] = lwWaiting[q]
      /\ wakeup'[p] = Among(waiters, W) /\ waiters' = Among(waiters, Procs \ W)
  BY <1>1, <1>2 DEF TakeOff, Goto, TypeOK
<1>4. /\ waiters' \in Seq(Procs) /\ Once(waiters)'
      /\ \A x \in Procs : On(waiters, x)' <=> On(waiters, x) /\ x \notin W
  <2>1. PICK t : t = waiters'
    OBVIOUS
  <2>2. /\ t \in Seq(Procs) /\ Once(t)
        /\ \A x \in Procs : On(t, x) <=> On(waiters, x) /\ x \notin W
    <3>1. PICK S : S = Procs \ W
      OBVIOUS
    <3>2. t = Among(waiters, S) /\ \A x \in Procs : x \in S <=> x \notin W
      BY <1>3, <2>1, <3>1
    <3>. QED
      BY <1>1, <3>2, AmongKeeps
  <2>. QED
    BY <2>1, <2>2 DEF On, Once
<1>5. PICK u : u = Among(waiters, W)
  OBVIOUS
<1>6. /\ u \in Seq(Procs) /\ Once(u) /\ wakeup'[p] = u
      /\ \A x : On(u, x) <=> x \in W
  BY <1>1, <1>3, <1>5, AmongKeeps
<1>7. u # <<>> <=> W # {}
  BY <1>6, NothingOn
<1>8. TypeOK'
  <2>1. wakeup' \in [Procs -> Seq(Procs)]
    <3>1. wakeup' = [wakeup EXCEPT ![p] = u]
      BY <1>5 DEF TakeOff
    <3>. QED
      BY <1>1, <1>6, <3>1 DEF TypeOK
  <2>2. lwWaiting' \in [Procs -> {"not_waiting", "waiting", "pending_wakeup"}]
    BY <1>1 DEF TypeOK, TakeOff
  <2>3. pc' \in [Procs -> Labels]
    BY <1>1, <1>2 DEF TypeOK, Goto, Labels
  <2>. QED
    BY <1>1, <1>4, <2>1, <2>2, <2>3 DEF TypeOK, StateType
<1>9. /\ \A x \in Procs : ~ToClear(p, x) /\ (ToClear(p, x)' <=> x \in W)
      /\ \A q, x \in Procs : q # p => (ToClear(q, x)' <=> ToClear(q, x))
  <2>1. wakeup[p] = <<>> /\ DOMAIN <<>> = {}
    BY SMTT(40), <1>1 DEF WakeInv, Waking
  <2>2. \A x \in Procs : ~ToClear(p, x)
    BY <2>1 DEF ToClear
  <2>3. \A x \in Procs : ToClear(p, x)' <=> x \in W
    BY <1>2, <1>3, <1>6 DEF ToClear, On
  <2>4. \A q, x \in Procs : q # p => (ToClear(q, x)' <=> ToClear(q, x))
    BY <1>3 DEF ToClear
  <2>. QED
    BY <2>2, <2>3, <2>4
<1>10. ASSUME NEW q \in Procs PROVE Posting(q)' = Posting(q)
  BY <1>2, <1>3 DEF Posting
<1>11. p \notin W /\ lwWaiting[p] = "not_waiting"
  BY <1>1 DEF ListInv, Queued
<1>12. ASSUME NEW q \in Procs, q # p, q \notin W
       PROVE  OpInv(q)' /\ ListInv(q)' /\ WakeInv(q)' /\ PostInv(q)'
  <2>1. \A r \in Procs : ToClear(r, q)' <=> ToClear(r, q)
    BY <1>9, <1>12
  <2>. QED
    BY <1>3, <1>4, <1>10, <1>12, <2>1, Untouched DEF Base
<1>13. ASSUME NEW q \in Procs, q \in W
       PROVE  OpInv(q)' /\ ListInv(q)' /\ WakeInv(q)' /\ PostInv(q)'
  <2>1. /\ OpInv(q) /\ ListInv(q) /\ WakeInv(q) /\ PostInv(q) /\ q # p
        /\ pc'[q] = pc[q] /\ wakeup'[q] = wakeup[q]
        /\ lwWaiting'[q] = "pending_wakeup"
    BY <1>3, <1>11, <1>13 DEF Base
  <2>2. lwWaiting[q] = "waiting" /\ ~ \E r \in Procs : ToClear(r, q)
    BY <1>13, <2>1 DEF ListInv
  <2>3. OpInv(q)' /\ WakeInv(q)'
    BY <2>1 DEF OpInv, WakeInv
  <2>4. \A r \in Procs : ToClear(r, q)' <=> r = p
    BY <1>9, <1>13, <2>2
  <2>5. ListInv(q)'
    BY <1>4, <1>13, <2>1, <2>2, <2>4 DEF ListInv
  <2>6. Owed(q)' = Owed(q)
    BY <2>1, <2>2 DEF Owed
  <2>7. PostInv(q)'
    BY <1>10, <2>1, <2>6 DEF PostInv
  <2>. QED
    BY <2>3, <2>5, <2>7
<1>14. OpInv(p)' /\ WakeInv(p)'
  BY <1>2, <1>3, <1>6, <1>7 DEF OpInv, WakeInv, Queued, Waking
<1>15. ListInv(p)'
  <2>1. \A r \in Procs : ToClear(r, p)' <=> ToClear(r, p)
    BY <1>9, <1>11
  <2>. QED
    BY <1>1, <1>3, <1>4, <1>11, <2>1 DEF ListInv
<1>16. PostInv(p)'
  <2>1. Owed(p) = 0 /\ Owed(p)' = 0 /\ pc[p] \notin InCall
    BY <1>2, <1>3 DEF Owed, Queued, InCall, Outside
  <2>. QED
    BY <1>1, <1>10, <2>1 DEF PostInv
<1>. QED
  BY <1>4, <1>8, <1>11, <1>12, <1>13, <1>14, <1>15, <1>16 DEF Base

\* Whom a release wakes is on the list, and somebody is woken whenever
\* somebody is on it.
LEMMA ToWakeFacts ==
    ASSUME TypeOK
    PROVE  /\ \A x \in ToWake : On(waiters, x)
           /\ waiters # <<>> => ToWake # {}
<1>. DEFINE at(i) == lwWaitMode(waiters[i])
            Lockers == {i \in DOMAIN waiters : at(i) # "until_free"}
            First == {i \in Lockers : \A j \in Lockers : i <= j}
            Taken == {i \in DOMAIN waiters :
                         IF \E f \in First : at(f) = "exclusive"
                         THEN \A f \in First : i <= f
                         ELSE at(i) # "exclusive"}
<1>1. ToWake = {waiters[i] : i \in Taken}
  BY DEF ToWake
<1>2. \A x \in ToWake : On(waiters, x)
  BY <1>1 DEF On
<1>3. ASSUME waiters # <<>> PROVE \E i \in DOMAIN waiters : i \in Taken
  <2>1. 1 \in DOMAIN waiters /\ \A j \in DOMAIN waiters : 1 <= j
    BY SMTT(40), <1>3 DEF TypeOK
  <2>2. CASE \E f \in First : at(f) = "exclusive"
    <3>1. PICK f \in First : at(f) = "exclusive"
      BY <2>2
    <3>2. \A g \in First : f <= g
      BY <3>1
    <3>. QED
      BY <2>2, <3>1, <3>2
  <2>3. CASE ~ \E f \in First : at(f) = "exclusive"
    <3>1. CASE at(1) = "exclusive"
      BY <2>1, <2>3, <3>1
    <3>2. CASE at(1) # "exclusive"
      BY <2>1, <2>3, <3>2
    <3>. QED
      BY <3>1, <3>2
  <2>. QED
    BY <2>2, <2>3
<1>. QED
  <2>. HIDE DEF Taken
  <2>. QED
    BY <1>1, <1>2, <1>3

\* The sections of LWLockWakeup and LWLockUpdateVar under the wait list lock.
LEMMA WakeupKeepsBase ==
    ASSUME IInv, Base, NEW p \in Procs, LWLockWakeup(p) \/ WakeForVar(p)
    PROVE  Base'
<1>. USE DEF semVars
<1>1. /\ TypeOK /\ state \in StateType /\ waiters \in Seq(Procs)
      /\ waiters # <<>> => state.has_waiters
      /\ state.has_waiters \in BOOLEAN
      /\ DOMAIN state = {"exclusive", "shared", "has_waiters", "release_ok", "locked"}
  BY DEF Base, TypeOK, StateType, IInv, Types
<1>2. ASSUME NEW W, TakeOff(p, W), waiters' # <<>> PROVE waiters # <<>>
  <2>1. waiters' = Among(waiters, Procs \ W)
    BY <1>2 DEF TakeOff
  <2>2. PICK t : t = Among(waiters, Procs \ W)
    OBVIOUS
  <2>3. t \in Seq(Procs) /\ \A x : On(t, x) => On(waiters, x)
    BY <1>1, <2>2, AmongKeeps
  <2>. QED
    BY <1>1, <1>2, <2>1, <2>2, <2>3, NothingOn
<1>3. CASE LWLockWakeup(p)
  <2>1. PICK a \in BOOLEAN, b \in BOOLEAN :
          /\ a = (\A q \in ToWake : UntilFree(q))
          /\ b = (state.has_waiters /\ ToWake # {})
    OBVIOUS
  <2>2. state' = [state EXCEPT !.release_ok = a, !.has_waiters = b, !.locked = FALSE]
    BY <1>3, <2>1 DEF LWLockWakeup
  <2>3. state' \in StateType /\ state'.has_waiters = b
    BY <1>1, <2>2, StateKept DEF Modes
  <2>4. TakeOff(p, ToWake)
    BY <1>3 DEF LWLockWakeup
  <2>5. waiters' # <<>> => state'.has_waiters
    BY <1>1, <1>2, <2>1, <2>3, <2>4, ToWakeFacts
  <2>6. /\ pc[p] = "wake_body" /\ var' = var /\ call' = call /\ owns' = owns
        /\ sem' = sem /\ extraWaits' = extraWaits /\ foreign' = foreign
    BY <1>3 DEF LWLockWakeup
  <2>7. PICK W : W = ToWake
    OBVIOUS
  <2>8. TakeOff(p, W) /\ \A x \in W : On(waiters, x)
    BY <1>1, <2>4, <2>7, ToWakeFacts
  <2>. QED
    BY <2>3, <2>5, <2>6, <2>8, TakeOffKeepsBase
<1>4. CASE WakeForVar(p)
  <2>1. PICK W : /\ W = {waiters[i] : i \in {i \in DOMAIN waiters :
                                \A j \in 1 .. i : UntilFree(waiters[j])}}
                 /\ TakeOff(p, W)
    BY <1>4 DEF WakeForVar
  <2>2. \A x \in W : On(waiters, x)
    BY <2>1 DEF On
  <2>3. state' = [state EXCEPT !.locked = FALSE]
    BY <1>4 DEF WakeForVar
  <2>4. state' \in StateType /\ state'.has_waiters = state.has_waiters
    BY <1>1, <2>3, StateKept DEF Modes
  <2>5. waiters' # <<>> => state'.has_waiters
    BY <1>1, <1>2, <2>1, <2>4
  <2>6. /\ pc[p] = "update_body" /\ var' = var /\ call' = call /\ owns' = owns
        /\ sem' = sem /\ extraWaits' = extraWaits /\ foreign' = foreign
    BY <1>4 DEF WakeForVar
  <2>. QED
    BY <2>1, <2>2, <2>4, <2>5, <2>6, TakeOffKeepsBase
<1>. QED
  BY <1>3, <1>4

\* p resets lwWaiting of the first process on its list.
LEMMA ClearKeepsBase ==
    ASSUME Base, NEW p \in Procs, ClearWaiting(p)
    PROVE  Base'
<1>. USE DEF rest, queueVars, semVars
<1>1. /\ TypeOK /\ OpInv(p) /\ ListInv(p) /\ WakeInv(p) /\ PostInv(p)
      /\ wakeup[p] \in Seq(Procs) /\ pc[p] = "wake_clear" /\ wakeup[p] # <<>>
      /\ Once(wakeup[p])
  BY DEF Base, TypeOK, ClearWaiting, WakeInv, Waking
<1>2. PICK h \in Procs : h = Head(wakeup[p]) /\ h = wakeup[p][1] /\ 1 \in DOMAIN wakeup[p]
  BY <1>1, TailFacts
<1>3. /\ Goto(p, "wake_post") /\ pc'[p] = "wake_post"
      /\ \A q \in Procs : q # p => pc'[q] = pc[q]
      /\ lwWaiting' = [lwWaiting EXCEPT ![h] = "not_waiting"] /\ lwWaiting'[h] = "not_waiting"
      /\ \A q \in Procs : q # h => lwWaiting'[q] = lwWaiting[q]
      /\ state' = state /\ waiters' = waiters /\ wakeup' = wakeup /\ var' = var
      /\ call' = call /\ owns' = owns
      /\ sem' = sem /\ extraWaits' = extraWaits /\ foreign' = foreign
  BY <1>1, <1>2 DEF ClearWaiting, Goto, TypeOK
<1>4. TypeOK'
  BY <1>1, <1>3 DEF TypeOK, Goto, Labels
<1>5. ToClear(p, h) /\ lwWaiting[h] = "pending_wakeup" /\ h # p /\ pc[h] \in Queued
  <2>1. ToClear(p, h)
    BY <1>1, <1>2 DEF ToClear
  <2>2. lwWaiting[h] = "pending_wakeup" /\ pc[h] \in Queued
    BY <2>1 DEF Base, ListInv
  <2>. QED
    BY <1>1, <2>1, <2>2 DEF Queued
<1>6. /\ \A x \in Procs : ToClear(p, x)' <=> ToClear(p, x) /\ x # h
      /\ \A q, x \in Procs : q # p => (ToClear(q, x)' <=> ToClear(q, x))
  <2>1. \A i \in DOMAIN wakeup[p] : wakeup[p][i] = h <=> i = 1
    BY <1>1, <1>2 DEF Once
  <2>2. ASSUME NEW x \in Procs PROVE ToClear(p, x)' <=> ToClear(p, x) /\ x # h
    BY <1>1, <1>3, <2>1 DEF ToClear
  <2>3. \A q, x \in Procs : q # p => (ToClear(q, x)' <=> ToClear(q, x))
    BY <1>3 DEF ToClear
  <2>. QED
    BY <2>2, <2>3
<1>7. \A q \in Procs : On(waiters, q)' <=> On(waiters, q)
  BY <1>3 DEF On
<1>8. Posting(h)' = Posting(h) \cup {p} /\ p \notin Posting(h)
  BY <1>1, <1>2, <1>3 DEF Posting
<1>9. ASSUME NEW q \in Procs, q # h PROVE Posting(q)' = Posting(q)
  BY <1>1, <1>2, <1>3, <1>9 DEF Posting
<1>10. ASSUME NEW q \in Procs, q # p, q # h
       PROVE  OpInv(q)' /\ ListInv(q)' /\ WakeInv(q)' /\ PostInv(q)'
  <2>1. \A r \in Procs : ToClear(r, q)' <=> ToClear(r, q)
    BY <1>6, <1>10
  <2>. QED
    BY <1>3, <1>7, <1>9, <1>10, <2>1, Untouched DEF Base
<1>11. OpInv(h)' /\ ListInv(h)' /\ WakeInv(h)' /\ PostInv(h)'
  <2>1. OpInv(h) /\ ListInv(h) /\ WakeInv(h) /\ PostInv(h) /\ pc'[h] = pc[h]
    BY <1>3, <1>5 DEF Base
  <2>2. OpInv(h)' /\ WakeInv(h)'
    BY <1>3, <2>1 DEF OpInv, WakeInv
  <2>3. ~ \E r \in Procs : ToClear(r, h)'
    BY <1>5, <1>6, <2>1 DEF ListInv
  <2>4. ListInv(h)'
    BY <1>3, <1>5, <1>7, <2>1, <2>3 DEF ListInv
  <2>5. Owed(h) = 0 /\ Owed(h)' = 1
    BY <1>3, <1>5, <2>1 DEF Owed
  <2>6. Cardinality(Posting(h) \cup {p}) = Cardinality(Posting(h)) + 1
    BY <1>8, PostingFinite, FS_AddElement
  <2>7. /\ sem[h] \in Nat /\ extraWaits[h] \in Nat /\ foreign[h] \in 0 .. MaxForeign
        /\ Cardinality(Posting(h)) \in Nat
    BY <1>1, PostingFinite DEF TypeOK
  <2>8. sem[h] + extraWaits[h] + Cardinality(Posting(h)) = foreign[h]
    BY SMTT(40), <2>1, <2>5, <2>7 DEF PostInv
  <2>9. sem[h] + extraWaits[h] + (Cardinality(Posting(h)) + 1) = foreign[h] + 1
    BY SMTT(40), <2>7, <2>8
  <2>10. PostInv(h)'
    BY <1>3, <1>8, <2>1, <2>5, <2>6, <2>9 DEF PostInv
  <2>. QED
    BY <2>2, <2>4, <2>10
<1>12. OpInv(p)' /\ WakeInv(p)'
  BY <1>1, <1>3 DEF OpInv, WakeInv, Queued, Waking
<1>13. ListInv(p)'
  <2>1. \A r \in Procs : ToClear(r, p)' <=> ToClear(r, p)
    BY <1>5, <1>6
  <2>2. lwWaiting[p] = "not_waiting"
    BY <1>1 DEF ListInv, Queued
  <2>. QED
    BY <1>1, <1>3, <1>5, <1>7, <2>1, <2>2 DEF ListInv
<1>14. PostInv(p)'
  <2>1. Owed(p) = 0 /\ Owed(p)' = 0 /\ pc[p] \notin InCall
    BY <1>1, <1>3 DEF Owed, Queued, InCall, Outside
  <2>. QED
    BY <1>1, <1>3, <1>5, <1>9, <2>1 DEF PostInv
<1>15. Once(waiters)' /\ (waiters # <<>> => state.has_waiters)'
  BY <1>3 DEF Base, Once
<1>. QED
  BY <1>4, <1>10, <1>11, <1>12, <1>13, <1>14, <1>15 DEF Base

\* p posts the semaphore of the first process on its list and forgets it.
LEMMA PostKeepsBase ==
    ASSUME Base, NEW p \in Procs, PostWaiter(p)
    PROVE  Base'
<1>. USE DEF rest, queueVars, semVars
<1>1. /\ TypeOK /\ OpInv(p) /\ ListInv(p) /\ WakeInv(p) /\ PostInv(p)
      /\ wakeup[p] \in Seq(Procs) /\ pc[p] = "wake_post" /\ wakeup[p] # <<>>
      /\ Once(wakeup[p])
  BY DEF Base, TypeOK, PostWaiter, WakeInv, Waking
<1>2. PICK h \in Procs, t \in Seq(Procs) :
        /\ h = Head(wakeup[p]) /\ h = wakeup[p][1] /\ t = Tail(wakeup[p]) /\ Once(t)
        /\ \A x : On(t, x) <=> \E i \in DOMAIN wakeup[p] : i # 1 /\ wakeup[p][i] = x
  BY <1>1, TailFacts
<1>3. PICK l \in {"idle", "held", "wake_clear"} :
        Goto(p, l) /\ (l = "wake_clear" <=> t # <<>>)
  BY <1>2 DEF PostWaiter, Back
<1>4. /\ pc'[p] = l /\ \A q \in Procs : q # p => pc'[q] = pc[q]
      /\ sem' = [sem EXCEPT ![h] = sem[h] + 1] /\ sem'[h] = sem[h] + 1
      /\ \A q \in Procs : q # h => sem'[q] = sem[q]
      /\ wakeup' = [wakeup EXCEPT ![p] = t] /\ wakeup'[p] = t
      /\ \A q \in Procs : q # p => wakeup'[q] = wakeup[q]
      /\ state' = state /\ waiters' = waiters /\ lwWaiting' = lwWaiting /\ var' = var
      /\ call' = call /\ owns' = owns
      /\ extraWaits' = extraWaits /\ foreign' = foreign
  <2>1. /\ pc \in [Procs -> Labels] /\ DOMAIN sem = Procs /\ DOMAIN wakeup = Procs
    BY <1>1 DEF TypeOK
  <2>2. /\ pc'[p] = l /\ \A q \in Procs : q # p => pc'[q] = pc[q]
    BY <1>3, <2>1 DEF Goto
  <2>3. /\ sem' = [sem EXCEPT ![h] = sem[h] + 1]
        /\ wakeup' = [wakeup EXCEPT ![p] = t]
        /\ state' = state /\ waiters' = waiters /\ lwWaiting' = lwWaiting /\ var' = var
        /\ call' = call /\ owns' = owns
        /\ extraWaits' = extraWaits /\ foreign' = foreign
    BY <1>2 DEF PostWaiter
  <2>4. sem'[h] = sem[h] + 1 /\ \A q \in Procs : q # h => sem'[q] = sem[q]
    BY <2>1, <2>3
  <2>5. wakeup'[p] = t /\ \A q \in Procs : q # p => wakeup'[q] = wakeup[q]
    BY <2>1, <2>3
  <2>. QED
    BY <2>2, <2>3, <2>4, <2>5
<1>5. /\ sem[h] \in Nat /\ extraWaits[h] \in Nat /\ foreign[h] \in 0 .. MaxForeign
      /\ Cardinality(Posting(h)) \in Nat /\ sem[h] + 1 \in Nat
  <2>1. /\ sem[h] \in Nat /\ extraWaits[h] \in Nat /\ foreign[h] \in 0 .. MaxForeign
        /\ Cardinality(Posting(h)) \in Nat
    BY <1>1, PostingFinite DEF TypeOK
  <2>. QED
    BY SMTT(40), <2>1
<1>6. TypeOK'
  BY <1>1, <1>3, <1>4, <1>5 DEF TypeOK, Goto, Labels
<1>7. \A q, x \in Procs : ToClear(q, x)' <=> ToClear(q, x)
  <2>1. ASSUME NEW x \in Procs PROVE ToClear(p, x)' <=> ToClear(p, x)
    <3>1. ToClear(p, x) <=> On(t, x)
      BY <1>1, <1>2 DEF ToClear
    <3>2. ToClear(p, x)' <=> On(t, x)
      BY <1>3, <1>4 DEF ToClear, On
    <3>. QED
      BY <3>1, <3>2
  <2>2. \A q, x \in Procs : q # p => (ToClear(q, x)' <=> ToClear(q, x))
    BY <1>4 DEF ToClear
  <2>. QED
    BY <2>1, <2>2
<1>8. \A q \in Procs : On(waiters, q)' <=> On(waiters, q)
  BY <1>4 DEF On
<1>9. Posting(h)' = Posting(h) \ {p} /\ p \in Posting(h)
  <2>1. p \in Posting(h)
    BY <1>1, <1>2 DEF Posting
  <2>2. p \notin Posting(h)'
    BY <1>3, <1>4 DEF Posting
  <2>3. \A q : q # p => (q \in Posting(h)' <=> q \in Posting(h))
    BY <1>4 DEF Posting
  <2>. QED
    BY <2>1, <2>2, <2>3
<1>10. ASSUME NEW q \in Procs, q # h PROVE Posting(q)' = Posting(q)
  BY <1>1, <1>2, <1>3, <1>4, <1>10 DEF Posting
<1>11. ASSUME NEW q \in Procs, q # p, q # h
       PROVE  OpInv(q)' /\ ListInv(q)' /\ WakeInv(q)' /\ PostInv(q)'
  BY <1>4, <1>7, <1>8, <1>10, <1>11, Untouched DEF Base
<1>12. ASSUME NEW q \in Procs PROVE ListInv(q)'
  <2>1. lwWaiting[p] = "not_waiting"
    BY <1>1 DEF ListInv, Queued
  <2>. QED
    BY <1>4, <1>7, <1>8, <2>1 DEF Base, ListInv
<1>13. OpInv(p)' /\ WakeInv(p)'
  BY <1>1, <1>2, <1>3, <1>4 DEF OpInv, WakeInv, Queued, Waking
<1>14. ASSUME h # p PROVE OpInv(h)' /\ WakeInv(h)'
  <2>1. OpInv(h) /\ WakeInv(h)
    BY DEF Base
  <2>2. pc'[h] = pc[h] /\ call' = call /\ owns' = owns /\ wakeup'[h] = wakeup[h]
    BY <1>4, <1>14
  <2>. QED
    BY <2>1, <2>2 DEF OpInv, WakeInv
<1>15. PostInv(h)'
  <2>1. PostInv(h) /\ (pc'[h] \notin InCall => extraWaits[h] = 0)
    BY <1>1, <1>4 DEF Base, PostInv, InCall, Outside
  <2>2. Owed(h)' = Owed(h) /\ Owed(h) \in {0, 1}
    BY <1>1, <1>3, <1>4 DEF Owed, Queued
  <2>3. Cardinality(Posting(h) \ {p}) = Cardinality(Posting(h)) - 1
    BY <1>9, PostingFinite, FS_RemoveElement
  <2>4. (sem[h] + 1) + extraWaits[h] + (Cardinality(Posting(h)) - 1)
          = sem[h] + extraWaits[h] + Cardinality(Posting(h))
    <3>1. \A a, b, c \in Nat : (a + 1) + b + (c - 1) = a + b + c
      BY SMTT(40)
    <3>. QED
      BY <1>5, <3>1
  <2>. QED
    BY <1>4, <1>9, <2>1, <2>2, <2>3, <2>4 DEF PostInv
<1>16. h # p => PostInv(p)'
  <2>1. Owed(p) = 0 /\ Owed(p)' = 0 /\ pc[p] \notin InCall
    BY <1>1, <1>3, <1>4 DEF Owed, Queued, InCall, Outside
  <2>. QED
    BY <1>1, <1>4, <1>10, <2>1 DEF PostInv
<1>17. Once(waiters)' /\ (waiters # <<>> => state.has_waiters)'
  BY <1>4 DEF Base, Once
<1>. QED
  BY <1>6, <1>11, <1>12, <1>13, <1>14, <1>15, <1>16, <1>17 DEF Base

\* The lists are empty and the semaphores zero at first.
LEMMA InitBase == Init => Base
<1>. SUFFICES ASSUME Init PROVE Base
  OBVIOUS
<1>. USE DEF Init
<1>1. TypeOK
  <2>1. NoCall \in Calls
    <3>1. PICK o \in Ops \ {"LWLockUpdateVar"} : TRUE
      BY OpsAssumption
    <3>2. Unused \in Values
      BY ValuesAssumption DEF Unused
    <3>3. CASE o = "LWLockWaitForVar"
      <4>1. [op |-> o, mode |-> "shared", oldval |-> Unused] \in Calls
        BY SMTT(40), <3>2, <3>3 DEF Calls
      <4>. QED
        BY <4>1 DEF NoCall
    <3>4. CASE o # "LWLockWaitForVar"
      <4>1. [op |-> o, mode |-> "shared", oldval |-> Unused] \in Calls
        BY SMTT(40), <3>4 DEF Calls, Modes
      <4>. QED
        BY <4>1 DEF NoCall
    <3>. QED
      BY <3>3, <3>4
  <2>2. waiters \in Seq(Procs) /\ <<>> \in Seq(Procs) /\ 0 \in 0 .. MaxForeign
    BY SMTT(40), ValuesAssumption DEF LWLockInitialize
  <2>3. state \in StateType
    BY DEF LWLockInitialize, StateType
  <2>. QED
    BY <2>1, <2>2, <2>3 DEF TypeOK, StateType, Labels
<1>2. DOMAIN <<>> = {} /\ waiters = <<>>
  BY SMTT(40) DEF LWLockInitialize
<1>3. ASSUME NEW p \in Procs PROVE OpInv(p) /\ ListInv(p) /\ WakeInv(p)
  BY <1>2 DEF OpInv, ListInv, WakeInv, On, Once, ToClear, Queued, Waking
<1>4. ASSUME NEW p \in Procs PROVE PostInv(p)
  <2>1. Posting(p) = {} /\ Cardinality({}) = 0
    BY FS_EmptySet DEF Posting
  <2>2. Owed(p) = 0 /\ sem[p] = 0 /\ extraWaits[p] = 0 /\ foreign[p] = 0
    BY DEF Owed, Queued
  <2>. QED
    BY SMTT(40), <2>1, <2>2 DEF PostInv
<1>. QED
  BY <1>1, <1>2, <1>3, <1>4 DEF Base, Once

\* Every step keeps the invariant.
LEMMA NextBase == IInv /\ Base /\ [Next]_vars => Base'
<1>. SUFFICES ASSUME IInv, Base, [Next]_vars PROVE Base'
  OBVIOUS
<1>1. ASSUME NEW p \in Procs, Step(p) PROVE Base'
  BY <1>1, WaitKeepsBase, LockKeepsBase, SleepKeepsBase, QueueKeepsBase,
     DequeueKeepsBase, WakeupKeepsBase, ClearKeepsBase, PostKeepsBase DEF Step
<1>2. ASSUME NEW p \in Procs, NewCall(p) \/ ForeignPost(p) PROVE Base'
  BY <1>2, LockKeepsBase, SleepKeepsBase
<1>3. CASE UNCHANGED vars
  <2>1. TypeOK' /\ Once(waiters)' /\ (waiters # <<>> => state.has_waiters)'
    BY <1>3 DEF vars, Base, TypeOK, Once
  <2>2. ASSUME NEW q \in Procs
        PROVE  OpInv(q)' /\ ListInv(q)' /\ WakeInv(q)' /\ PostInv(q)'
    <3>1. \A r \in Procs : ToClear(r, q)' <=> ToClear(r, q)
      BY <1>3 DEF vars, ToClear
    <3>2. Posting(q)' = Posting(q) /\ (On(waiters, q)' <=> On(waiters, q))
      BY <1>3 DEF vars, Posting, On
    <3>. QED
      BY <1>3, <3>1, <3>2, Untouched DEF vars, Base
  <2>. QED
    BY <2>1, <2>2 DEF Base
<1>. QED
  BY <1>1, <1>2, <1>3 DEF Next

\* In every reachable state lwWaiting says on which list a process is, and the
\* posts of each semaphore are accounted for.
THEOREM LockBase == Spec => []Base
BY InitBase, NextBase, LockInvariant, PTL DEF Spec

\* How often a process is on a list without repetitions.
LEMMA TimesFacts ==
    ASSUME NEW s, Once(s), NEW p
    PROVE  /\ On(s, p) => Cardinality({i \in DOMAIN s : s[i] = p}) = 1
           /\ ~On(s, p) => Cardinality({i \in DOMAIN s : s[i] = p}) = 0
<1>1. ASSUME NEW k \in DOMAIN s, s[k] = p
      PROVE  {i \in DOMAIN s : s[i] = p} = {k}
  BY <1>1 DEF Once
<1>2. ~On(s, p) => {i \in DOMAIN s : s[i] = p} = {}
  BY DEF On
<1>3. Cardinality({}) = 0 /\ \A k : Cardinality({k}) = 1
  BY FS_EmptySet, FS_Singleton
<1>. QED
  BY <1>1, <1>2, <1>3 DEF On

\* A process that waits is on the wait list, once, or on the list of exactly
\* one process that wakes it up, and LW_FLAG_HAS_WAITERS is set whenever
\* somebody is queued, for any finite number of processes (LWLockQueueSelf,
\* LWLockDequeueSelf, LWLockWakeup).
THEOREM LockQueuesOnce == Spec => []QueuedOnce
<1>1. ASSUME Base PROVE QueuedOnce
  <2>. DEFINE times(p, s) == Cardinality({i \in DOMAIN s : s[i] = p})
              Wakers(p) == {q \in Procs : /\ times(p, wakeup[q]) # 0
                                          /\ ~(pc[q] = "wake_post" /\ Head(wakeup[q]) = p)}
  <2>1. 0 # 1
    BY SMTT(40)
  <2>2. ASSUME NEW p \in Procs
        PROVE  times(p, waiters) = (IF lwWaiting[p] = "waiting" THEN 1 ELSE 0)
    <3>1. Once(waiters) /\ (On(waiters, p) <=> lwWaiting[p] = "waiting")
      BY <1>1 DEF Base, ListInv
    <3>. QED
      BY <3>1, TimesFacts
  <2>3. ASSUME NEW p \in Procs, NEW q \in Procs
        PROVE  q \in Wakers(p) <=> ToClear(q, p)
    <3>1. /\ wakeup[q] \in Seq(Procs) /\ Once(wakeup[q])
          /\ wakeup[q] # <<>> <=> pc[q] \in Waking
      BY <1>1 DEF Base, TypeOK, WakeInv
    <3>2. times(p, wakeup[q]) # 0 <=> On(wakeup[q], p)
      <4>1. /\ On(wakeup[q], p) => times(p, wakeup[q]) = 1
            /\ ~On(wakeup[q], p) => times(p, wakeup[q]) = 0
        BY <3>1, TimesFacts
      <4>. HIDE DEF times
      <4>. QED
        BY <2>1, <4>1
    <3>3. pc[q] = "wake_post" => Head(wakeup[q]) = wakeup[q][1] /\ 1 \in DOMAIN wakeup[q]
      BY <3>1, TailFacts DEF Waking
    <3>4. (On(wakeup[q], p) /\ ~(pc[q] = "wake_post" /\ Head(wakeup[q]) = p)) <=> ToClear(q, p)
      BY <3>1, <3>3 DEF On, ToClear, Once
    <3>. QED
      BY <3>2, <3>4
  <2>4. ASSUME NEW p \in Procs
        PROVE  Cardinality(Wakers(p)) = (IF lwWaiting[p] = "pending_wakeup" THEN 1 ELSE 0)
    <3>. HIDE DEF times
    <3>1. ListInv(p) /\ Wakers(p) \subseteq Procs
      BY <1>1 DEF Base
    <3>. HIDE DEF Wakers
    <3>2. CASE lwWaiting[p] = "pending_wakeup"
      <4>1. PICK q \in Procs : ToClear(q, p)
        BY <3>1, <3>2 DEF ListInv
      <4>2. Wakers(p) = {q}
        BY <2>3, <3>1, <4>1 DEF ListInv
      <4>. QED
        BY <3>2, <4>2, FS_Singleton
    <3>3. CASE lwWaiting[p] # "pending_wakeup"
      <4>1. Wakers(p) = {}
        BY <2>3, <3>1, <3>3 DEF ListInv
      <4>. QED
        BY <3>3, <4>1, FS_EmptySet
    <3>. QED
      BY <3>2, <3>3
  <2>5. ASSUME NEW p \in Procs, pc[p] = "queue" PROVE lwWaiting[p] = "not_waiting"
    BY <1>1, <2>5 DEF Base, ListInv, Queued
  <2>. QED
    BY <1>1, <2>2, <2>4, <2>5 DEF QueuedOnce, Base
<1>. QED
  BY <1>1, LockBase, PTL

\* Between calls a semaphore holds the posts of its other users and nothing
\* else, but for a wakeup that is still to be posted: every post that a call
\* absorbed is given back, once (LWLockAcquire, PGSemaphoreUnlock).
THEOREM LockBalancesPosts == Spec => []PostsBalance
<1>1. ASSUME Base, NEW p \in Procs, pc[p] \in {"idle", "held"}
      PROVE  sem[p] + Cardinality(Posting(p)) = foreign[p]
  <2>1. /\ PostInv(p) /\ sem[p] \in Nat /\ foreign[p] \in 0 .. MaxForeign
        /\ Cardinality(Posting(p)) \in Nat
    BY <1>1, PostingFinite DEF Base, TypeOK
  <2>2. extraWaits[p] = 0 /\ Owed(p) = 0
    BY <1>1, <2>1 DEF PostInv, Owed, Queued, InCall, Outside
  <2>. QED
    BY SMTT(40), <2>1, <2>2 DEF PostInv
<1>2. Base => PostsBalance
  BY <1>1 DEF PostsBalance, Posting
<1>. QED
  BY <1>2, LockBase, PTL

-----------------------------------------------------------------------------
(* Wakeups *)

\* q will see to it that waiters are woken: it owns the lock, was woken to try
\* again, or is about to try or to wake.
Active(q) == owns[q] # "none" \/ Retrying(q) \/ pc[q] \in {"wake", "wake_body", "attempt1"}

\* q has changed the variable, or released, and not yet looked at the list.
Telling(q) == pc[q] \in {"update", "update_body", "release", "wake", "wake_body"}

\* Those that wait until the lock is free are in front of the lockers.
Ordered ==
    \A i, j \in DOMAIN waiters : i < j /\ UntilFree(waiters[j]) => UntilFree(waiters[i])

\* What is so while p is on the list: somebody is active when p sleeps or is
\* about to; a release wakes a process that waits for the variable; and one
\* that sleeps for an old value is about to be told.
ActiveInv(p) ==
    lwWaiting[p] = "waiting" /\ pc[p] \in {"value2", "sleep"} => \E q \in Procs : Active(q)
OkInv(p) ==
    /\ lwWaiting[p] = "waiting" /\ pc[p] \in {"check2", "value2", "sleep"}
    /\ call[p].op = "LWLockWaitForVar"
    => state.release_ok
TellInv(p) ==
    /\ lwWaiting[p] = "waiting" /\ pc[p] = "sleep"
    /\ call[p].op = "LWLockWaitForVar" /\ var # call[p].oldval
    => \E q \in Procs : Telling(q)

WInv ==
    /\ ReleaseOkReturns
    /\ Ordered
    /\ \A p \in Procs : ActiveInv(p) /\ OkInv(p) /\ TellInv(p)

Act(p) == Step(p) \/ NewCall(p) \/ ForeignPost(p)

\* A step of p leaves the places, arguments and ownership of the others alone,
\* and puts nobody else on the list.
OthersKept(p) ==
    \A q \in Procs : q # p =>
        /\ pc'[q] = pc[q] /\ call'[q] = call[q] /\ owns'[q] = owns[q]
        /\ lwWaiting'[q] = "waiting" => lwWaiting[q] = "waiting"

\* Every step of p is like that.
LEMMA Others ==
    ASSUME Base, NEW p \in Procs, Act(p)
    PROVE  OthersKept(p)
<1>. USE DEF rest, queueVars, semVars, Goto
<1>1. TypeOK
  BY DEF Base
<1>2. CASE \/ FirstAttempt(p) \/ SecondAttempt(p) \/ LWLockWaitListLock(p)
           \/ Sleep(p) \/ Retry(p) \/ DequeuedByOther(p) \/ ConflictsWithVar(p)
           \/ CompareVar(p) \/ SetReleaseOk(p) \/ LWLockRelease(p)
  <2>1. call' = call /\ lwWaiting' = lwWaiting
    BY <1>2 DEF FirstAttempt, SecondAttempt, LWLockWaitListLock, Sleep, Retry,
         DequeuedByOther, ConflictsWithVar, CompareVar, SetReleaseOk, LWLockRelease
  <2>2. \A q \in Procs : q # p => pc'[q] = pc[q]
    BY <1>1, <1>2 DEF FirstAttempt, SecondAttempt, LWLockWaitListLock, Sleep, Retry,
         DequeuedByOther, ConflictsWithVar, CompareVar, SetReleaseOk, LWLockRelease, TypeOK
  <2>3. \A q \in Procs : q # p => owns'[q] = owns[q]
    BY <1>1, <1>2 DEF FirstAttempt, SecondAttempt, LWLockWaitListLock, Sleep, Retry,
         DequeuedByOther, ConflictsWithVar, CompareVar, SetReleaseOk, LWLockRelease,
         LWLockAttemptLock, TypeOK
  <2>. QED
    BY <2>1, <2>2, <2>3 DEF OthersKept
<1>3. CASE LWLockQueueSelf(p) \/ LWLockDequeueSelf(p) \/ FixSemaphore(p)
           \/ PostWaiter(p) \/ NewCall(p) \/ ForeignPost(p)
  BY <1>1, <1>3 DEF LWLockQueueSelf, LWLockDequeueSelf, FixSemaphore, PostWaiter,
       NewCall, Begin, LWLockUpdateVar, LWLockReleaseClearVar, ForeignPost, TypeOK, OthersKept
<1>4. CASE LWLockWakeup(p) \/ WakeForVar(p)
  <2>1. PICK W : TakeOff(p, W) /\ call' = call /\ owns' = owns
    BY <1>4 DEF LWLockWakeup, WakeForVar
  <2>. QED
    BY <1>1, <2>1 DEF TakeOff, TypeOK, OthersKept
<1>5. CASE ClearWaiting(p)
  BY <1>1, <1>5 DEF ClearWaiting, TypeOK, OthersKept
<1>. QED
  BY <1>2, <1>3, <1>4, <1>5 DEF Act, Step

\* So the others stay active, and stay to be told.
LEMMA OthersStay ==
    ASSUME NEW p \in Procs, OthersKept(p), NEW q \in Procs, q # p
    PROVE  /\ Retrying(q) => Retrying(q)'
           /\ Active(q) => Active(q)'
           /\ Telling(q) => Telling(q)'
<1>1. Retrying(q) => Retrying(q)'
  BY DEF OthersKept, Retrying, UntilFree, lwWaitMode
<1>. QED
  BY <1>1 DEF OthersKept, Active, Telling

\* A count that is not zero has an owner.
LEMMA SomeOwner ==
    ASSUME IInv, NEW m \in Modes, state[m] # 0
    PROVE  \E q \in Procs : owns[q] = m
<1>1. Cardinality(Owners(m)) # 0 /\ Cardinality({}) = 0
  BY FS_EmptySet DEF IInv, Counted
<1>. QED
  BY <1>1 DEF Owners

\* So has one that is not zero after a step.
LEMMA SomeOwnerNext ==
    ASSUME IInv', NEW m \in Modes, state'[m] # 0
    PROVE  \E q \in Procs : owns'[q] = m
<1>1. Cardinality(Owners(m)') # 0 /\ Cardinality({}) = 0
  BY FS_EmptySet DEF IInv, Counted
<1>. QED
  BY <1>1 DEF Owners

\* Whom a release leaves on the list, it leaves for a locker that it wakes;
\* and it leaves nobody that waits until the lock is free.
LEMMA LeftBehind ==
    ASSUME TypeOK, NEW r, On(waiters, r), r \notin ToWake
    PROVE  /\ \E q \in ToWake : ~UntilFree(q)
           /\ Ordered => ~UntilFree(r)
<1>. DEFINE at(i) == lwWaitMode(waiters[i])
            Lockers == {i \in DOMAIN waiters : at(i) # "until_free"}
            First == {i \in Lockers : \A j \in Lockers : i <= j}
            Taken == {i \in DOMAIN waiters :
                         IF \E f \in First : at(f) = "exclusive"
                         THEN \A f \in First : i <= f
                         ELSE at(i) # "exclusive"}
<1>1. ToWake = {waiters[i] : i \in Taken}
  BY DEF ToWake
<1>2. PICK k \in DOMAIN waiters : waiters[k] = r /\ k \notin Taken
  BY <1>1 DEF On
<1>3. /\ DOMAIN waiters \subseteq Nat
      /\ \A i, j \in DOMAIN waiters : i <= j \/ j < i
  <2>1. waiters \in Seq(Procs)
    BY DEF TypeOK
  <2>2. DOMAIN waiters \subseteq Nat
    BY SMTT(40), <2>1
  <2>3. \A i, j \in Nat : i <= j \/ j < i
    BY SMTT(40)
  <2>. QED
    BY <2>2, <2>3
<1>4. CASE \E f \in First : at(f) = "exclusive"
  <2>1. PICK f \in First : at(f) = "exclusive"
    BY <1>4
  <2>2. f \in Taken /\ waiters[f] \in ToWake /\ ~UntilFree(waiters[f])
    <3>1. f \in Taken
      BY <1>4, <2>1
    <3>. QED
      BY <1>1, <2>1, <3>1 DEF UntilFree
  <2>3. PICK g \in First : ~ (k <= g)
    BY <1>2, <1>4
  <2>4. g < k /\ ~UntilFree(waiters[g])
    BY <1>3, <2>3 DEF UntilFree
  <2>. QED
    BY <1>2, <2>2, <2>4 DEF Ordered
<1>5. CASE ~ \E f \in First : at(f) = "exclusive"
  <2>1. at(k) = "exclusive" /\ k \in Lockers
    BY <1>2, <1>5
  <2>2. PICK f \in Lockers : \A j \in Lockers : f <= j
    <3>1. Lockers \in SUBSET Nat /\ Lockers # {}
      BY <1>3, <2>1
    <3>. HIDE DEF Lockers
    <3>. QED
      BY <3>1, Least
  <2>3. f \in Taken /\ waiters[f] \in ToWake /\ ~UntilFree(waiters[f])
    <3>1. f \in First
      BY <2>2
    <3>2. f \in Taken
      BY <1>5, <3>1
    <3>. QED
      BY <1>1, <3>1, <3>2 DEF UntilFree
  <2>. QED
    BY <1>2, <2>1, <2>3 DEF UntilFree
<1>. QED
  BY <1>4, <1>5

\* A locker that a release takes off the list will try again.
LEMMA WokenRetries ==
    ASSUME Base, NEW p \in Procs, LWLockWakeup(p), NEW q \in ToWake, ~UntilFree(q)
    PROVE  q \in Procs /\ Retrying(q)'
<1>1. TypeOK /\ waiters \in Seq(Procs) /\ On(waiters, q)
  BY ToWakeFacts DEF Base, TypeOK
<1>2. q \in Procs
  BY SMTT(40), <1>1 DEF On
<1>3. /\ lwWaiting[q] = "waiting" /\ pc[q] \in Queued \ {"dequeue_flag", "dequeue_sleep"}
      /\ call[q].op = "LWLockAcquire" /\ OpInv(q)
  BY <1>1, <1>2 DEF Base, ListInv, UntilFree, lwWaitMode
<1>4. pc[q] \in {"attempt2", "dequeue", "dequeue_body", "sleep"} /\ q # p
  BY <1>3 DEF OpInv, Queued, LWLockWakeup
<1>5. lwWaiting'[q] = "pending_wakeup" /\ pc'[q] = pc[q] /\ call' = call
  BY <1>1, <1>2, <1>4 DEF LWLockWakeup, TakeOff, Goto, TypeOK
<1>. QED
  BY <1>2, <1>3, <1>4, <1>5 DEF Retrying, UntilFree, lwWaitMode

\* The arguments of a process on the list stay.
LEMMA QueuedCall ==
    ASSUME Base, NEW p \in Procs, Act(p), NEW q \in Procs, On(waiters, q)
    PROVE  call'[q] = call[q]
<1>1. CASE q # p
  BY <1>1, Others DEF OthersKept
<1>2. CASE q = p
  <2>1. pc[p] \in Queued
    BY <1>2 DEF Base, ListInv
  <2>. QED
    BY <1>2, <2>1 DEF Act, Step, NewCall, Queued, rest, FirstAttempt, SecondAttempt,
       LWLockWaitListLock, LWLockQueueSelf, Sleep, Retry, LWLockDequeueSelf,
       DequeuedByOther, FixSemaphore, ConflictsWithVar, CompareVar, SetReleaseOk,
       LWLockRelease, LWLockWakeup, WakeForVar, ClearWaiting, PostWaiter, Begin,
       LWLockUpdateVar, LWLockReleaseClearVar, ForeignPost
<1>. QED
  BY <1>1, <1>2

\* What is left of an ordered list is ordered.
LEMMA AmongSorted ==
    ASSUME waiters \in Seq(Procs), Ordered, NEW S, NEW t, t = Among(waiters, S),
           NEW i \in DOMAIN t, NEW j \in DOMAIN t, i < j, UntilFree(t[j])
    PROVE  UntilFree(t[i])
<1>1. Lists(t, waiters, S, Len(waiters)) /\ DOMAIN waiters = 1 .. Len(waiters)
  BY SMTT(40), AmongFacts
<1>2. PICK k, l \in 1 .. Len(waiters) : k < l /\ waiters[k] = t[i] /\ waiters[l] = t[j]
  BY <1>1 DEF Lists
<1>. QED
  BY <1>1, <1>2 DEF Ordered

\* Taking processes off the list keeps it ordered.
LEMMA AmongOrdered ==
    ASSUME Base, Ordered, NEW p \in Procs, Act(p), NEW S, waiters' = Among(waiters, S)
    PROVE  Ordered'
<1>1. waiters \in Seq(Procs)
  BY DEF Base, TypeOK
<1>2. PICK t : t = Among(waiters, S)
  OBVIOUS
<1>3. \A i, j \in DOMAIN t : i < j /\ UntilFree(t[j]) => UntilFree(t[i])
  BY <1>1, <1>2, AmongSorted
<1>4. t \in Seq(Procs) /\ \A x : On(t, x) => On(waiters, x)
  BY <1>1, <1>2, AmongKeeps
<1>5. \A i \in DOMAIN t : t[i] \in Procs
  BY SMTT(40), <1>4
<1>6. \A i \in DOMAIN t : call'[t[i]] = call[t[i]]
  BY <1>4, <1>5, QueuedCall DEF On
<1>7. waiters' = t
  BY <1>2
<1>. QED
  BY <1>3, <1>6, <1>7 DEF Ordered, UntilFree, lwWaitMode

\* The place that LWLockQueueSelf chooses keeps the list ordered.
LEMMA QueueOrdered ==
    ASSUME waiters \in Seq(Procs), Ordered, NEW p \in Procs,
           NEW t, t = IF UntilFree(p) THEN <<p>> \o waiters ELSE Append(waiters, p),
           NEW i \in DOMAIN t, NEW j \in DOMAIN t, i < j, UntilFree(t[j])
    PROVE  UntilFree(t[i])
<1>1. PICK s : s = waiters
  OBVIOUS
<1>2. CASE UntilFree(p)
  <2>1. CASE t[i] = p
    BY <1>2, <2>1
  <2>2. CASE t[i] # p
    <3>1. t = <<p>> \o s /\ s \in Seq(Procs)
      BY <1>1, <1>2
    <3>2. /\ i - 1 \in DOMAIN s /\ j - 1 \in DOMAIN s /\ i - 1 < j - 1
          /\ s[i - 1] = t[i] /\ s[j - 1] = t[j]
      BY SMTT(40), <2>2, <3>1
    <3>. QED
      BY <1>1, <3>2 DEF Ordered
  <2>. QED
    BY <2>1, <2>2
<1>3. CASE ~UntilFree(p)
  <2>1. t = Append(s, p) /\ s \in Seq(Procs) /\ t[j] # p
    BY <1>1, <1>3
  <2>2. /\ i \in DOMAIN s /\ j \in DOMAIN s
        /\ s[i] = t[i] /\ s[j] = t[j]
    BY SMTT(40), <2>1
  <2>. QED
    BY <1>1, <2>2 DEF Ordered
<1>. QED
  BY <1>2, <1>3

\* Every step keeps the list ordered.
LEMMA OrderedKept ==
    ASSUME Base, Ordered, NEW p \in Procs, Act(p)
    PROVE  Ordered'
<1>. USE DEF rest, queueVars
<1>1. CASE LWLockQueueSelf(p)
  <2>1. call' = call /\ waiters \in Seq(Procs)
    BY <1>1 DEF LWLockQueueSelf, Base, TypeOK
  <2>2. PICK t : t = IF UntilFree(p) THEN <<p>> \o waiters ELSE Append(waiters, p)
    OBVIOUS
  <2>3. waiters' = t
    BY <1>1, <2>2 DEF LWLockQueueSelf
  <2>4. \A i, j \in DOMAIN t : i < j /\ UntilFree(t[j]) => UntilFree(t[i])
    BY <2>1, <2>2, QueueOrdered
  <2>. QED
    BY <2>1, <2>3, <2>4 DEF Ordered, UntilFree, lwWaitMode
<1>2. CASE LWLockDequeueSelf(p) /\ lwWaiting[p] = "waiting"
  BY <1>2, AmongOrdered DEF LWLockDequeueSelf
<1>3. CASE LWLockWakeup(p) \/ WakeForVar(p)
  BY <1>3, AmongOrdered DEF LWLockWakeup, WakeForVar, TakeOff
<1>4. CASE waiters' = waiters
  <2>1. PICK s : s = waiters
    OBVIOUS
  <2>2. \A i \in DOMAIN s : s[i] \in Procs
    BY SMTT(40), <2>1 DEF Base, TypeOK
  <2>3. \A i \in DOMAIN s : call'[s[i]] = call[s[i]]
    BY <2>1, <2>2, QueuedCall DEF On
  <2>. QED
    BY <1>4, <2>1, <2>3 DEF Ordered, UntilFree, lwWaitMode
<1>. QED
  BY <1>1, <1>2, <1>3, <1>4 DEF Act, Step, NewCall, FirstAttempt, SecondAttempt,
     LWLockWaitListLock, Sleep, Retry, LWLockDequeueSelf, DequeuedByOther, FixSemaphore,
     ConflictsWithVar, CompareVar, SetReleaseOk, LWLockRelease, ClearWaiting, PostWaiter,
     Begin, LWLockUpdateVar, LWLockReleaseClearVar, ForeignPost

\* p waits on the list: it sleeps or is about to, has checked the variable at
\* most once, or sleeps for a value of it.
Settled(p) == lwWaiting[p] = "waiting" /\ pc[p] \in {"value2", "sleep"}
Counting(p) ==
    /\ lwWaiting[p] = "waiting" /\ pc[p] \in {"check2", "value2", "sleep"}
    /\ call[p].op = "LWLockWaitForVar"
Watching(p) ==
    /\ lwWaiting[p] = "waiting" /\ pc[p] = "sleep"
    /\ call[p].op = "LWLockWaitForVar"

\* What a step of p does to the promises above.
OwnKept(p) ==
    /\ Retrying(p) => Retrying(p)' \/ state'.release_ok
    /\ Active(p) => \/ \E q \in Procs : Active(q)'
                    \/ \A r \in Procs : lwWaiting'[r] # "waiting"
    /\ Settled(p)' => Settled(p) \/ \E q \in Procs : Active(q)'
    /\ Counting(p)' => Counting(p) \/ state'.release_ok
    /\ Watching(p)' => var' = call'[p].oldval \/ (Watching(p) /\ call'[p] = call[p])
    /\ state.release_ok /\ ~state'.release_ok =>
           /\ \E q \in Procs : Retrying(q)'
           /\ \A r \in Procs : ~Counting(r)'
    /\ Telling(p) => Telling(p)' \/ \A r \in Procs : ~Watching(r)'
    /\ var' # var => Telling(p)'

\* Steps that take the lock, or find that somebody has it.
LEMMA AttemptOwn ==
    ASSUME IInv, Base, NEW p \in Procs, FirstAttempt(p) \/ SecondAttempt(p)
    PROVE  OwnKept(p)
<1>. USE DEF rest, queueVars
<1>1. /\ TypeOK /\ OpInv(p) /\ call[p].mode \in Modes
      /\ pc[p] \in {"attempt1", "attempt2"} /\ call[p].op # "LWLockWaitForVar"
      /\ lwWaiting' = lwWaiting /\ call' = call /\ var' = var
  BY CallFacts DEF Base, TypeOK, OpInv, FirstAttempt, SecondAttempt
<1>2. state'.release_ok = state.release_ok
  BY <1>1 DEF FirstAttempt, SecondAttempt, LWLockAttemptLock, TypeOK, Modes
<1>3. \E q \in Procs : owns'[q] # "none"
  <2>1. CASE LWLockAttemptLock(p)
    BY <1>1, <2>1 DEF LWLockAttemptLock, TypeOK, Modes
  <2>2. CASE ~LockFree(call[p].mode) /\ owns' = owns
    <3>1. state.exclusive # 0 \/ state.shared # 0
      BY <2>2 DEF LockFree
    <3>2. \E m \in Modes : state[m] # 0
      BY <3>1 DEF Modes
    <3>. QED
      BY <2>2, <3>2, SomeOwner DEF Modes
  <2>. QED
    BY <2>1, <2>2 DEF FirstAttempt, SecondAttempt
<1>4. \E q \in Procs : Active(q)'
  BY <1>3 DEF Active
<1>5. Retrying(p) => Retrying(p)'
  <2>1. ASSUME pc[p] = "attempt2" PROVE pc'[p] \in {"dequeue", "sleep"}
    BY <1>1, <2>1 DEF FirstAttempt, SecondAttempt, Goto, TypeOK
  <2>. QED
    BY <1>1, <2>1 DEF Retrying, UntilFree, lwWaitMode
<1>. QED
  BY <1>1, <1>2, <1>4, <1>5 DEF OwnKept, Counting, Watching, Telling

\* Steps that do not touch the owners and do not wake anybody.
LEMMA MoveOwn ==
    ASSUME IInv, Base, NEW p \in Procs,
           \/ LWLockWaitListLock(p) \/ LWLockQueueSelf(p) \/ Sleep(p) \/ Retry(p)
           \/ LWLockDequeueSelf(p) \/ DequeuedByOther(p) \/ FixSemaphore(p)
           \/ ConflictsWithVar(p) \/ CompareVar(p) \/ SetReleaseOk(p)
           \/ ClearWaiting(p) \/ PostWaiter(p) \/ NewCall(p) \/ ForeignPost(p)
    PROVE  OwnKept(p)
<1>. USE DEF rest, queueVars
<1>1. /\ TypeOK /\ OpInv(p) /\ ListInv(p) /\ pc \in [Procs -> Labels]
      /\ call \in [Procs -> Calls] /\ call[p] \in Calls
  BY DEF Base, TypeOK
<1>2. owns' = owns
  BY DEF LWLockWaitListLock, LWLockQueueSelf, Sleep, Retry, LWLockDequeueSelf,
    DequeuedByOther, FixSemaphore, ConflictsWithVar, CompareVar, SetReleaseOk,
    ClearWaiting, PostWaiter, NewCall, Begin, LWLockUpdateVar, LWLockReleaseClearVar,
    ForeignPost
<1>3. state.release_ok => state'.release_ok
  BY <1>1 DEF LWLockWaitListLock, LWLockQueueSelf, Sleep, Retry, LWLockDequeueSelf,
    DequeuedByOther, FixSemaphore, ConflictsWithVar, CompareVar, SetReleaseOk,
    ClearWaiting, PostWaiter, NewCall, Begin, LWLockUpdateVar, LWLockReleaseClearVar,
    ForeignPost, TypeOK
<1>4. ASSUME Retrying(p)
      PROVE  /\ Retrying(p)' \/ state'.release_ok
             /\ Active(p)'
  <2>1. /\ lwWaiting[p] # "waiting" /\ call[p].op = "LWLockAcquire"
        /\ call[p].mode # "until_free"
        /\ pc[p] \in {"attempt2", "dequeue", "dequeue_body", "dequeue_flag", "sleep", "retry"}
    BY <1>4 DEF Retrying, UntilFree, lwWaitMode
  <2>2. CASE Retry(p)
    BY <1>1, <2>2 DEF Retry, Goto, TypeOK, Active
  <2>3. CASE DequeuedByOther(p)
    <3>1. owns[p] # "none"
      BY <1>1, <2>1, <2>3 DEF OpInv, DequeuedByOther
    <3>. QED
      BY <1>1, <1>2, <2>3, <3>1 DEF DequeuedByOther, TypeOK, Active
  <2>4. CASE LWLockWaitListLock(p) \/ Sleep(p) \/ LWLockDequeueSelf(p) \/ ForeignPost(p)
    <3>1. call' = call /\ lwWaiting'[p] # "waiting"
      BY <2>1, <2>4 DEF LWLockWaitListLock, Sleep, LWLockDequeueSelf, ForeignPost
    <3>2. pc'[p] \in {"attempt2", "dequeue", "dequeue_body", "dequeue_flag", "sleep", "retry"}
      BY <1>1, <2>1, <2>4 DEF LWLockWaitListLock, Sleep, LWLockDequeueSelf, ForeignPost,
         Goto, Woken
    <3>. QED
      BY <2>1, <3>1, <3>2 DEF Active, Retrying, UntilFree, lwWaitMode
  <2>. QED
    BY <2>1, <2>2, <2>3, <2>4 DEF LWLockQueueSelf, FixSemaphore, ConflictsWithVar,
       CompareVar, SetReleaseOk, ClearWaiting, PostWaiter, NewCall, Begin,
       LWLockUpdateVar, LWLockReleaseClearVar
<1>5. ASSUME Active(p) PROVE Active(p)'
  <2>1. CASE owns[p] # "none"
    BY <1>2, <2>1 DEF Active
  <2>2. CASE pc[p] \in {"wake", "wake_body", "attempt1"}
    <3>1. CASE LWLockWaitListLock(p)
      BY <1>1, <2>2, <3>1 DEF LWLockWaitListLock, Goto, Active
    <3>2. CASE ForeignPost(p)
      BY <2>2, <3>2 DEF ForeignPost, Active
    <3>. QED
      BY <2>2, <3>1, <3>2 DEF LWLockQueueSelf, Sleep, Retry, LWLockDequeueSelf,
        DequeuedByOther, FixSemaphore, ConflictsWithVar, CompareVar, SetReleaseOk,
        ClearWaiting, PostWaiter, NewCall, Begin, LWLockUpdateVar, LWLockReleaseClearVar
  <2>. QED
    BY <1>4, <1>5, <2>1, <2>2 DEF Active
<1>6. ASSUME lwWaiting'[p] = "waiting", pc'[p] \in {"check2", "value2", "sleep"}
      PROVE  \/ /\ lwWaiting[p] = "waiting" /\ pc'[p] = pc[p] /\ call'[p] = call[p]
             \/ SetReleaseOk(p) \/ ConflictsWithVar(p) \/ CompareVar(p)
  <2>1. CASE \/ LWLockWaitListLock(p) \/ LWLockQueueSelf(p) \/ Retry(p)
             \/ LWLockDequeueSelf(p) \/ DequeuedByOther(p)
    BY <1>1, <1>6, <2>1 DEF LWLockWaitListLock, LWLockQueueSelf, Retry, LWLockDequeueSelf,
       DequeuedByOther, Goto
  <2>2. CASE FixSemaphore(p) \/ ClearWaiting(p) \/ PostWaiter(p) \/ NewCall(p)
    <3>. USE <1>1, <1>6 DEF Goto, Back
    <3>1. CASE FixSemaphore(p)
      BY <3>1 DEF FixSemaphore
    <3>2. CASE ClearWaiting(p)
      BY <3>2 DEF ClearWaiting
    <3>3. CASE PostWaiter(p)
      BY <3>3 DEF PostWaiter
    <3>4. CASE NewCall(p)
      BY <3>4 DEF NewCall, Begin, LWLockUpdateVar, LWLockReleaseClearVar
    <3>. QED
      BY <2>2, <3>1, <3>2, <3>3, <3>4
  <2>3. CASE Sleep(p)
    <3>1. lwWaiting[p] = "waiting" /\ pc' = pc /\ call' = call
      BY <1>6, <2>3 DEF Sleep
    <3>. QED
      BY <3>1
  <2>4. CASE ForeignPost(p)
    BY <1>6, <2>4 DEF ForeignPost
  <2>. QED
    BY <2>1, <2>2, <2>3, <2>4
<1>7. ASSUME SetReleaseOk(p) \/ ConflictsWithVar(p) \/ CompareVar(p)
      PROVE  /\ call' = call /\ lwWaiting' = lwWaiting /\ var' = var
             /\ pc[p] = "set_ok" => pc'[p] = "check2" /\ state'.release_ok
             /\ pc[p] = "check1" => pc'[p] \in {"value1", "got"}
             /\ pc[p] = "value1" => pc'[p] \in {"queue", "got"}
             /\ pc[p] = "check2" => pc'[p] \in {"value2", "dequeue"}
             /\ pc[p] = "check2" /\ pc'[p] = "value2" => state.exclusive # 0
             /\ pc[p] = "value2" => pc'[p] \in {"sleep", "dequeue"}
             /\ pc[p] = "value2" /\ pc'[p] = "sleep" => var = call[p].oldval
             /\ pc[p] \in {"set_ok", "check1", "value1", "check2", "value2"}
  BY <1>1, <1>7 DEF SetReleaseOk, ConflictsWithVar, CompareVar, Goto, TypeOK
<1>8. ASSUME Settled(p)' PROVE Settled(p) \/ \E q \in Procs : Active(q)'
  <2>1. CASE pc[p] = "check2" /\ state.exclusive # 0
    <3>1. PICK q \in Procs : owns[q] = "exclusive"
      BY <2>1, SomeOwner DEF Modes
    <3>. QED
      BY <1>2, <3>1 DEF Active
  <2>2. lwWaiting'[p] = "waiting" /\ pc'[p] \in {"value2", "sleep"}
    BY <1>8 DEF Settled
  <2>3. CASE SetReleaseOk(p) \/ ConflictsWithVar(p) \/ CompareVar(p)
    BY <1>7, <2>1, <2>2, <2>3 DEF Settled
  <2>. QED
    BY <1>6, <2>2, <2>3 DEF Settled
<1>9. ASSUME Counting(p)' PROVE Counting(p) \/ state'.release_ok
  BY <1>6, <1>7, <1>9 DEF Counting
<1>10. ASSUME Watching(p)'
       PROVE  var' = call'[p].oldval \/ (Watching(p) /\ call'[p] = call[p])
  BY <1>6, <1>7, <1>10 DEF Watching
<1>11. ASSUME Telling(p) PROVE Telling(p)'
  <2>1. CASE LWLockWaitListLock(p)
    BY <1>1, <1>11, <2>1 DEF LWLockWaitListLock, Goto, Telling
  <2>2. CASE ForeignPost(p)
    BY <1>11, <2>2 DEF ForeignPost, Telling
  <2>. QED
    BY <1>11, <2>1, <2>2 DEF Telling, LWLockQueueSelf, Sleep, Retry, LWLockDequeueSelf,
        DequeuedByOther, FixSemaphore, ConflictsWithVar, CompareVar, SetReleaseOk,
        ClearWaiting, PostWaiter, NewCall, Begin, LWLockUpdateVar, LWLockReleaseClearVar
<1>12. var' = var \/ Telling(p)'
  <2>1. CASE LWLockUpdateVar(p) \/ LWLockReleaseClearVar(p)
    BY <1>1, <2>1 DEF LWLockUpdateVar, LWLockReleaseClearVar, Goto, Telling
  <2>. QED
    BY <2>1 DEF LWLockWaitListLock, LWLockQueueSelf, Sleep, Retry, LWLockDequeueSelf,
      DequeuedByOther, FixSemaphore, ConflictsWithVar, CompareVar, SetReleaseOk,
      ClearWaiting, PostWaiter, NewCall, Begin, ForeignPost
<1>. QED
  BY <1>3, <1>4, <1>5, <1>8, <1>9, <1>10, <1>11, <1>12 DEF OwnKept

\* A release that leaves the lock free goes on to wake, or a process is still
\* to try again.
LEMMA ReleaseOwn ==
    ASSUME IInv, IInv', Base, WInv, NEW p \in Procs, LWLockRelease(p)
    PROVE  OwnKept(p)
<1>. USE DEF rest, queueVars
<1>1. /\ TypeOK /\ OpInv(p) /\ PlaceInv(p) /\ pc[p] \in {"held", "release"}
      /\ pc \in [Procs -> Labels] /\ OthersKept(p)
      /\ lwWaiting' = lwWaiting /\ call' = call /\ var' = var
      /\ waiters \in Seq(Procs) /\ (waiters # <<>> => state.has_waiters)
      /\ state.release_ok \in BOOLEAN
  BY Others DEF IInv, Base, TypeOK, LWLockRelease, Act, Step
<1>2. PICK m \in Modes : m = owns[p]
  BY <1>1 DEF PlaceInv, Inside
<1>3. state' = [state EXCEPT ![m] = @ - 1] /\ state'.release_ok = state.release_ok
  BY <1>1, <1>2 DEF LWLockRelease, TypeOK, Modes
<1>4. /\ pc'[p] \in {"wake", "idle"}
      /\ /\ state.has_waiters /\ state.release_ok
         /\ state'.exclusive = 0 /\ state'.shared = 0
         => pc'[p] = "wake"
  BY <1>1 DEF LWLockRelease, Goto
<1>5. ~Retrying(p) /\ ~Settled(p)' /\ ~Counting(p)' /\ ~Watching(p)'
  BY <1>1, <1>4 DEF Retrying, Settled, Counting, Watching
<1>6. ASSUME NEW r \in Procs, lwWaiting'[r] = "waiting" PROVE state.has_waiters
  <2>1. On(waiters, r)
    BY <1>1, <1>6 DEF Base, ListInv
  <2>. QED
    BY <1>1, <2>1, NothingOn
<1>7. \/ \E q \in Procs : Active(q)'
      \/ \A r \in Procs : lwWaiting'[r] # "waiting"
  <2>1. CASE state'.exclusive # 0 \/ state'.shared # 0
    <3>1. \E n \in Modes : state'[n] # 0
      BY <2>1 DEF Modes
    <3>2. PICK q \in Procs : owns'[q] # "none"
      BY <3>1, SomeOwnerNext DEF Modes
    <3>. QED
      BY <3>2 DEF Active
  <2>2. CASE ~state.release_ok
    <3>1. PICK q \in Procs : Retrying(q)
      BY <2>2 DEF WInv, ReleaseOkReturns
    <3>2. Retrying(q)'
      BY <1>1, <1>5, <3>1, OthersStay
    <3>. QED
      BY <3>2 DEF Active
  <2>3. CASE state.has_waiters /\ state.release_ok /\ state'.exclusive = 0 /\ state'.shared = 0
    BY <1>4, <2>3 DEF Active
  <2>. QED
    BY <1>6, <2>1, <2>2, <2>3
<1>8. ASSUME Telling(p), NEW r \in Procs, Watching(r)' PROVE Telling(p)'
  <2>1. m = "exclusive" /\ pc[p] = "release"
    BY <1>1, <1>2, <1>8 DEF Telling, OpInv
  <2>2. state'.exclusive = 0 /\ state'.shared = 0
    <3>1. state.exclusive \in Nat /\ state.exclusive # 0
      BY <1>2, <2>1, OwnerCounted DEF Modes
    <3>2. state.exclusive = 1 /\ state.shared = 0
      BY SMTT(40), <3>1 DEF IInv, Compatible
    <3>3. state'.exclusive = 1 - 1 /\ state'.shared = 0
      BY <1>1, <1>3, <2>1, <3>2 DEF TypeOK
    <3>4. 1 - 1 = 0
      BY SMTT(40)
    <3>. QED
      BY <3>3, <3>4
  <2>3. Counting(r) /\ lwWaiting'[r] = "waiting"
    BY <1>1, <1>5, <1>8 DEF Watching, Counting, OthersKept
  <2>4. state.release_ok
    BY <2>3 DEF WInv, OkInv, Counting
  <2>. QED
    BY <1>4, <1>6, <2>2, <2>3, <2>4 DEF Telling
<1>. QED
  BY <1>1, <1>3, <1>5, <1>7, <1>8 DEF OwnKept

\* LWLockWakeup leaves nobody that waits until the lock is free, and whom it
\* leaves it leaves for a locker that will try again.
LEMMA WakeupOwn ==
    ASSUME Base, Ordered, NEW p \in Procs, LWLockWakeup(p)
    PROVE  OwnKept(p)
<1>1. /\ TypeOK /\ pc[p] = "wake_body" /\ call' = call /\ var' = var
      /\ pc'[p] \in {"wake_clear", "idle", "held"}
      /\ state'.release_ok = \A q \in ToWake : UntilFree(q)
  BY DEF Base, LWLockWakeup, TakeOff, Goto, Back, TypeOK
<1>2. ~Retrying(p) /\ ~Settled(p)' /\ ~Counting(p)' /\ ~Watching(p)'
  BY <1>1 DEF Retrying, Settled, Counting, Watching
<1>3. ASSUME NEW r \in Procs, lwWaiting'[r] = "waiting"
      PROVE  On(waiters, r) /\ r \notin ToWake
  BY <1>3 DEF LWLockWakeup, TakeOff, Base, ListInv
<1>4. ASSUME \E q \in ToWake : ~UntilFree(q) PROVE \E q \in Procs : Retrying(q)'
  BY <1>4, WokenRetries
<1>5. ASSUME NEW r \in Procs, lwWaiting'[r] = "waiting"
      PROVE  (\E q \in Procs : Active(q)') /\ ~Counting(r)' /\ ~Watching(r)'
  <2>1. (\E q \in ToWake : ~UntilFree(q)) /\ ~UntilFree(r)
    BY <1>1, <1>3, <1>5, LeftBehind
  <2>2. call'[r].op = "LWLockAcquire"
    BY <1>1, <2>1 DEF UntilFree, lwWaitMode
  <2>. QED
    BY <1>4, <2>1, <2>2 DEF Active, Counting, Watching
<1>6. \A r \in Procs : ~Counting(r)' /\ ~Watching(r)'
  BY <1>5 DEF Counting, Watching
<1>. QED
  BY <1>1, <1>2, <1>4, <1>5, <1>6 DEF OwnKept

\* So does LWLockUpdateVar, whose process keeps the lock.
LEMMA WakeForVarOwn ==
    ASSUME Base, Ordered, NEW p \in Procs, WakeForVar(p)
    PROVE  OwnKept(p)
<1>1. /\ TypeOK /\ OpInv(p) /\ pc[p] = "update_body" /\ call' = call /\ var' = var
      /\ pc'[p] \in {"wake_clear", "idle", "held"} /\ owns' = owns
      /\ state'.release_ok = state.release_ok /\ waiters \in Seq(Procs)
  BY DEF Base, WakeForVar, TakeOff, Goto, Back, TypeOK
<1>2. ~Retrying(p) /\ ~Settled(p)' /\ ~Counting(p)' /\ ~Watching(p)'
  BY <1>1 DEF Retrying, Settled, Counting, Watching
<1>3. Active(p)'
  BY <1>1 DEF OpInv, Active
<1>4. ASSUME NEW r \in Procs, Watching(r)' PROVE FALSE
  <2>1. /\ On(waiters, r) /\ UntilFree(r)
        /\ r \notin {waiters[i] : i \in {i \in DOMAIN waiters :
                                           \A j \in 1 .. i : UntilFree(waiters[j])}}
    BY <1>1, <1>4 DEF WakeForVar, TakeOff, Base, ListInv, Watching, UntilFree, lwWaitMode
  <2>2. PICK i \in DOMAIN waiters : waiters[i] = r
    BY <2>1 DEF On
  <2>3. PICK j \in 1 .. i : ~UntilFree(waiters[j])
    BY <2>1, <2>2
  <2>4. j \in DOMAIN waiters /\ (j = i \/ j < i)
    BY SMTT(40), <1>1
  <2>. QED
    BY <2>1, <2>2, <2>3, <2>4 DEF Ordered
<1>. QED
  BY <1>1, <1>2, <1>3, <1>4 DEF OwnKept

\* What p does and what it leaves alone, together.
LEMMA TogetherKeeps ==
    ASSUME WInv, NEW p \in Procs, OthersKept(p), OwnKept(p), Ordered'
    PROVE  WInv'
<1>1. ReleaseOkReturns'
  <2>. SUFFICES ASSUME ~state'.release_ok PROVE \E q \in Procs : Retrying(q)'
    BY DEF ReleaseOkReturns
  <2>1. CASE state.release_ok
    BY <2>1 DEF OwnKept
  <2>2. CASE ~state.release_ok
    <3>1. PICK q \in Procs : Retrying(q)
      BY <2>2 DEF WInv, ReleaseOkReturns
    <3>2. CASE q = p
      BY <3>1, <3>2 DEF OwnKept
    <3>3. CASE q # p
      BY <3>1, <3>3, OthersStay
    <3>. QED
      BY <3>2, <3>3
  <2>. QED
    BY <2>1, <2>2
<1>2. ASSUME NEW r \in Procs, Settled(r)' PROVE \E q \in Procs : Active(q)'
  <2>. SUFFICES ASSUME Settled(r) PROVE \E q \in Procs : Active(q)'
    BY <1>2 DEF OwnKept, OthersKept, Settled
  <2>1. PICK q \in Procs : Active(q)
    BY DEF WInv, ActiveInv, Settled
  <2>2. CASE q = p
    BY <1>2, <2>1, <2>2 DEF OwnKept, Settled
  <2>3. CASE q # p
    BY <2>1, <2>3, OthersStay
  <2>. QED
    BY <2>2, <2>3
<1>3. ASSUME NEW r \in Procs, Counting(r)' PROVE state'.release_ok
  <2>. SUFFICES ASSUME Counting(r) PROVE state'.release_ok
    BY <1>3 DEF OwnKept, OthersKept, Counting
  <2>1. state.release_ok
    BY DEF WInv, OkInv, Counting
  <2>. QED
    BY <1>3, <2>1 DEF OwnKept
<1>4. ASSUME NEW r \in Procs, Watching(r)', var' # call'[r].oldval
      PROVE  \E q \in Procs : Telling(q)'
  <2>1. CASE var' # var
    BY <2>1 DEF OwnKept
  <2>2. CASE var' = var
    <3>1. Watching(r) /\ call'[r] = call[r]
      BY <1>4 DEF OwnKept, OthersKept, Watching
    <3>2. PICK q \in Procs : Telling(q)
      BY <1>4, <2>2, <3>1 DEF WInv, TellInv, Watching
    <3>3. CASE q = p
      BY <1>4, <3>2, <3>3 DEF OwnKept
    <3>4. CASE q # p
      BY <3>2, <3>4, OthersStay
    <3>. QED
      BY <3>3, <3>4
  <2>. QED
    BY <2>1, <2>2
<1>5. \A r \in Procs : ActiveInv(r)' /\ OkInv(r)' /\ TellInv(r)'
  BY <1>2, <1>3, <1>4 DEF ActiveInv, OkInv, TellInv, Settled, Counting, Watching
<1>. QED
  BY <1>1, <1>5 DEF WInv

\* The promises hold when nobody waits.
LEMMA InitWInv == Init => WInv
<1>. SUFFICES ASSUME Init PROVE WInv
  OBVIOUS
<1>1. ReleaseOkReturns
  BY DEF Init, LWLockInitialize, ReleaseOkReturns
<1>2. Ordered
  <2>1. DOMAIN <<>> = {}
    BY SMTT(40)
  <2>. QED
    BY <2>1 DEF Init, LWLockInitialize, Ordered
<1>3. \A p \in Procs : ActiveInv(p) /\ OkInv(p) /\ TellInv(p)
  BY DEF Init, ActiveInv, OkInv, TellInv
<1>. QED
  BY <1>1, <1>2, <1>3 DEF WInv

\* Every step keeps them.
LEMMA NextWInv == IInv /\ IInv' /\ Base /\ WInv /\ [Next]_vars => WInv'
<1>. SUFFICES ASSUME IInv, IInv', Base, WInv, [Next]_vars PROVE WInv'
  OBVIOUS
<1>1. ASSUME NEW p \in Procs, Act(p) PROVE WInv'
  <2>1. OthersKept(p) /\ Ordered'
    BY <1>1, Others, OrderedKept DEF WInv
  <2>2. OwnKept(p)
    BY <1>1, AttemptOwn, MoveOwn, ReleaseOwn, WakeupOwn, WakeForVarOwn
       DEF Act, Step, WInv
  <2>. QED
    BY <2>1, <2>2, TogetherKeeps
<1>2. CASE UNCHANGED vars
  BY <1>2 DEF vars, WInv, ReleaseOkReturns, Ordered, ActiveInv, OkInv, TellInv,
     Active, Telling, Retrying, UntilFree, lwWaitMode
<1>. QED
  BY <1>1, <1>2 DEF Next, Act

\* Whoever waits on the list is waited for: the three promises hold throughout.
THEOREM LockPromises == Spec => []WInv
BY InitWInv, NextWInv, LockInvariant, LockBase, PTL DEF Spec

\* While LW_FLAG_RELEASE_OK is clear, a process that a release has woken is
\* still to try again, and sets the flag before it does (LWLockWakeup, the
\* loop of LWLockAcquire, LWLockDequeueSelf).
THEOREM LockReleaseOkReturns == Spec => []ReleaseOkReturns
<1>1. WInv => ReleaseOkReturns
  BY DEF WInv
<1>. QED
  BY <1>1, LockPromises, PTL

\* A process that sleeps and is off the list is on the list of another one that
\* will post its semaphore.
LEMMA SleeperHeld ==
    ASSUME Base, NEW p \in Procs, Asleep(p), lwWaiting[p] # "waiting"
    PROVE  \E q \in Procs \ {p} :
             pc[q] \in Waking /\ \E i \in DOMAIN wakeup[q] : wakeup[q][i] = p
<1>1. /\ TypeOK /\ ListInv(p) /\ WakeInv(p) /\ PostInv(p) /\ sem[p] = 0
      /\ pc[p] \in {"sleep", "dequeue_sleep"} /\ pc[p] \notin Waking
      /\ lwWaiting[p] \in {"not_waiting", "pending_wakeup"}
  BY DEF Base, Asleep, Waking, TypeOK
<1>. SUFFICES \E q \in Procs : \E i \in DOMAIN wakeup[q] : wakeup[q][i] = p
  <2>1. ASSUME NEW q \in Procs, NEW i \in DOMAIN wakeup[q], wakeup[q][i] = p
        PROVE  pc[q] \in Waking
    <3>1. wakeup[q] \in Seq(Procs) /\ On(wakeup[q], p)
      BY <1>1, <2>1 DEF TypeOK, On
    <3>2. wakeup[q] # <<>>
      BY <3>1, NothingOn
    <3>. QED
      BY <3>2 DEF Base, WakeInv
  <2>. QED
    BY <1>1, <2>1
<1>2. CASE lwWaiting[p] = "pending_wakeup"
  BY <1>1, <1>2 DEF ListInv, ToClear
<1>3. CASE lwWaiting[p] = "not_waiting"
  <2>1. /\ extraWaits[p] \in Nat /\ foreign[p] \in Nat /\ Cardinality(Posting(p)) \in Nat
        /\ extraWaits[p] <= foreign[p]
        /\ 0 + extraWaits[p] + Cardinality(Posting(p)) = foreign[p] + 1
    <3>1. foreign[p] \in 0 .. MaxForeign /\ extraWaits[p] \in Nat
      BY <1>1 DEF TypeOK
    <3>2. Owed(p) = 1
      BY <1>1, <1>3 DEF Owed, Queued
    <3>3. foreign[p] \in Nat
      BY SMTT(40), <3>1
    <3>. QED
      BY <1>1, <3>1, <3>2, <3>3, PostingFinite DEF PostInv
  <2>2. Cardinality(Posting(p)) # 0
    BY SMTT(40), <2>1
  <2>3. PICK q \in Procs : pc[q] = "wake_post" /\ Head(wakeup[q]) = p
    BY <2>2, FS_EmptySet DEF Posting
  <2>4. wakeup[q] \in Seq(Procs) /\ wakeup[q] # <<>>
    BY <1>1, <2>3 DEF TypeOK, Base, WakeInv, Waking
  <2>. QED
    BY <2>3, <2>4, TailFacts
<1>. QED
  BY <1>1, <1>2, <1>3

\* No wakeup is lost, for any finite number of processes: of a process that
\* sleeps there is always another one that is bound to wake it, whatever posts
\* its semaphore gets from elsewhere (LWLockAcquire, LWLockAcquireOrWait,
\* LWLockWaitForVar, LWLockRelease, LWLockWakeup).
THEOREM LockLosesNoWakeup == Spec => []NoLostWakeup
<1>1. IInv /\ Base /\ WInv => NoLostWakeup
  <2>. SUFFICES ASSUME IInv, Base, WInv, NEW p \in Procs, Asleep(p)
                PROVE  \E q \in Procs \ {p} :
                         IF lwWaiting[p] = "waiting"
                         THEN \/ owns[q] # "none" \/ Retrying(q)
                              \/ pc[q] \in {"wake", "wake_body", "attempt1"}
                         ELSE \E i \in DOMAIN wakeup[q] : wakeup[q][i] = p
    BY DEF NoLostWakeup
  <2>1. CASE lwWaiting[p] = "waiting"
    <3>1. pc[p] = "sleep" /\ owns[p] = "none"
      BY <2>1 DEF Asleep, Base, ListInv, IInv, PlaceInv, Outside
    <3>2. PICK q \in Procs : Active(q)
      BY <2>1, <3>1 DEF WInv, ActiveInv
    <3>3. q # p
      BY <2>1, <3>1, <3>2 DEF Active, Retrying
    <3>. QED
      BY <2>1, <3>2, <3>3 DEF Active
  <2>2. CASE lwWaiting[p] # "waiting"
    BY <2>2, SleeperHeld
  <2>. QED
    BY <2>1, <2>2
<1>. QED
  BY <1>1, LockInvariant, LockBase, LockPromises, PTL

\* A process does not sleep for a value that was replaced, unless the process
\* that replaced it, or one that releases, is on the way to wake it
\* (LWLockWaitForVar, LWLockUpdateVar, LWLockReleaseClearVar).
THEOREM LockVarChangeSeen == Spec => []VarChangeSeen
<1>1. Base /\ WInv => VarChangeSeen
  <2>. SUFFICES ASSUME Base, WInv, NEW p \in Procs, Asleep(p), pc[p] = "sleep",
                       call[p].op = "LWLockWaitForVar", var # call[p].oldval
                PROVE  \E q \in Procs \ {p} :
                         pc[q] \in {"update", "update_body", "wake_clear", "wake_post",
                                    "release", "wake", "wake_body"}
    BY DEF VarChangeSeen
  <2>1. CASE lwWaiting[p] = "waiting"
    <3>1. PICK q \in Procs : Telling(q)
      BY <2>1 DEF WInv, TellInv
    <3>. QED
      BY <3>1 DEF Telling
  <2>2. CASE lwWaiting[p] # "waiting"
    BY <2>2, SleeperHeld DEF Waking
  <2>. QED
    BY <2>1, <2>2
<1>. QED
  BY <1>1, LockBase, LockPromises, PTL
=============================================================================
