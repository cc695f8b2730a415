----------------------- MODULE ConditionVariableProofs -----------------------
(***************************************************************************)
(* The list of a condition variable, for any number of processes and any   *)
(* callers: a process is on it at most once, a broadcast that has come to  *)
(* its end has woken all the processes that were on the list when it       *)
(* began, and a process that was taken off the list does not sleep on.     *)
(*                                                                         *)
(* The invariants: whom a broadcast is still to wake is on the list before *)
(* the sentinel of the broadcast.  A process that has prepared to sleep is *)
(* on the list, or has its latch set or about to be set, except between    *)
(* the reset of its latch and its look at the list.                        *)
(***************************************************************************)
EXTENDS ConditionVariable, TLAPS

\* Zenon proves the leaves that do not name a prover.
USE ZenonT(40)

\* What the callers may do with the variable: one of its functions, a step
\* inside one, or something else.
CVOperation(p) ==
    \/ ConditionVariableSleep(p) \/ ConditionVariableCancelSleep(p)
    \/ ConditionVariableSignal(p) \/ ConditionVariableBroadcast(p)
    \/ CVStep(p) \/ LatchSetByOther(p)

CVNext == \E p \in Procs : CVOperation(p)

-----------------------------------------------------------------------------
(* Lists *)

Listed(s, q) == \E i \in DOMAIN s : s[i] = q
Ahead(s, q, r) == \E i, j \in DOMAIN s : i < j /\ s[i] = q /\ s[j] = r
Once(s) == \A i, j \in DOMAIN s : s[i] = s[j] => i = j

\* A process joins the tail of a list.
LEMMA AppendFacts ==
    ASSUME NEW s \in Seq(Procs), NEW x \in Procs, NEW t, t = Append(s, x)
    PROVE  /\ t \in Seq(Procs)
           /\ \A q : Listed(t, q) <=> Listed(s, q) \/ q = x
           /\ \A q, r : Ahead(s, q, r) => Ahead(t, q, r)
           /\ \A q : Listed(s, q) => Ahead(t, q, x)
           /\ Once(s) /\ ~Listed(s, x) => Once(t)
<1>1. /\ t \in Seq(Procs) /\ Len(t) = Len(s) + 1 /\ Len(s) \in Nat
      /\ DOMAIN s = 1 .. Len(s) /\ DOMAIN t = 1 .. Len(s) + 1
      /\ \A i \in 1 .. Len(s) : t[i] = s[i]
      /\ t[Len(s) + 1] = x
  BY SMTT(40)
<1>2. \A q : Listed(t, q) <=> Listed(s, q) \/ q = x
  BY SMTT(40), <1>1 DEF Listed
<1>3. \A q, r : Ahead(s, q, r) => Ahead(t, q, r)
  BY SMTT(40), <1>1 DEF Ahead
<1>4. \A q : Listed(s, q) => Ahead(t, q, x)
  BY SMTT(40), <1>1 DEF Listed, Ahead
<1>5. Once(s) /\ ~Listed(s, x) => Once(t)
  BY SMTT(40), <1>1 DEF Listed, Once
<1>. QED
  BY <1>1, <1>2, <1>3, <1>4, <1>5

\* The first entry leaves a list on which nobody is twice.
LEMMA TailFacts ==
    ASSUME NEW s \in Seq(Procs), s # <<>>, Once(s), NEW t, t = Tail(s)
    PROVE  /\ t \in Seq(Procs) /\ Head(s) \in Procs /\ Listed(s, Head(s))
           /\ \A q : Listed(t, q) <=> Listed(s, q) /\ q # Head(s)
           /\ \A q, r : Ahead(s, q, r) => r # Head(s)
           /\ \A q, r : Ahead(s, q, r) /\ q # Head(s) => Ahead(t, q, r)
           /\ Once(t)
<1>1. /\ t \in Seq(Procs) /\ Head(s) \in Procs /\ Len(s) \in Nat /\ Len(s) >= 1
      /\ DOMAIN s = 1 .. Len(s) /\ DOMAIN t = 1 .. Len(s) - 1
      /\ \A i \in 1 .. Len(s) - 1 : t[i] = s[i + 1]
      /\ Head(s) = s[1]
  BY SMTT(40)
<1>2. Listed(s, Head(s))
  BY SMTT(40), <1>1 DEF Listed
<1>3. \A q : Listed(t, q) <=> Listed(s, q) /\ q # Head(s)
  <2>1. ASSUME NEW i \in 1 .. Len(s), i # 1
        PROVE  i - 1 \in 1 .. Len(s) - 1 /\ t[i - 1] = s[i] /\ s[i] # s[1]
    BY SMTT(40), <1>1, <2>1 DEF Once
  <2>2. ASSUME NEW i \in 1 .. Len(s) - 1
        PROVE  i + 1 \in 1 .. Len(s) /\ t[i] = s[i + 1] /\ s[i + 1] # s[1]
    BY SMTT(40), <1>1 DEF Once
  <2>3. ASSUME NEW q, Listed(t, q) PROVE Listed(s, q) /\ q # Head(s)
    <3>1. PICK i \in 1 .. Len(s) - 1 : t[i] = q
      BY <1>1, <2>3 DEF Listed
    <3>. QED
      BY <1>1, <2>2, <3>1 DEF Listed
  <2>4. ASSUME NEW q, Listed(s, q), q # Head(s) PROVE Listed(t, q)
    <3>1. PICK i \in 1 .. Len(s) : s[i] = q
      BY <1>1, <2>4 DEF Listed
    <3>2. i - 1 \in 1 .. Len(s) - 1 /\ t[i - 1] = q
      BY <1>1, <2>1, <2>4, <3>1
    <3>. QED
      BY <1>1, <3>2 DEF Listed
  <2>. QED
    BY <2>3, <2>4
<1>4. \A q, r : Ahead(s, q, r) => r # Head(s)
  BY SMTT(40), <1>1 DEF Ahead, Once
<1>5. \A q, r : Ahead(s, q, r) /\ q # Head(s) => Ahead(t, q, r)
  <2>1. ASSUME NEW i \in 1 .. Len(s), NEW j \in 1 .. Len(s), i < j, s[i] # s[1]
        PROVE  /\ i - 1 \in 1 .. Len(s) - 1 /\ j - 1 \in 1 .. Len(s) - 1
               /\ i - 1 < j - 1
               /\ t[i - 1] = s[i] /\ t[j - 1] = s[j]
    BY SMTT(40), <1>1, <2>1
  <2>2. ASSUME NEW q, NEW r, Ahead(s, q, r), q # Head(s) PROVE Ahead(t, q, r)
    <3>1. PICK i \in 1 .. Len(s), j \in 1 .. Len(s) : i < j /\ s[i] = q /\ s[j] = r
      BY <1>1, <2>2 DEF Ahead
    <3>2. /\ i - 1 \in 1 .. Len(s) - 1 /\ j - 1 \in 1 .. Len(s) - 1
          /\ i - 1 < j - 1 /\ t[i - 1] = q /\ t[j - 1] = r
      BY <1>1, <2>1, <2>2, <3>1
    <3>. QED
      BY <1>1, <3>2 DEF Ahead
  <2>. QED
    BY <2>2
<1>6. Once(t)
  BY SMTT(40), <1>1 DEF Once
<1>. QED
  BY <1>1, <1>2, <1>3, <1>4, <1>5, <1>6

\* A process leaves the list on which nobody is twice, wherever it is.
LEMMA WithoutFacts ==
    ASSUME wakeup \in Seq(Procs), Once(wakeup), NEW p \in Procs, NEW t, t = Without(p)
    PROVE  /\ t \in Seq(Procs)
           /\ \A q : Listed(t, q) <=> Listed(wakeup, q) /\ q # p
           /\ \A q, r : Ahead(wakeup, q, r) /\ q # p /\ r # p => Ahead(t, q, r)
           /\ Once(t)
<1>1. CASE ~Listed(wakeup, p)
  <2>1. t = wakeup
    BY <1>1 DEF Without, OnList, Listed
  <2>. QED
    BY <1>1, <2>1 DEF Listed
<1>2. CASE Listed(wakeup, p)
  <2>1. PICK i \in DOMAIN wakeup :
          /\ wakeup[i] = p
          /\ t = [k \in 1 .. Len(wakeup) - 1 |-> wakeup[IF k < i THEN k ELSE k + 1]]
    BY <1>2 DEF Without, OnList, Listed
  <2>2. /\ Len(wakeup) \in Nat /\ DOMAIN wakeup = 1 .. Len(wakeup)
        /\ \A k \in 1 .. Len(wakeup) : wakeup[k] \in Procs
    BY SMTT(40)
  <2>3. PICK n : n = Len(wakeup) - 1
    OBVIOUS
  <2>4. /\ n \in Nat /\ i \in Nat /\ 1 <= i /\ i <= n + 1
        /\ DOMAIN wakeup = 1 .. n + 1
        /\ DOMAIN t = 1 .. n
    BY SMTT(40), <2>1, <2>2, <2>3
  <2>5. /\ \A k \in 1 .. n : k < i => t[k] = wakeup[k]
        /\ \A k \in 1 .. n : ~(k < i) => t[k] = wakeup[k + 1]
    BY <2>1, <2>3
  <2>6. t \in Seq(Procs)
    <3>1. \A k \in 1 .. n : wakeup[IF k < i THEN k ELSE k + 1] \in Procs
      BY SMTT(40), <2>2, <2>3, <2>4
    <3>. QED
      BY SMTT(40), <2>1, <2>3, <2>4, <3>1
  <2>7. \A k \in 1 .. n + 1 : wakeup[k] = p <=> k = i
    BY <2>1, <2>4 DEF Once
  <2>8. \A q : Listed(t, q) => Listed(wakeup, q) /\ q # p
    BY SMTT(40), <2>4, <2>5, <2>7 DEF Listed
  <2>9. ASSUME NEW k \in 1 .. n + 1, k # i
        PROVE  \E m \in 1 .. n : /\ t[m] = wakeup[k]
                                 /\ m = IF k < i THEN k ELSE k - 1
    BY SMTT(40), <2>4, <2>5, <2>9
  <2>10. \A q : Listed(wakeup, q) /\ q # p => Listed(t, q)
    BY <2>4, <2>7, <2>9 DEF Listed
  <2>11. ASSUME NEW q, NEW r, Ahead(wakeup, q, r), q # p, r # p
         PROVE  Ahead(t, q, r)
    <3>1. PICK k \in 1 .. n + 1, l \in 1 .. n + 1 :
            k < l /\ wakeup[k] = q /\ wakeup[l] = r
      BY <2>4, <2>11 DEF Ahead
    <3>2. k # i /\ l # i
      BY <2>7, <2>11, <3>1
    <3>3. PICK x \in 1 .. n : t[x] = q /\ x = IF k < i THEN k ELSE k - 1
      BY <2>9, <3>1, <3>2
    <3>4. PICK y \in 1 .. n : t[y] = r /\ y = IF l < i THEN l ELSE l - 1
      BY <2>9, <3>1, <3>2
    <3>5. x < y
      BY SMTT(40), <2>4, <3>1, <3>2, <3>3, <3>4
    <3>. QED
      BY <2>4, <3>3, <3>4, <3>5 DEF Ahead
  <2>12. Once(t)
    <3>. SUFFICES ASSUME NEW k \in 1 .. n, NEW l \in 1 .. n, t[k] = t[l] PROVE k = l
      BY <2>4 DEF Once
    <3>1. wakeup[IF k < i THEN k ELSE k + 1] = wakeup[IF l < i THEN l ELSE l + 1]
      BY <2>1, <2>3
    <3>2. /\ (IF k < i THEN k ELSE k + 1) \in 1 .. n + 1
          /\ (IF l < i THEN l ELSE l + 1) \in 1 .. n + 1
      BY SMTT(40), <2>4
    <3>3. (IF k < i THEN k ELSE k + 1) = (IF l < i THEN l ELSE l + 1)
      BY <2>4, <3>1, <3>2 DEF Once
    <3>. QED
      BY SMTT(40), <2>4, <3>3
  <2>. QED
    BY <2>6, <2>8, <2>10, <2>11, <2>12
<1>. QED
  BY <1>1, <1>2
-----------------------------------------------------------------------------
(* The invariant *)

CVProc(p) ==
    /\ have_sentinel[p] => cvpc[p] \in {"set", "pop"} /\ ~cv_sleep_target[p]
    /\ cvpc[p] = "pop" => have_sentinel[p]
    /\ Listed(wakeup, p) => cv_sleep_target[p] \/ have_sentinel[p]
    /\ cvpc[p] \in {"latch", "recheck", "interrupts"} => cv_sleep_target[p]

CVInv ==
    /\ CVTypeOK
    /\ Once(wakeup)
    /\ \A p \in Procs : CVProc(p)
    /\ \A b \in Procs : \A q \in due[b] : Ahead(wakeup, q, b) /\ ~cv_sleep_target[b]

\* A process whose broadcast has somebody to wake is in the broadcast.
LEMMA DueMeansSentinel ==
    ASSUME CVInv, NEW b \in Procs, due[b] # {} PROVE have_sentinel[b]
<1>1. PICK q : q \in due[b]
  OBVIOUS
<1>2. Ahead(wakeup, q, b) /\ ~cv_sleep_target[b]
  BY <1>1 DEF CVInv
<1>3. Listed(wakeup, b)
  BY <1>2 DEF Ahead, Listed
<1>. QED
  BY <1>2, <1>3 DEF CVInv, CVProc

\* A process that a step does not concern.
LEMMA CVProcKept ==
    ASSUME CVInv, NEW q \in Procs, cv_sleep_target'[q] = cv_sleep_target[q],
           have_sentinel'[q] = have_sentinel[q], cvpc'[q] = cvpc[q],
           Listed(wakeup', q) => Listed(wakeup, q)
    PROVE  CVProc(q)'
BY DEF CVInv, CVProc

\* A step that does not concern the condition variable.
LEMMA CVUnchanged ==
    ASSUME CVInv, UNCHANGED cvVars PROVE CVInv'
BY DEF cvVars, CVInv, CVTypeOK, CVProc

\* Sleepers join the list, once.
LEMMA JoinKeeps ==
    ASSUME CVInv, NEW p \in Procs, ConditionVariableSleep(p) \/ Recheck(p)
    PROVE  CVInv'
<1>1. CASE ConditionVariablePrepareToSleep(p) \/ (Recheck(p) /\ ~OnList(p))
  <2>1. /\ wakeup \in Seq(Procs) /\ wakeup' = Append(wakeup, p)
        /\ UNCHANGED <<latch, proc, have_sentinel, due>>
    BY <1>1 DEF CVInv, CVTypeOK, ConditionVariablePrepareToSleep, Recheck
  <2>2. ~Listed(wakeup, p)
    BY <1>1 DEF CVInv, CVProc, ConditionVariablePrepareToSleep, OnList, Listed
  <2>3. /\ wakeup' \in Seq(Procs)
        /\ \A q : Listed(wakeup', q) <=> Listed(wakeup, q) \/ q = p
        /\ \A q, r : Ahead(wakeup, q, r) => Ahead(wakeup', q, r)
        /\ Once(wakeup')
    BY <2>1, <2>2, AppendFacts DEF CVInv
  <2>4. /\ cv_sleep_target'[p] /\ cv_sleep_target' \in [Procs -> BOOLEAN]
        /\ \A q \in Procs \ {p} : /\ cv_sleep_target'[q] = cv_sleep_target[q]
                                   /\ cvpc'[q] = cvpc[q]
    BY <1>1 DEF CVInv, CVTypeOK, CVProc, ConditionVariablePrepareToSleep, Recheck, Goto
  <2>5. CVTypeOK'
    BY <1>1, <2>1, <2>3, <2>4
    DEF CVInv, CVTypeOK, ConditionVariablePrepareToSleep, Recheck, Goto
  <2>6. ~have_sentinel[p]
    BY <1>1 DEF CVInv, CVProc, ConditionVariablePrepareToSleep, Recheck
  <2>7. \A q \in Procs : CVProc(q)'
    <3>1. \A q \in Procs \ {p} : CVProc(q)'
      BY <2>1, <2>3, <2>4, CVProcKept
    <3>2. cvpc'[p] # "pop"
      BY <1>1 DEF CVInv, CVTypeOK, ConditionVariablePrepareToSleep, Recheck, Goto
    <3>3. CVProc(p)'
      BY <2>1, <2>4, <2>6, <3>2 DEF CVProc
    <3>. QED
      BY <3>1, <3>3
  <2>8. due[p] = {}
    BY <2>6, DueMeansSentinel
  <2>9. \A b \in Procs : \A q \in due'[b] :
          Ahead(wakeup', q, b) /\ ~cv_sleep_target'[b]
    BY <2>1, <2>3, <2>4, <2>8 DEF CVInv
  <2>. QED
    BY <2>3, <2>5, <2>7, <2>9 DEF CVInv
<1>2. CASE \/ ConditionVariableSleep(p) /\ ~ConditionVariablePrepareToSleep(p)
           \/ Recheck(p) /\ OnList(p)
  <2>1. /\ UNCHANGED <<wakeup, cv_sleep_target, latch, proc, have_sentinel, due>>
        /\ cv_sleep_target[p]
        /\ \E l \in {"latch", "interrupts"} : cvpc' = [cvpc EXCEPT ![p] = l]
        /\ done' \in [Procs -> BOOLEAN] /\ ~have_sentinel[p]
    BY <1>2 DEF CVInv, CVTypeOK, CVProc, ConditionVariableSleep, Recheck, Goto
  <2>2. CVTypeOK'
    BY <2>1 DEF CVInv, CVTypeOK
  <2>3. \A q \in Procs : CVProc(q)'
    BY <2>1 DEF CVInv, CVTypeOK, CVProc
  <2>. QED
    BY <2>1, <2>2, <2>3 DEF CVInv
<1>. QED
  BY <1>1, <1>2 DEF ConditionVariableSleep

\* Who stops waiting leaves the list; no broadcast has to wake it then.
LEMMA LeaveKeeps ==
    ASSUME CVInv, NEW p \in Procs,
           ConditionVariableCancelSleep(p) \/ CheckForInterrupts(p)
    PROVE  CVInv'
<1>1. ~have_sentinel[p]
  BY DEF CVInv, CVProc, ConditionVariableCancelSleep, CheckForInterrupts
<1>2. due[p] = {}
  BY <1>1, DueMeansSentinel
<1>3. CASE /\ cv_sleep_target' = [cv_sleep_target EXCEPT ![p] = FALSE]
           /\ wakeup' = Without(p) /\ Settle(p)
           /\ cvpc' = [cvpc EXCEPT ![p] = "ready"]
  <2>1. /\ UNCHANGED <<latch, proc, have_sentinel>>
        /\ done' \in [Procs -> BOOLEAN]
    BY DEF CVInv, CVTypeOK, ConditionVariableCancelSleep, CheckForInterrupts
  <2>2. /\ wakeup' \in Seq(Procs)
        /\ \A q : Listed(wakeup', q) <=> Listed(wakeup, q) /\ q # p
        /\ \A q, r : Ahead(wakeup, q, r) /\ q # p /\ r # p => Ahead(wakeup', q, r)
        /\ Once(wakeup')
    BY <1>3, WithoutFacts DEF CVInv, CVTypeOK
  <2>3. CVTypeOK'
    BY <1>3, <2>1, <2>2 DEF CVInv, CVTypeOK, Settle
  <2>4. \A q \in Procs : CVProc(q)'
    BY <1>1, <1>3, <2>1, <2>2 DEF CVInv, CVTypeOK, CVProc
  <2>5. \A b \in Procs : \A q \in due'[b] :
          Ahead(wakeup', q, b) /\ ~cv_sleep_target'[b]
    BY <1>2, <1>3, <2>2 DEF CVInv, CVTypeOK, Settle
  <2>. QED
    BY <2>2, <2>3, <2>4, <2>5 DEF CVInv
<1>4. CASE CheckForInterrupts(p) /\ UNCHANGED <<wakeup, cv_sleep_target, due>>
  <2>1. /\ UNCHANGED <<latch, proc, have_sentinel>>
        /\ \E l \in {"ready", "latch"} : cvpc' = [cvpc EXCEPT ![p] = l]
        /\ cvpc[p] = "interrupts" /\ done' \in [Procs -> BOOLEAN]
    BY <1>4 DEF CVInv, CVTypeOK, CheckForInterrupts, Goto
  <2>2. CVTypeOK'
    BY <1>4, <2>1 DEF CVInv, CVTypeOK
  <2>3. \A q \in Procs : CVProc(q)'
    BY <1>1, <1>4, <2>1 DEF CVInv, CVTypeOK, CVProc
  <2>. QED
    BY <1>4, <2>1, <2>2, <2>3 DEF CVInv
<1>5. CASE ConditionVariableCancelSleep(p) /\ ~cv_sleep_target[p]
  <2>1. ~Listed(wakeup, p)
    BY <1>1, <1>5 DEF CVInv, CVProc
  <2>2. wakeup' = Without(p)
    BY <1>5, <2>1 DEF ConditionVariableCancelSleep, Without, OnList, Listed
  <2>3. cvpc' = [cvpc EXCEPT ![p] = "ready"]
    BY <1>5 DEF ConditionVariableCancelSleep, CVInv, CVTypeOK
  <2>. QED
    BY <1>3, <1>5, <2>2, <2>3 DEF ConditionVariableCancelSleep
<1>6. CASE ConditionVariableCancelSleep(p) /\ cv_sleep_target[p]
  <2>1. cvpc' = [cvpc EXCEPT ![p] = "ready"]
    BY <1>6 DEF ConditionVariableCancelSleep, CVInv, CVTypeOK
  <2>. QED
    BY <1>3, <1>6, <2>1 DEF ConditionVariableCancelSleep
<1>. QED
  BY <1>3, <1>4, <1>5, <1>6 DEF CheckForInterrupts, Goto

\* The first entry is taken off the list, and nothing is added.
LEMMA TakeFirstKeeps ==
    ASSUME CVInv, NEW p \in Procs, wakeup # <<>>,
           wakeup' = Tail(wakeup), Settle(Head(wakeup)),
           proc' = [proc EXCEPT ![p] = Head(wakeup)],
           cvpc[p] \in {"ready", "pop"}, cvpc' = [cvpc EXCEPT ![p] = "set"],
           UNCHANGED <<cv_sleep_target, latch, done>>,
           \/ cvpc[p] = "ready" /\ have_sentinel' = have_sentinel
           \/ /\ cvpc[p] = "pop"
              /\ have_sentinel' = [have_sentinel EXCEPT ![p] = Listed(wakeup', p)]
    PROVE  CVInv'
<1>1. /\ wakeup' \in Seq(Procs) /\ Head(wakeup) \in Procs
      /\ \A q : Listed(wakeup', q) <=> Listed(wakeup, q) /\ q # Head(wakeup)
      /\ \A q, r : Ahead(wakeup, q, r) /\ q # Head(wakeup) => Ahead(wakeup', q, r)
      /\ Once(wakeup')
  BY TailFacts DEF CVInv, CVTypeOK
<1>2. have_sentinel' \in [Procs -> BOOLEAN]
  BY DEF CVInv, CVTypeOK, Listed
<1>3. CVTypeOK'
  BY <1>1, <1>2 DEF CVInv, CVTypeOK, Settle
<1>4. \A q \in Procs \ {p} : CVProc(q)'
  BY <1>1, CVProcKept DEF CVInv, CVTypeOK
<1>5. CVProc(p)'
  BY <1>1 DEF CVInv, CVTypeOK, CVProc
<1>6. \A b \in Procs : \A q \in due'[b] : Ahead(wakeup', q, b) /\ ~cv_sleep_target'[b]
  BY <1>1 DEF CVInv, Settle
<1>. QED
  BY <1>1, <1>3, <1>4, <1>5, <1>6 DEF CVInv

\* A broadcast begins: its sentinel comes after all whom it is to wake.
LEMMA BroadcastKeeps ==
    ASSUME CVInv, NEW p \in Procs, ConditionVariableBroadcast(p)
    PROVE  CVInv'
<1>. SUFFICES ASSUME wakeup # <<>> PROVE CVInv'
  BY CVUnchanged DEF ConditionVariableBroadcast
<1>1. PICK t : t = Tail(wakeup)
  OBVIOUS
<1>2. PICK h : h = Head(wakeup)
  OBVIOUS
<1>3. PICK S : S = {q \in Procs : cv_sleep_target[q] /\ OnList(q)}
  OBVIOUS
<1>4. /\ cvpc[p] = "ready" /\ ~cv_sleep_target[p] /\ ~have_sentinel[p]
      /\ ~Listed(wakeup, p)
  BY DEF ConditionVariableBroadcast, CVInv, CVProc
<1>5. /\ proc' = [proc EXCEPT ![p] = h]
      /\ wakeup' = IF t = <<>> THEN <<>> ELSE Append(t, p)
      /\ have_sentinel' = [have_sentinel EXCEPT ![p] = t # <<>>]
      /\ due' = [b \in Procs |-> (IF b = p THEN S ELSE due[b]) \ {h}]
      /\ cvpc' = [cvpc EXCEPT ![p] = "set"]
      /\ UNCHANGED <<cv_sleep_target, latch, done>>
  BY <1>1, <1>2, <1>3 DEF ConditionVariableBroadcast, Goto
<1>6. /\ t \in Seq(Procs) /\ h \in Procs
      /\ \A q : Listed(t, q) <=> Listed(wakeup, q) /\ q # h
      /\ \A q, r : Ahead(wakeup, q, r) /\ q # h => Ahead(t, q, r)
      /\ Once(t)
  BY <1>1, <1>2, TailFacts DEF CVInv, CVTypeOK
<1>7. /\ wakeup' \in Seq(Procs) /\ Once(wakeup')
      /\ \A q : Listed(wakeup', q) => Listed(t, q) \/ (q = p /\ t # <<>>)
      /\ \A q, r : Ahead(t, q, r) => Ahead(wakeup', q, r)
      /\ \A q : Listed(t, q) => Ahead(wakeup', q, p)
  <2>1. CASE t = <<>>
    <3>1. wakeup' = t
      BY <1>5, <2>1
    <3>2. \A q : ~Listed(t, q)
      BY SMTT(40), <2>1 DEF Listed
    <3>. QED
      BY <1>6, <3>1, <3>2
  <2>2. CASE t # <<>>
    <3>1. wakeup' = Append(t, p) /\ ~Listed(t, p)
      BY <1>4, <1>5, <1>6, <2>2
    <3>. QED
      BY <1>6, <2>2, <3>1, AppendFacts
  <2>. QED
    BY <2>1, <2>2
<1>8. CVTypeOK'
  BY <1>3, <1>5, <1>6, <1>7 DEF CVInv, CVTypeOK
<1>9. \A q \in Procs \ {p} : CVProc(q)'
  <2>1. \A q \in Procs \ {p} :
          /\ cv_sleep_target'[q] = cv_sleep_target[q]
          /\ have_sentinel'[q] = have_sentinel[q] /\ cvpc'[q] = cvpc[q]
          /\ Listed(wakeup', q) => Listed(wakeup, q)
    BY <1>5, <1>6, <1>7 DEF CVInv, CVTypeOK
  <2>. QED
    BY <2>1, CVProcKept
<1>10. CVProc(p)'
  BY <1>4, <1>5, <1>6, <1>7 DEF CVInv, CVTypeOK, CVProc
<1>11. ASSUME NEW b \in Procs, NEW q \in due'[b]
       PROVE  Ahead(wakeup', q, b) /\ ~cv_sleep_target'[b]
  <2>1. CASE b = p
    <3>1. Listed(wakeup, q) /\ q # h
      BY <1>3, <1>5, <1>11, <2>1 DEF OnList, Listed
    <3>. QED
      BY <1>4, <1>5, <1>6, <1>7, <2>1, <3>1
  <2>2. CASE b # p
    BY <1>5, <1>6, <1>7, <1>11, <2>2 DEF CVInv
  <2>. QED
    BY <2>1, <2>2
<1>. QED
  BY <1>7, <1>8, <1>9, <1>10, <1>11 DEF CVInv

\* A signal, and one more turn of the loop of a broadcast.
LEMMA PopKeeps ==
    ASSUME CVInv, NEW p \in Procs, ConditionVariableSignal(p) \/ PopNext(p)
    PROVE  CVInv'
<1>1. CASE ConditionVariableSignal(p)
  <2>1. CASE wakeup = <<>>
    BY <1>1, <2>1, CVUnchanged DEF ConditionVariableSignal
  <2>2. CASE wakeup # <<>>
    BY <1>1, <2>2, TakeFirstKeeps DEF ConditionVariableSignal, Goto
  <2>. QED
    BY <2>1, <2>2
<1>2. CASE PopNext(p)
  <2>1. CASE wakeup = <<>>
    <3>1. \A q : ~Listed(wakeup, q)
      BY SMTT(40), <2>1 DEF Listed
    <3>2. /\ wakeup' = wakeup /\ cvpc' = [cvpc EXCEPT ![p] = "set"]
          /\ have_sentinel' = [have_sentinel EXCEPT ![p] = FALSE]
          /\ proc' = [proc EXCEPT ![p] = Nobody]
          /\ UNCHANGED <<cv_sleep_target, latch, done>>
      BY <1>2, <2>1, <3>1 DEF PopNext, Goto, Listed
    <3>3. \A b \in Procs : due[b] = {}
      BY <3>1 DEF CVInv, Ahead, Listed
    <3>4. due' = [b \in Procs |-> {}]
      BY <1>2, <3>3 DEF PopNext, Settle
    <3>5. CVTypeOK'
      BY <3>2, <3>4 DEF CVInv, CVTypeOK
    <3>6. \A q \in Procs : CVProc(q)'
      BY <3>1, <3>2 DEF CVInv, CVTypeOK, CVProc
    <3>. QED
      BY <3>2, <3>4, <3>5, <3>6 DEF CVInv
  <2>2. CASE wakeup # <<>>
    <3>1. /\ wakeup' = Tail(wakeup) /\ proc' = [proc EXCEPT ![p] = Head(wakeup)]
          /\ cvpc[p] = "pop" /\ cvpc' = [cvpc EXCEPT ![p] = "set"]
          /\ have_sentinel' = [have_sentinel EXCEPT ![p] = Listed(wakeup', p)]
          /\ UNCHANGED <<cv_sleep_target, latch, done>>
      BY <1>2, <2>2 DEF PopNext, Goto, Listed
    <3>2. Settle(Head(wakeup))
      BY <1>2, <3>1 DEF PopNext, CVInv, CVTypeOK
    <3>. QED
      BY <2>2, <3>1, <3>2, TakeFirstKeeps
  <2>. QED
    BY <2>1, <2>2
<1>. QED
  BY <1>1, <1>2

\* Latches are set and reset; the list stays.
LEMMA LatchKeeps ==
    ASSUME CVInv, NEW p \in Procs, WaitLatch(p) \/ SetLatch(p) \/ LatchSetByOther(p)
    PROVE  CVInv'
<1>1. /\ UNCHANGED <<wakeup, cv_sleep_target, done, have_sentinel, due>>
      /\ latch' \in [Procs -> BOOLEAN] /\ proc' \in [Procs -> Procs \cup {Nobody}]
  BY DEF WaitLatch, SetLatch, LatchSetByOther, CVInv, CVTypeOK
<1>2. \/ cvpc' = cvpc
      \/ cvpc[p] = "latch" /\ cvpc' = [cvpc EXCEPT ![p] = "recheck"]
      \/ have_sentinel[p] /\ cvpc' = [cvpc EXCEPT ![p] = "pop"]
      \/ ~have_sentinel[p] /\ cvpc' = [cvpc EXCEPT ![p] = "ready"]
  BY DEF WaitLatch, SetLatch, LatchSetByOther, Goto
<1>3. CVTypeOK'
  BY <1>1, <1>2 DEF CVInv, CVTypeOK
<1>4. \A q \in Procs \ {p} : CVProc(q)'
  BY <1>1, <1>2, CVProcKept DEF CVInv, CVTypeOK
<1>5. CVProc(p)'
  BY <1>1, <1>2 DEF CVInv, CVTypeOK, CVProc
<1>. QED
  BY <1>1, <1>3, <1>4, <1>5 DEF CVInv

\* Whatever the callers do, they keep the invariant.
LEMMA CVNextKeeps == CVInv /\ [CVNext]_cvVars => CVInv'
<1>. SUFFICES ASSUME CVInv, [CVNext]_cvVars PROVE CVInv'
  OBVIOUS
<1>. QED
  BY CVUnchanged, JoinKeeps, LeaveKeeps, BroadcastKeeps, PopKeeps, LatchKeeps
  DEF CVNext, CVOperation, CVStep

\* The list of a new condition variable is empty.
LEMMA CVInitInv == ConditionVariableInit => CVInv
BY SMTT(40) DEF ConditionVariableInit, CVInv, CVTypeOK, CVProc, Listed, Once

-----------------------------------------------------------------------------
(* Who is on the list *)

\* What a step of p does to the list: the other processes stay in their places,
\* and only p may join.  Whoever is taken off by p is in proc[p].
LEMMA OthersStay ==
    ASSUME CVInv, NEW p \in Procs, CVOperation(p), NEW q \in Procs, q # p
    PROVE  /\ cvpc'[q] = cvpc[q] /\ done'[q] = done[q] /\ proc'[q] = proc[q]
           /\ cv_sleep_target'[q] = cv_sleep_target[q]
           /\ Listed(wakeup', q) => Listed(wakeup, q)
           /\ Listed(wakeup, q) =>
                Listed(wakeup', q) \/ (cvpc'[p] = "set" /\ proc'[p] = q)
<1>. USE DEF CVInv, CVTypeOK
<1>1. CASE ConditionVariableSleep(p) \/ Recheck(p)
  <2>1. wakeup' = wakeup \/ wakeup' = Append(wakeup, p)
    BY <1>1 DEF ConditionVariableSleep, ConditionVariablePrepareToSleep, Recheck
  <2>2. Listed(wakeup', q) <=> Listed(wakeup, q)
    BY <2>1, AppendFacts
  <2>. QED
    BY <1>1, <2>2
    DEF ConditionVariableSleep, ConditionVariablePrepareToSleep, Recheck, Goto
<1>2. CASE ConditionVariableCancelSleep(p) \/ CheckForInterrupts(p)
  <2>1. wakeup' = wakeup \/ wakeup' = Without(p)
    BY <1>2 DEF ConditionVariableCancelSleep, CheckForInterrupts
  <2>2. Listed(wakeup', q) <=> Listed(wakeup, q)
    BY <2>1, WithoutFacts
  <2>. QED
    BY <1>2, <2>2 DEF ConditionVariableCancelSleep, CheckForInterrupts, Goto
<1>3. CASE ConditionVariableSignal(p) \/ ConditionVariableBroadcast(p) \/ PopNext(p)
  <2>1. CASE wakeup = <<>>
    <3>1. wakeup' = wakeup
      BY <1>3, <2>1
      DEF ConditionVariableSignal, ConditionVariableBroadcast, PopNext, cvVars
    <3>. QED
      BY <1>3, <2>1, <3>1
      DEF ConditionVariableSignal, ConditionVariableBroadcast, PopNext, cvVars, Goto
  <2>2. CASE wakeup # <<>>
    <3>1. PICK t : t = Tail(wakeup)
      OBVIOUS
    <3>2. PICK h : h = Head(wakeup)
      OBVIOUS
    <3>3. /\ t \in Seq(Procs) /\ h \in Procs
          /\ Listed(t, q) <=> Listed(wakeup, q) /\ q # h
      BY <2>2, <3>1, <3>2, TailFacts
    <3>4. /\ proc' = [proc EXCEPT ![p] = h] /\ cvpc' = [cvpc EXCEPT ![p] = "set"]
          /\ wakeup' = t \/ wakeup' = Append(t, p)
          /\ UNCHANGED <<cv_sleep_target, done>>
      BY <1>3, <2>2, <3>1, <3>2
      DEF ConditionVariableSignal, ConditionVariableBroadcast, PopNext, Goto
    <3>5. Listed(wakeup', q) <=> Listed(t, q)
      BY <3>3, <3>4, AppendFacts
    <3>. QED
      BY <3>3, <3>4, <3>5
  <2>. QED
    BY <2>1, <2>2
<1>4. CASE WaitLatch(p) \/ SetLatch(p) \/ LatchSetByOther(p)
  BY <1>4 DEF WaitLatch, SetLatch, LatchSetByOther, Goto
<1>. QED
  BY <1>1, <1>2, <1>3, <1>4 DEF CVOperation, CVStep

\* A process that sleeps on unless somebody takes it off the list.
SleepsOn(q) ==
    /\ Listed(wakeup, q)
    /\ cvpc[q] \in {"latch", "recheck"} \/ (cvpc[q] = "interrupts" /\ ~done[q])

\* Only ConditionVariableSleep begins a sleep.
LEMMA SleepBegins ==
    ASSUME CVInv, NEW p \in Procs, CVOperation(p), NEW q \in Procs, SleepsOn(q)'
    PROVE  SleepsOn(q) \/ (q = p /\ ConditionVariableSleep(p))
<1>1. CASE q # p
  BY <1>1, OthersStay DEF SleepsOn
<1>2. CASE q = p /\ ~ConditionVariableSleep(p)
  <2>. USE DEF CVInv, CVTypeOK
  <2>1. CASE Recheck(p)
    <3>1. done'[p] = ~OnList(p) /\ cvpc[p] = "recheck" /\ cvpc'[p] = "interrupts"
      BY <2>1 DEF Recheck, Goto
    <3>. QED
      BY <1>2, <3>1 DEF SleepsOn, OnList, Listed
  <2>2. CASE CheckForInterrupts(p)
    <3>1. cvpc'[p] = "latch"
      BY <1>2, <2>2 DEF SleepsOn, CheckForInterrupts, Goto
    <3>2. wakeup' = wakeup /\ ~done[p] /\ cvpc[p] = "interrupts"
      BY <2>2, <3>1 DEF CheckForInterrupts, Goto
    <3>. QED
      BY <1>2, <3>2 DEF SleepsOn
  <2>3. CASE WaitLatch(p) \/ LatchSetByOther(p)
    BY <1>2, <2>3 DEF WaitLatch, LatchSetByOther, SleepsOn, Goto
  <2>4. CASE \/ ConditionVariableCancelSleep(p) \/ ConditionVariableSignal(p)
             \/ ConditionVariableBroadcast(p) \/ PopNext(p) \/ SetLatch(p)
    <3>1. cvpc'[p] \in {"ready", "set", "pop"}
      BY <2>4 DEF ConditionVariableCancelSleep, ConditionVariableSignal,
         ConditionVariableBroadcast, PopNext, SetLatch, Goto, cvVars
    <3>. QED
      BY <1>2, <3>1 DEF SleepsOn
  <2>. QED
    BY <1>2, <2>1, <2>2, <2>3, <2>4 DEF CVOperation, CVStep
<1>. QED
  BY <1>1, <1>2

\* A sleeper that a broadcast is to wake stays due while it is on the list.
LEMMA DueStays ==
    ASSUME CVInv, NEW p \in Procs, CVOperation(p), NEW q \in Procs, Listed(wakeup', q),
           NEW b \in Procs, q \in due[b]
    PROVE  q \in due'[b]
<1>0. Listed(wakeup, q)
  <2>1. Ahead(wakeup, q, b)
    BY DEF CVInv
  <2>. QED
    BY <2>1 DEF Ahead, Listed
<1>. USE DEF CVInv, CVTypeOK
<1>1. CASE ConditionVariableBroadcast(p)
  <2>1. CASE wakeup = <<>>
    BY <1>1, <2>1 DEF ConditionVariableBroadcast, cvVars
  <2>2. CASE wakeup # <<>>
    <3>1. PICK h : h = Head(wakeup)
      OBVIOUS
    <3>2. PICK t : t = Tail(wakeup)
      OBVIOUS
    <3>3. cvpc[p] = "ready" /\ ~have_sentinel[p] /\ b # p /\ q # p
      <4>1. cvpc[p] = "ready" /\ ~cv_sleep_target[p]
        BY <1>1 DEF ConditionVariableBroadcast
      <4>2. ~have_sentinel[p] /\ ~Listed(wakeup, p)
        BY <4>1 DEF CVProc
      <4>3. b # p
        BY <4>2, DueMeansSentinel
      <4>4. Listed(wakeup, q)
        BY <1>0
      <4>. QED
        BY <4>1, <4>2, <4>3, <4>4
    <3>4. /\ t \in Seq(Procs)
          /\ Listed(t, q) => q # h
      BY <2>2, <3>1, <3>2, TailFacts
    <3>5. wakeup' = t \/ wakeup' = Append(t, p)
      BY <1>1, <2>2, <3>2 DEF ConditionVariableBroadcast
    <3>6. q # h
      BY <3>3, <3>4, <3>5, AppendFacts
    <3>7. due'[b] = due[b] \ {h}
      BY <1>1, <2>2, <3>1, <3>3 DEF ConditionVariableBroadcast
    <3>. QED
      BY <3>6, <3>7
  <2>. QED
    BY <2>1, <2>2
<1>2. CASE ConditionVariableSignal(p) \/ PopNext(p)
  <2>1. CASE wakeup = <<>>
    BY SMTT(40), <1>0, <2>1 DEF Listed
  <2>2. CASE wakeup # <<>>
    <3>1. wakeup' = Tail(wakeup) /\ Settle(Head(wakeup))
      BY <1>2, <2>2 DEF ConditionVariableSignal, PopNext
    <3>2. q # Head(wakeup)
      BY <2>2, <3>1, TailFacts
    <3>. QED
      BY <3>1, <3>2 DEF Settle
  <2>. QED
    BY <2>1, <2>2
<1>3. CASE ConditionVariableCancelSleep(p) \/ CheckForInterrupts(p)
  <2>1. CASE wakeup' = Without(p) /\ Settle(p)
    BY <2>1, WithoutFacts DEF Settle
  <2>2. CASE due' = due
    BY <2>2
  <2>3. CASE ConditionVariableCancelSleep(p) /\ ~cv_sleep_target[p]
    <3>1. q # p
      <4>1. ~Listed(wakeup, p)
        BY <2>3 DEF CVProc, ConditionVariableCancelSleep
      <4>. QED
        BY <1>0, <4>1
    <3>. QED
      BY <2>3, <3>1 DEF ConditionVariableCancelSleep, Settle
  <2>. QED
    BY <1>3, <2>1, <2>2, <2>3 DEF ConditionVariableCancelSleep, CheckForInterrupts
<1>. QED
  BY <1>1, <1>2, <1>3
  DEF CVOperation, CVStep, ConditionVariableSleep, ConditionVariablePrepareToSleep,
      Recheck, WaitLatch, SetLatch, LatchSetByOther

\* A broadcast is to wake all who have prepared a sleep and are on the list after
\* its first section.
LEMMA BroadcastTakesAll ==
    ASSUME CVInv, NEW p \in Procs, ConditionVariableBroadcast(p), NEW q \in Procs,
           cv_sleep_target[q], Listed(wakeup', q)
    PROVE  q \in due'[p]
<1>. USE DEF CVInv, CVTypeOK
<1>1. q # p /\ Listed(wakeup, q)
  <2>1. CVOperation(p) /\ ~cv_sleep_target[p]
    BY DEF CVOperation, ConditionVariableBroadcast
  <2>. QED
    BY <2>1, OthersStay
<1>2. wakeup # <<>>
  BY SMTT(40), <1>1 DEF Listed
<1>3. PICK h : h = Head(wakeup)
  OBVIOUS
<1>4. PICK t : t = Tail(wakeup)
  OBVIOUS
<1>5. /\ t \in Seq(Procs)
      /\ Listed(t, q) => q # h
  BY <1>2, <1>3, <1>4, TailFacts
<1>6. wakeup' = t \/ wakeup' = Append(t, p)
  BY <1>2, <1>4 DEF ConditionVariableBroadcast
<1>7. q # h
  BY <1>1, <1>5, <1>6, AppendFacts
<1>8. due'[p] = {r \in Procs : cv_sleep_target[r] /\ OnList(r)} \ {h}
  BY <1>2, <1>3 DEF ConditionVariableBroadcast
<1>. QED
  BY <1>1, <1>7, <1>8 DEF OnList, Listed

-----------------------------------------------------------------------------
(* No signal is lost *)

\* A process that has prepared to sleep, and does not look at the list now, is on
\* the list, or has its latch set or about to be set.
Reached(q) ==
    (cv_sleep_target[q] /\ cvpc[q] # "recheck") =>
        Listed(wakeup, q) \/ latch[q] \/ AboutToWake(q)

WakeInv == \A q \in Procs : Reached(q)

\* Whoever is to be woken stays so until its latch is set.
LEMMA WakerGoesOn ==
    ASSUME CVInv, NEW p \in Procs, CVOperation(p), NEW q \in Procs, AboutToWake(q),
           cv_sleep_target[q]
    PROVE  AboutToWake(q)' \/ latch'[q]
<1>1. PICK b \in Procs : cvpc[b] = "set" /\ proc[b] = q
  BY DEF AboutToWake
<1>2. CASE b # p
  <2>1. cvpc'[b] = cvpc[b] /\ proc'[b] = proc[b]
    BY <1>2, OthersStay
  <2>. QED
    BY <1>1, <2>1 DEF AboutToWake
<1>3. CASE b = p /\ SetLatch(p)
  <2>1. q # Nobody
    BY NobodyAssumption
  <2>. QED
    BY <1>1, <1>3, <2>1 DEF CVInv, CVTypeOK, SetLatch
<1>4. CASE b = p /\ LatchSetByOther(p)
  BY <1>1, <1>4 DEF LatchSetByOther, AboutToWake
<1>. QED
  BY <1>1, <1>2, <1>3, <1>4
  DEF CVOperation, CVStep, ConditionVariableSleep, ConditionVariablePrepareToSleep,
      ConditionVariableCancelSleep, ConditionVariableSignal, ConditionVariableBroadcast,
      WaitLatch, Recheck, CheckForInterrupts, PopNext

\* Only its owner resets a latch.
LEMMA LatchStays ==
    ASSUME CVInv, NEW p \in Procs, CVOperation(p), NEW q \in Procs, latch[q],
           ~(q = p /\ WaitLatch(p))
    PROVE  latch'[q]
BY DEF CVInv, CVTypeOK, CVOperation, CVStep, ConditionVariableSleep,
       ConditionVariablePrepareToSleep, ConditionVariableCancelSleep,
       ConditionVariableSignal, ConditionVariableBroadcast, WaitLatch, Recheck,
       CheckForInterrupts, PopNext, SetLatch, LatchSetByOther, cvVars

\* A step keeps what the others rely on.
LEMMA OthersReached ==
    ASSUME CVInv, WakeInv, NEW p \in Procs, CVOperation(p), NEW q \in Procs, q # p
    PROVE  Reached(q)'
<1>. SUFFICES ASSUME cv_sleep_target'[q], cvpc'[q] # "recheck"
              PROVE  Listed(wakeup', q) \/ latch'[q] \/ AboutToWake(q)'
  BY DEF Reached
<1>1. /\ cv_sleep_target[q] /\ cvpc[q] # "recheck"
      /\ Listed(wakeup, q) => Listed(wakeup', q) \/ (cvpc'[p] = "set" /\ proc'[p] = q)
  BY OthersStay
<1>2. Listed(wakeup, q) \/ latch[q] \/ AboutToWake(q)
  BY <1>1 DEF WakeInv, Reached
<1>. QED
  BY <1>1, <1>2, WakerGoesOn, LatchStays DEF AboutToWake

\* A process that joins, leaves, wakes others or waits is reached itself.
LEMMA ItselfReached ==
    ASSUME CVInv, WakeInv, NEW p \in Procs, CVOperation(p)
    PROVE  Reached(p)'
<1>. USE DEF CVInv, CVTypeOK
<1>. SUFFICES ASSUME cv_sleep_target'[p], cvpc'[p] # "recheck"
              PROVE  Listed(wakeup', p) \/ latch'[p] \/ AboutToWake(p)'
  BY DEF Reached
<1>1. CASE ConditionVariablePrepareToSleep(p) \/ Recheck(p)
  <2>1. CASE wakeup' = Append(wakeup, p)
    BY <2>1, AppendFacts
  <2>2. CASE wakeup' = wakeup /\ OnList(p)
    BY <2>2 DEF OnList, Listed
  <2>. QED
    BY <1>1, <2>1, <2>2 DEF ConditionVariablePrepareToSleep, Recheck
<1>2. CASE WaitLatch(p)
  BY <1>2 DEF WaitLatch, Goto
<1>3. CASE ~(ConditionVariablePrepareToSleep(p) \/ Recheck(p) \/ WaitLatch(p))
  <2>1. cvpc[p] # "recheck"
    BY <1>3
    DEF CVOperation, CVStep, ConditionVariableSleep, ConditionVariableCancelSleep,
        ConditionVariableSignal, ConditionVariableBroadcast, CheckForInterrupts, PopNext,
        SetLatch, LatchSetByOther
  <2>2. cv_sleep_target[p] /\ (wakeup' = wakeup \/ ConditionVariableSignal(p))
    <3>1. CASE ConditionVariableBroadcast(p)
      BY <3>1 DEF ConditionVariableBroadcast, cvVars
    <3>2. CASE PopNext(p)
      BY <3>2 DEF PopNext, CVProc
    <3>3. CASE ConditionVariableCancelSleep(p) \/ CheckForInterrupts(p)
      <4>1. cv_sleep_target' # [cv_sleep_target EXCEPT ![p] = FALSE]
        OBVIOUS
      <4>. QED
        BY <3>3, <4>1 DEF ConditionVariableCancelSleep, CheckForInterrupts
    <3>. QED
      BY <1>3, <3>1, <3>2, <3>3
      DEF CVOperation, CVStep, ConditionVariableSleep, ConditionVariableSignal, SetLatch,
          LatchSetByOther, cvVars
  <2>3. Listed(wakeup, p) \/ latch[p] \/ AboutToWake(p)
    BY <2>1, <2>2 DEF WakeInv, Reached
  <2>4. CASE latch[p] \/ AboutToWake(p)
    BY <1>3, <2>2, <2>4, WakerGoesOn, LatchStays
  <2>5. CASE Listed(wakeup, p) /\ ConditionVariableSignal(p) /\ wakeup # <<>>
    <3>1. PICK t : t = Tail(wakeup)
      OBVIOUS
    <3>2. Listed(t, p) \/ p = Head(wakeup)
      BY <2>5, <3>1, TailFacts
    <3>3. /\ wakeup' = t /\ proc'[p] = Head(wakeup) /\ cvpc'[p] = "set"
      BY <2>5, <3>1 DEF ConditionVariableSignal, Goto
    <3>. QED
      BY <3>2, <3>3 DEF AboutToWake
  <2>6. CASE Listed(wakeup, p) /\ ConditionVariableSignal(p) /\ wakeup = <<>>
    BY <2>6 DEF ConditionVariableSignal, cvVars
  <2>. QED
    BY <2>2, <2>3, <2>4, <2>5, <2>6
<1>. QED
  BY <1>1, <1>2, <1>3

\* Whatever the callers do, no signal is lost.
LEMMA WakeKept == CVInv /\ WakeInv /\ [CVNext]_cvVars => WakeInv'
<1>. SUFFICES ASSUME CVInv, WakeInv, [CVNext]_cvVars PROVE WakeInv'
  OBVIOUS
<1>1. CASE UNCHANGED cvVars
  BY <1>1 DEF cvVars, WakeInv, Reached, AboutToWake
<1>2. CASE CVNext
  BY <1>2, OthersReached, ItselfReached DEF CVNext, WakeInv
<1>. QED
  BY <1>1, <1>2

\* Nobody has prepared to sleep at first.
LEMMA WakeInit == ConditionVariableInit => WakeInv
BY DEF ConditionVariableInit, WakeInv, Reached

-----------------------------------------------------------------------------
(* What the callers may rely on *)

\* ListedOnce, BroadcastWakesAll and SignalNotLost follow.
LEMMA CVPromises == CVInv /\ WakeInv => ListedOnce /\ BroadcastWakesAll /\ SignalNotLost
<1>. SUFFICES ASSUME CVInv, WakeInv
              PROVE  ListedOnce /\ BroadcastWakesAll /\ SignalNotLost
  OBVIOUS
<1>1. ListedOnce
  BY DEF CVInv, Once, ListedOnce
<1>2. BroadcastWakesAll
  BY DueMeansSentinel DEF CVInv, CVProc, BroadcastWakesAll
<1>3. SignalNotLost
  BY <1>1 DEF CVInv, CVProc, WakeInv, Reached, SignalNotLost, Asleep, OnList, Listed
<1>. QED
  BY <1>1, <1>2, <1>3

\* For all callers that obey the rules of the functions: nobody is on the list
\* twice, a broadcast that has returned has woken everybody who was on the list
\* when it began, and a process that was taken off the list is woken.
THEOREM CVKeepsPromises ==
    ConditionVariableInit /\ [][CVNext]_cvVars =>
        [](ListedOnce /\ BroadcastWakesAll /\ SignalNotLost)
<1>1. ConditionVariableInit /\ [][CVNext]_cvVars => [](CVInv /\ WakeInv)
  BY CVInitInv, CVNextKeeps, WakeInit, WakeKept, PTL
<1>. QED
  BY <1>1, CVPromises, PTL

=============================================================================
