------------------------ MODULE StorageEnginesProofs ------------------------
(***************************************************************************)
(* What the runs check of StorageEngines on two threads and a few names    *)
(* holds for any number of threads, all table names and any number of      *)
(* inits.  IInv says, for each thread, which members of its table struct   *)
(* are set at which place of create_table: the ones already allocated,     *)
(* and, in the order of the frees, the ones still to be freed.  That the   *)
(* frees of an engine go through the members one by one is a fact about    *)
(* the five records (EngineShapes).                                        *)
(*                                                                         *)
(* The next section is about the calls of DataOperations on open tables,   *)
(* for all handles, names, types and codes.                                *)
(*                                                                         *)
(* The sections from "Numbers and powers of two" on are about the vector   *)
(* functions of VectorMath, for every format, every number of components   *)
(* and all finite components: how rounding a ratio or a root is bounded,   *)
(* what follows for the operations and for a loop that adds terms, and     *)
(* what that makes of the three functions.                                 *)
(***************************************************************************)
EXTENDS StorageEngines, DataOperations, VectorMath, WellFoundedInduction, TLAPS

\* Zenon proves the leaves that do not name a prover.
USE ZenonT(40)

-----------------------------------------------------------------------------
(* The records of the engines *)

Count(e) == Len(Members(e))          \* the members of a table of engine e
NthFree(e, j) == Frees(e)[j]         \* the member that its j-th free frees
MakesFile(e) == Engine(e).file

\* The members and the frees of an engine fit together: every path is as long
\* as its buffer, and the frees name the struct and each member once.
Shape(E) ==
    LET n == Len(E.members) IN
    /\ n \in 1 .. 5
    /\ \A i \in 1 .. n :
         /\ E.members[i].base \in Nat
         /\ E.members[i].ext \in Nat
         /\ E.members[i].path => E.members[i].format = E.members[i].base + E.members[i].ext
    /\ Len(E.frees) = n + 1
    /\ \A j \in 1 .. n + 1 : E.frees[j] \in 0 .. n
    /\ \A j, k \in 1 .. n + 1 : E.frees[j] = E.frees[k] => j = k
    /\ \A i \in 0 .. n : \E j \in 1 .. n + 1 : E.frees[j] = i
    /\ E.strings \in 0 .. 2

\* The five engines have such a shape.
LEMMA EngineShapes == \A e \in Engines : Shape(Engine(e))
<1>1. Shape(heap)
  BY SMTT(40) DEF Shape, heap, Dup, Path
<1>2. Shape(columnar)
  BY SMTT(40) DEF Shape, columnar, Dup, Path
<1>3. Shape(vector)
  BY SMTT(40) DEF Shape, vector, Dup, Path
<1>4. Shape(timeseries)
  BY SMTT(40) DEF Shape, timeseries, Dup, Path
<1>5. Shape(graph)
  BY SMTT(40) DEF Shape, graph, Dup, Path
<1>. QED
  BY SMTT(40), <1>1, <1>2, <1>3, <1>4, <1>5 DEF Engine, Engines

\* The same, in the terms in which the invariant speaks of an engine.
LEMMA EngineFacts ==
    ASSUME NEW e \in Engines
    PROVE  /\ Count(e) \in 1 .. 5
           /\ Len(Frees(e)) = Count(e) + 1
           /\ \A j \in 1 .. Count(e) + 1 : NthFree(e, j) \in 0 .. Count(e)
           /\ \A j, k \in 1 .. Count(e) + 1 :
                NthFree(e, j) = NthFree(e, k) => j = k
           /\ \A i \in 0 .. Count(e) :
                \E j \in 1 .. Count(e) + 1 : NthFree(e, j) = i
BY EngineShapes DEF Shape, Count, NthFree, Members, Frees

-----------------------------------------------------------------------------
(* The inductive invariant *)

Set == {"live", "null"}     \* what an allocated member may hold

\* Where the call of thread t is, and what its table struct holds there.
ThreadInv(t) ==
    LET e == call[t].engine IN
    /\ pc[t] # "idle" => call[t].len \in NameLens
    /\ pc[t] = "idle" => \A i \in Slots : slot[t][i] # "live"
    /\ pc[t] = "alloc" =>
         /\ at[t] \in 1 .. Count(e)
         /\ \A i \in Slots : IF i < at[t] THEN slot[t][i] \in Set
                                          ELSE slot[t][i] = "unset"
    /\ pc[t] = "fopen" =>
         /\ at[t] = 1
         /\ \A i \in Slots : IF i <= Count(e) THEN slot[t][i] \in Set
                                              ELSE slot[t][i] = "unset"
    /\ pc[t] = "free" =>
         /\ at[t] \in 1 .. Count(e) + 1
         /\ \A j \in 1 .. Count(e) + 1 :
              IF j < at[t] THEN slot[t][NthFree(e, j)] = "freed"
                           ELSE slot[t][NthFree(e, j)] \in Set
         /\ \A i \in Slots : i > Count(e) => slot[t][i] = "unset"
         /\ MakesFile(e) /\ code[t] = "SUCCESS" => call[t].len \in files

Counters ==
    /\ inits <= started
    /\ kept <= 3 * started

IInv ==
    /\ TypeOK
    /\ \A t \in Threads : ThreadInv(t)
    /\ Counters
    /\ PathsFit
    /\ NoBadFree
    /\ CreatedHasFile

\* The invariant holds before the first call.
LEMMA InitIInv == Init => IInv
<1>. SUFFICES ASSUME Init PROVE IInv
  OBVIOUS
<1>1. TypeOK
  <2>1. exact \in BOOLEAN /\ badFree \in BOOLEAN /\ crashed \in BOOLEAN
    BY DEF Init
  <2>. QED
    BY SMTT(40), <2>1, EngineAssumption DEF Init, TypeOK, NoCall, Engines, Slots
<1>2. \A t \in Threads : ThreadInv(t)
  BY DEF Init, ThreadInv
<1>. QED
  BY SMTT(40), <1>1, <1>2 DEF IInv, Init, Counters, PathsFit, NoBadFree, CreatedHasFile

\* What a step does not touch of a thread stays right when files are added.
LEMMA OtherThread ==
    ASSUME NEW u \in Threads, ThreadInv(u), files \subseteq files',
           pc'[u] = pc[u], call'[u] = call[u], at'[u] = at[u],
           slot'[u] = slot[u], code'[u] = code[u]
    PROVE  ThreadInv(u)'
BY SMTT(40) DEF ThreadInv

-----------------------------------------------------------------------------
(* One lemma for each action *)

\* storage_init adds at most three blocks to those that are left behind.
LEMMA InitKeeps ==
    ASSUME NEW t \in Threads, NEW e \in Engines, IInv, storage_init(t, e)
    PROVE  IInv'
<1>1. Engine(e).strings \in 0 .. 2
  BY EngineShapes DEF Shape
<1>2. TypeOK' /\ Counters'
  BY SMTT(40), <1>1, EngineAssumption
  DEF IInv, TypeOK, Counters, storage_init, threadVars
<1>3. \A u \in Threads : ThreadInv(u)'
  BY OtherThread DEF IInv, storage_init, threadVars
<1>. QED
  BY <1>2, <1>3
  DEF IInv, storage_init, PathsFit, NoBadFree, CreatedHasFile

\* storage_cleanup only counts.
LEMMA CleanupKeeps ==
    ASSUME NEW t \in Threads, NEW e \in Engines, IInv, storage_cleanup(t, e)
    PROVE  IInv'
<1>1. TypeOK' /\ Counters'
  BY SMTT(40), EngineAssumption DEF IInv, TypeOK, Counters, storage_cleanup, threadVars
<1>2. \A u \in Threads : ThreadInv(u)'
  BY OtherThread DEF IInv, storage_cleanup, threadVars
<1>. QED
  BY <1>1, <1>2
  DEF IInv, storage_cleanup, PathsFit, NoBadFree, CreatedHasFile

\* A new table struct has nothing in its members.
LEMMA CreateKeeps ==
    ASSUME NEW t \in Threads, NEW e \in Engines, NEW n \in NameLens,
           IInv, CreateTable(t, e, n)
    PROVE  IInv'
<1>. DEFINE Fresh == [i \in Slots |-> IF i = 0 THEN "live" ELSE "unset"]
<1>0. Fresh \in [Slots -> {"unset", "null", "live", "freed"}]
  OBVIOUS
<1>1. TypeOK'
  <2>1. slot' \in [Threads -> [Slots -> {"unset", "null", "live", "freed"}]]
    BY <1>0 DEF IInv, TypeOK, CreateTable
  <2>2. call' \in [Threads -> [engine : Engines, len : NameLens \cup {0}]]
    <3>1. [engine |-> e, len |-> n] \in [engine : Engines, len : NameLens \cup {0}]
      OBVIOUS
    <3>2. \/ call' = call
          \/ call' = [call EXCEPT ![t] = [engine |-> e, len |-> n]]
      BY DEF CreateTable
    <3>. QED
      BY <3>1, <3>2 DEF IInv, TypeOK
  <2>3. at' \in [Threads -> 0 .. 6]
    BY SMTT(40) DEF IInv, TypeOK, CreateTable
  <2>4. /\ pc' \in [Threads -> {"idle", "alloc", "fopen", "free"}]
        /\ code' \in [Threads -> {"SUCCESS", "MEMORY", "IO"}]
    BY DEF IInv, TypeOK, CreateTable
  <2>. QED
    BY <2>1, <2>2, <2>3, <2>4 DEF IInv, TypeOK, CreateTable
<1>2. ThreadInv(t)'
  <2>1. CASE UNCHANGED <<pc, call, at, slot>>
    BY SMTT(40), <2>1 DEF IInv, TypeOK, ThreadInv, CreateTable
  <2>2. CASE /\ slot'[t] = Fresh
             /\ call'[t] = [engine |-> e, len |-> n]
             /\ at'[t] = 1
             /\ pc'[t] = "alloc"
    <3>1. Count(e) \in 1 .. 5
      BY EngineFacts
    <3>2. \A i \in Slots : IF i < 1 THEN slot'[t][i] \in Set
                                     ELSE slot'[t][i] = "unset"
      BY SMTT(40), <2>2 DEF Slots, Set
    <3>3. call'[t].engine = e /\ call'[t].len = n
      BY SMTT(40), <2>2
    <3>4. at'[t] = 1 /\ pc'[t] = "alloc"
      BY <2>2
    <3>. HIDE DEF Fresh
    <3>. QED
      BY SMTT(40), <3>1, <3>2, <3>3, <3>4 DEF ThreadInv
  <2>. QED
    BY <2>1, <2>2 DEF IInv, TypeOK, CreateTable
<1>3. \A u \in Threads : u # t => ThreadInv(u)'
  BY OtherThread DEF IInv, TypeOK, CreateTable
<1>. QED
  BY <1>1, <1>2, <1>3
  DEF IInv, CreateTable, Counters, PathsFit, NoBadFree, CreatedHasFile

\* After a crash there is nothing but the files.
LEMMA CrashKeeps ==
    ASSUME IInv, Crash
    PROVE  IInv'
<1>1. TypeOK'
  BY SMTT(40), EngineAssumption DEF IInv, TypeOK, Crash, NoCall, Engines, Slots
<1>2. \A t \in Threads : ThreadInv(t)'
  BY DEF ThreadInv, Crash
<1>. QED
  BY SMTT(40), <1>1, <1>2
  DEF IInv, Crash, Counters, PathsFit, NoBadFree, CreatedHasFile

\* On to the next member, to fopen or to the frees.
LEMMA AdvanceInv ==
    ASSUME NEW t \in Threads, TypeOK, ThreadInv(t), pc[t] = "alloc",
           slot'[t] \in [Slots -> {"unset", "null", "live", "freed"}],
           \A i \in Slots : i # at[t] => slot'[t][i] = slot[t][i],
           slot'[t][at[t]] \in Set, call' = call, code' = code, Advance(t)
    PROVE  ThreadInv(t)'
<1>. DEFINE e == call[t].engine
<1>. e \in Engines
  BY DEF TypeOK
<1>1. /\ Count(e) \in 1 .. 5
      /\ \A j \in 1 .. Count(e) + 1 : NthFree(e, j) \in 0 .. Count(e)
  BY EngineFacts
<1>2. at[t] \in 1 .. Count(e) /\ call[t].len \in NameLens
  BY DEF ThreadInv
<1>3. \A i \in Slots : IF i <= at[t] THEN slot'[t][i] \in Set
                                     ELSE slot'[t][i] = "unset"
  BY SMTT(40), <1>1, <1>2 DEF ThreadInv, Slots
<1>4. CASE at[t] < Count(e)
  <2>1. at'[t] = at[t] + 1 /\ pc'[t] = "alloc"
    BY <1>4 DEF Advance, Count, TypeOK
  <2>. QED
    BY SMTT(40), <1>1, <1>2, <1>3, <1>4, <2>1 DEF ThreadInv, Slots
<1>5. CASE at[t] = Count(e)
  <2>1. at'[t] = 1 /\ pc'[t] = IF MakesFile(e) THEN "fopen" ELSE "free"
    BY SMTT(40), <1>1, <1>5 DEF Advance, Count, TypeOK, MakesFile
  <2>2. CASE MakesFile(e)
    BY SMTT(40), <1>1, <1>2, <1>3, <1>5, <2>1, <2>2 DEF ThreadInv, Slots
  <2>3. CASE ~ MakesFile(e)
    <3>1. \A j \in 1 .. Count(e) + 1 : slot'[t][NthFree(e, j)] \in Set
      BY SMTT(40), <1>1, <1>3, <1>5 DEF Slots
    <3>. QED
      BY SMTT(40), <1>1, <1>2, <1>3, <1>5, <2>1, <2>3, <3>1 DEF ThreadInv, Slots
  <2>. QED
    BY <2>2, <2>3
<1>. QED
  BY SMTT(40), <1>1, <1>2, <1>4, <1>5

\* A member is allocated, or a strdup fails, or the process dies.
LEMMA AllocKeeps ==
    ASSUME NEW t \in Threads, IInv, AllocMember(t)
    PROVE  IInv'
<1>. DEFINE e == call[t].engine
            m == Members(e)[at[t]]
<1>. e \in Engines
  BY DEF IInv, TypeOK
<1>1. /\ Count(e) \in 1 .. 5
      /\ at[t] \in 1 .. Count(e)
      /\ call[t].len \in NameLens
      /\ pc[t] = "alloc"
  BY EngineFacts DEF IInv, ThreadInv, AllocMember
<1>2. m.path => Written(m, call[t].len) = Size(m, call[t].len)
  <2>1. /\ m.base \in Nat /\ m.ext \in Nat
        /\ m.path => m.format = m.base + m.ext
    BY <1>1, EngineShapes DEF Shape, Count, Members
  <2>2. call[t].len \in Nat
    BY <1>1, EngineAssumption
  <2>. HIDE DEF m
  <2>. QED
    BY SMTT(40), <2>1, <2>2 DEF Written, Size
<1>3. CASE Crash
  BY <1>3, CrashKeeps
<1>4. ASSUME NEW v \in Set, slot' = [slot EXCEPT ![t][at[t]] = v],
             exact' = exact, Advance(t),
             UNCHANGED <<call, code, badFree, inits, kept, started, files,
                         created, crashed>>
      PROVE  IInv'
  <2>1. slot' \in [Threads -> [Slots -> {"unset", "null", "live", "freed"}]]
    BY <1>4 DEF IInv, TypeOK, Set
  <2>2. /\ at' \in [Threads -> 0 .. 6]
        /\ pc' \in [Threads -> {"idle", "alloc", "fopen", "free"}]
    <3>1. CASE at[t] < Count(e)
      <4>1. at' = [at EXCEPT ![t] = at[t] + 1] /\ pc' = pc
        BY <1>4, <3>1 DEF Advance, Count
      <4>2. at[t] + 1 \in 0 .. 6
        BY SMTT(40), <1>1
      <4>. QED
        BY <4>1, <4>2 DEF IInv, TypeOK
    <3>2. CASE ~ (at[t] < Count(e))
      <4>1. /\ at' = [at EXCEPT ![t] = 1]
            /\ pc' = [pc EXCEPT ![t] = IF MakesFile(e) THEN "fopen" ELSE "free"]
        BY <1>4, <3>2 DEF Advance, Count, MakesFile
      <4>. QED
        BY SMTT(40), <4>1 DEF IInv, TypeOK
    <3>. QED
      BY <3>1, <3>2
  <2>3. TypeOK'
    BY <1>4, <2>1, <2>2 DEF IInv, TypeOK
  <2>4. /\ slot'[t][at[t]] \in Set
        /\ \A i \in Slots : i # at[t] => slot'[t][i] = slot[t][i]
    BY SMTT(40), <1>1, <1>4 DEF IInv, TypeOK, Slots
  <2>5. ThreadInv(t)'
    BY <1>1, <1>4, <2>1, <2>4, AdvanceInv DEF IInv
  <2>6. \A u \in Threads : u # t => ThreadInv(u)'
    BY <1>4, OtherThread DEF IInv, TypeOK, Advance
  <2>. QED
    BY <1>4, <2>3, <2>5, <2>6
    DEF IInv, Counters, PathsFit, NoBadFree, CreatedHasFile
<1>5. \/ Crash
      \/ \E v \in Set :
           /\ slot' = [slot EXCEPT ![t][at[t]] = v]
           /\ exact' = exact
           /\ Advance(t)
           /\ UNCHANGED <<call, code, badFree, inits, kept, started, files,
                          created, crashed>>
  BY <1>2 DEF AllocMember, Set, IInv, PathsFit
<1>. QED
  BY <1>3, <1>4, <1>5

\* The heap engine's file is created, or the call will return the IO code.
LEMMA OpenFileKeeps ==
    ASSUME NEW t \in Threads, IInv, OpenFile(t)
    PROVE  IInv'
<1>. DEFINE e == call[t].engine
<1>. e \in Engines
  BY DEF IInv, TypeOK
<1>1. /\ Count(e) \in 1 .. 5
      /\ \A j \in 1 .. Count(e) + 1 : NthFree(e, j) \in 0 .. Count(e)
  BY EngineFacts
<1>2. call[t].len \in NameLens
  BY DEF IInv, ThreadInv, OpenFile
<1>3. /\ files' \in SUBSET NameLens
      /\ code' \in [Threads -> {"SUCCESS", "MEMORY", "IO"}]
      /\ pc' \in [Threads -> {"idle", "alloc", "fopen", "free"}]
  BY <1>2 DEF IInv, TypeOK, OpenFile
<1>4. TypeOK'
  BY <1>3 DEF IInv, TypeOK, OpenFile
<1>5. ThreadInv(t)'
  <2>1. \A j \in 1 .. Count(e) + 1 : slot[t][NthFree(e, j)] \in Set
    BY SMTT(40), <1>1 DEF IInv, ThreadInv, OpenFile, Slots
  <2>2. code'[t] = "SUCCESS" => call[t].len \in files'
    BY DEF IInv, TypeOK, OpenFile
  <2>3. pc'[t] = "free"
    BY DEF IInv, TypeOK, OpenFile
  <2>. QED
    BY SMTT(40), <1>1, <1>2, <2>1, <2>2, <2>3 DEF IInv, ThreadInv, OpenFile, Slots
<1>6. \A u \in Threads : u # t => ThreadInv(u)'
  BY OtherThread DEF IInv, TypeOK, OpenFile
<1>. QED
  BY <1>4, <1>5, <1>6
  DEF IInv, Counters, PathsFit, NoBadFree, CreatedHasFile, OpenFile

\* A member is freed; with the last free the call is over.
LEMMA FreeKeeps ==
    ASSUME NEW t \in Threads, IInv, FreeMember(t)
    PROVE  IInv'
<1>. DEFINE e == call[t].engine
            i == NthFree(e, at[t])
<1>. e \in Engines
  BY DEF IInv, TypeOK
<1>1. /\ Count(e) \in 1 .. 5
      /\ Len(Frees(e)) = Count(e) + 1
      /\ \A j \in 1 .. Count(e) + 1 : NthFree(e, j) \in 0 .. Count(e)
      /\ \A j, k \in 1 .. Count(e) + 1 : NthFree(e, j) = NthFree(e, k) => j = k
      /\ \A k \in 0 .. Count(e) : \E j \in 1 .. Count(e) + 1 : NthFree(e, j) = k
  BY EngineFacts
<1>2. /\ pc[t] = "free"
      /\ call[t].len \in NameLens
      /\ at[t] \in 1 .. Count(e) + 1
      /\ \A j \in 1 .. Count(e) + 1 :
           IF j < at[t] THEN slot[t][NthFree(e, j)] = "freed"
                        ELSE slot[t][NthFree(e, j)] \in Set
      /\ \A k \in Slots : k > Count(e) => slot[t][k] = "unset"
      /\ MakesFile(e) /\ code[t] = "SUCCESS" => call[t].len \in files
  BY DEF IInv, ThreadInv, FreeMember
<1>3. i \in Slots /\ slot[t][i] \in Set
  BY SMTT(40), <1>1, <1>2 DEF Slots
<1>4. /\ badFree' = (badFree \/ slot[t][i] \in {"unset", "freed"})
      /\ slot' = [slot EXCEPT ![t][i] = "freed"]
      /\ UNCHANGED <<call, code, exact, inits, kept, started, files, crashed>>
      /\ \/ /\ at[t] < Count(e) + 1
            /\ at' = [at EXCEPT ![t] = at[t] + 1]
            /\ UNCHANGED <<pc, created>>
         \/ /\ at[t] = Count(e) + 1
            /\ pc' = [pc EXCEPT ![t] = "idle"]
            /\ at' = [at EXCEPT ![t] = 0]
            /\ created' = IF MakesFile(e) /\ code[t] = "SUCCESS"
                          THEN created \cup {call[t].len} ELSE created
  BY <1>1 DEF FreeMember, NthFree, MakesFile
<1>5. badFree' = FALSE
  <2>1. slot[t][i] \notin {"unset", "freed"}
    BY <1>3 DEF Set
  <2>2. badFree = FALSE
    BY DEF IInv, TypeOK, NoBadFree
  <2>. QED
    BY <1>4, <2>1, <2>2
<1>6. slot' \in [Threads -> [Slots -> {"unset", "null", "live", "freed"}]]
  BY <1>3, <1>4 DEF IInv, TypeOK
<1>7. /\ slot'[t][i] = "freed"
      /\ \A k \in Slots : k # i => slot'[t][k] = slot[t][k]
  BY SMTT(40), <1>3, <1>4 DEF IInv, TypeOK
<1>. HIDE DEF i, e
<1>8. /\ \A j \in 1 .. Count(e) + 1 :
           IF j <= at[t] THEN slot'[t][NthFree(e, j)] = "freed"
                         ELSE slot'[t][NthFree(e, j)] \in Set
      /\ \A k \in Slots : k > Count(e) => slot'[t][k] = "unset"
  <2>. i = NthFree(e, at[t])
    BY DEF i
  <2>1. ASSUME NEW j \in 1 .. Count(e) + 1
        PROVE  IF j <= at[t] THEN slot'[t][NthFree(e, j)] = "freed"
                             ELSE slot'[t][NthFree(e, j)] \in Set
    <3>1. NthFree(e, j) \in Slots
      BY SMTT(40), <1>1 DEF Slots
    <3>2. CASE j = at[t]
      BY SMTT(40), <1>2, <1>7, <3>2
    <3>3. CASE j # at[t]
      <4>1. NthFree(e, j) # i
        BY <1>1, <1>2, <3>3
      <4>2. slot'[t][NthFree(e, j)] = slot[t][NthFree(e, j)]
        BY <1>7, <3>1, <4>1
      <4>. QED
        BY SMTT(40), <1>1, <1>2, <3>3, <4>2
    <3>. QED
      BY <3>2, <3>3
  <2>2. ASSUME NEW k \in Slots, k > Count(e) PROVE slot'[t][k] = "unset"
    <3>1. k # i
      BY SMTT(40), <1>1, <1>2, <2>2 DEF Slots
    <3>. QED
      BY <1>2, <1>7, <2>2, <3>1
  <2>. QED
    BY <2>1, <2>2
<1>10. at[t] < Count(e) + 1 => at[t] + 1 \in 0 .. 6
  BY SMTT(40), <1>1, <1>2
<1>11. /\ at' \in [Threads -> 0 .. 6]
       /\ pc' \in [Threads -> {"idle", "alloc", "fopen", "free"}]
       /\ created' \in SUBSET NameLens
       /\ created' \subseteq files'
  <2>1. at' \in [Threads -> 0 .. 6]
    BY SMTT(40), <1>4, <1>10 DEF IInv, TypeOK
  <2>2. pc' \in [Threads -> {"idle", "alloc", "fopen", "free"}]
    BY <1>4 DEF IInv, TypeOK
  <2>. QED
    BY <1>2, <1>4, <2>1, <2>2 DEF IInv, TypeOK, CreatedHasFile
<1>12. TypeOK'
  BY <1>4, <1>5, <1>6, <1>11 DEF IInv, TypeOK
<1>13. ThreadInv(t)'
  <2>1. CASE at[t] < Count(e) + 1
    <3>1. at'[t] = at[t] + 1 /\ pc'[t] = "free"
      BY SMTT(40), <1>2, <1>4, <2>1 DEF IInv, TypeOK
    <3>2. \A j \in 1 .. Count(e) + 1 : j < at[t] + 1 <=> j <= at[t]
      BY SMTT(40), <1>1, <1>2
    <3>. QED
      BY SMTT(40), <1>1, <1>2, <1>4, <1>8, <2>1, <3>1, <3>2 DEF ThreadInv, e
  <2>2. CASE at[t] = Count(e) + 1
    <3>1. pc'[t] = "idle"
      BY SMTT(40), <1>1, <1>4, <2>2 DEF IInv, TypeOK
    <3>2. \A k \in Slots : slot'[t][k] # "live"
      <4>1. ASSUME NEW k \in Slots, k <= Count(e) PROVE slot'[t][k] = "freed"
        <5>1. PICK j \in 1 .. Count(e) + 1 : NthFree(e, j) = k
          BY SMTT(40), <1>1, <4>1 DEF Slots
        <5>. QED
          BY SMTT(40), <1>1, <1>8, <2>2, <5>1
      <4>2. ASSUME NEW k \in Slots PROVE k <= Count(e) \/ k > Count(e)
        BY SMTT(40), <1>1 DEF Slots
      <4>. QED
        BY <1>8, <4>1, <4>2
    <3>. QED
      BY <3>1, <3>2 DEF ThreadInv
  <2>. QED
    BY <1>4, <2>1, <2>2
<1>14. \A u \in Threads : u # t => ThreadInv(u)'
  BY <1>4, OtherThread DEF IInv, TypeOK
<1>. QED
  BY <1>4, <1>5, <1>11, <1>12, <1>13, <1>14
  DEF IInv, Counters, PathsFit, NoBadFree, CreatedHasFile

\* A process that is started again finds what the crash has left.
LEMMA RestartKeeps == IInv /\ Restart => IInv'
<1>. SUFFICES ASSUME IInv, Restart PROVE IInv'
  OBVIOUS
<1>1. crashed' \in BOOLEAN
  BY DEF Restart
<1>2. TypeOK'
  BY <1>1 DEF IInv, TypeOK, Restart, threadVars
<1>3. \A u \in Threads : ThreadInv(u)'
  BY OtherThread DEF IInv, Restart, threadVars
<1>. QED
  BY <1>2, <1>3
  DEF IInv, Counters, PathsFit, NoBadFree, CreatedHasFile, Restart

\* Every step keeps the invariant.
LEMMA NextKeeps == IInv /\ [Next]_vars => IInv'
<1>. SUFFICES ASSUME IInv, [Next]_vars PROVE IInv'
  OBVIOUS
<1>1. ASSUME NEW t \in Threads, NEW e \in Engines, storage_init(t, e) PROVE IInv'
  BY <1>1, InitKeeps
<1>2. ASSUME NEW t \in Threads, NEW e \in Engines, storage_cleanup(t, e) PROVE IInv'
  BY <1>2, CleanupKeeps
<1>3. ASSUME NEW t \in Threads, NEW e \in Engines, NEW n \in NameLens,
             CreateTable(t, e, n)
      PROVE  IInv'
  BY <1>3, CreateKeeps
<1>4. ASSUME NEW t \in Threads, Step(t) PROVE IInv'
  BY <1>4, AllocKeeps, OpenFileKeeps, FreeKeeps DEF Step
<1>5. CASE Restart
  BY <1>5, RestartKeeps
<1>6. CASE UNCHANGED vars
  <2>1. \A u \in Threads : ThreadInv(u)'
    BY <1>6, OtherThread DEF IInv, vars
  <2>. QED
    BY <1>6, <2>1
    DEF vars, IInv, TypeOK, Counters, PathsFit, NoBadFree, CreatedHasFile
<1>. QED
  BY <1>1, <1>2, <1>3, <1>4, <1>5, <1>6 DEF Next

-----------------------------------------------------------------------------
(* What holds in every reachable state *)

\* IInv is an invariant of the engines, whatever the number of threads, the
\* table names and the bound on storage_init calls.
THEOREM EnginesInvariant == Spec => []IInv
BY InitIInv, NextKeeps, PTL DEF Spec

\* Every variable of the engines' model has its type, the codes that
\* create_table returns and its place among members and frees included.
THEOREM EnginesTypeOK == Spec => []TypeOK
<1>1. IInv => TypeOK
  BY DEF IInv
<1>. QED
  BY <1>1, EnginesInvariant, PTL

\* Every path that a create_table function prints fills the buffer it has
\* allocated for it to the last byte, for names of every length.
THEOREM EnginesPathsFit == Spec => []PathsFit
<1>1. IInv => PathsFit
  BY DEF IInv
<1>. QED
  BY <1>1, EnginesInvariant, PTL

\* No create_table function frees a member it has not set or a block twice,
\* although the table struct is not cleared.
THEOREM EnginesNoBadFree == Spec => []NoBadFree
<1>1. IInv => NoBadFree
  BY DEF IInv
<1>. QED
  BY <1>1, EnginesInvariant, PTL

\* Every exit of a create_table function leaves no block behind, and the state
\* is well typed.
THEOREM EnginesNothingLeft == Spec => []NothingLeft
<1>1. IInv => NothingLeft
  BY DEF IInv, ThreadInv, NothingLeft
<1>. QED
  BY <1>1, EnginesInvariant, PTL

\* A name for which heap_create_table has returned SUCCESS has its file,
\* across crashes of the process.
THEOREM EnginesCreatedHasFile == Spec => []CreatedHasFile
<1>1. IInv => CreatedHasFile
  BY DEF IInv
<1>. QED
  BY <1>1, EnginesInvariant, PTL

-----------------------------------------------------------------------------
(* The calls on open tables *)

\* An argument that storage_engine_available accepts names an engine.
LEMMA LookupFacts ==
    ASSUME NEW n \in Int
    PROVE  /\ storage_engine_available(n) => n \in 0 .. STORAGE_MAX - 1
           /\ n \in 0 .. STORAGE_MAX - 1 =>
                storage_engine_name(n) \in 0 .. NumEngineNames - 1
           /\ storage_engine_name(n) \in -1 .. NumEngineNames - 1
           /\ error_message(n) \in -1 .. NumErrorMessages - 1
BY SMTT(40) DEF storage_engine_available, storage_engine_name, error_message,
   STORAGE_MAX, NumEngineNames, NumErrorMessages

\* A report of a call that the property allows.
Sound(c) ==
    /\ c.code \in {"SUCCESS", "INVALID_PARAM", "STORAGE_ENGINE"}
    /\ c.op = "storage_engine_name" => c.value \in -1 .. NumEngineNames - 1
    /\ c.op = "error_message" => c.value \in -1 .. NumErrorMessages - 1

\* The reports of the two forms are, unless they come from a lookup.
LEMMA ReportsSound ==
    ASSUME NEW op, op \notin {"storage_engine_name", "error_message"}
    PROVE  /\ \A value : Sound(Call(op, "SUCCESS", value))
           /\ \A reply \in {"SUCCESS", "INVALID_PARAM", "STORAGE_ENGINE"} :
                Sound(Plain(op, reply))
           /\ \A ok, value : Sound(Checked(op, ok, value))
<1>1. \A value : Sound(Call(op, "SUCCESS", value))
  BY DEF Sound, Call
<1>2. \A reply \in {"SUCCESS", "INVALID_PARAM", "STORAGE_ENGINE"} : Sound(Plain(op, reply))
  BY DEF Sound, Call, Plain
<1>. QED
  BY <1>1, <1>2 DEF Checked

\* What handles and the index variable hold, and what the last call reported.
Answers ==
    /\ open \in [Handles -> {Closed} \cup [name : Names, type : 0 .. STORAGE_MAX - 1]]
    /\ index \in {Unset, NullPtr}
    /\ Sound(last)

\* The client starts with it.
LEMMA CallsStart == CallsInit => Answers
BY ReportsSound DEF CallsInit, Answers

\* Every call keeps it.
LEMMA CallKeeps == Answers /\ [CallsNext]_callsVars => Answers'
<1>. SUFFICES ASSUME Answers, [CallsNext]_callsVars PROVE Answers'
  OBVIOUS
<1>. DEFINE Tables == {Closed} \cup [name : Names, type : 0 .. STORAGE_MAX - 1]
<1>a. /\ open \in [Handles -> Tables]
      /\ index \in {Unset, NullPtr}
      /\ Sound(last)
  BY DEF Answers
<1>b. ASSUME open' \in [Handles -> Tables], index' \in {Unset, NullPtr}, Sound(last')
      PROVE  Answers'
  BY <1>b DEF Answers, Sound, Closed, Unset, NullPtr, STORAGE_MAX,
     NumEngineNames, NumErrorMessages
<1>1. ASSUME NEW h \in Handles, NEW n \in Names, NEW type \in TypeArgs,
             create_table(h, n, type)
      PROVE  Answers'
  <2>1. CASE open' = open /\ last' = Plain("create_table", "STORAGE_ENGINE")
    BY <1>1, <1>a, <1>b, <2>1, ReportsSound DEF create_table
  <2>2. CASE /\ storage_engine_available(type)
             /\ open' = [open EXCEPT ![h] = [name |-> n, type |-> type]]
             /\ last' = Plain("create_table", "SUCCESS")
    <3>1. [name |-> n, type |-> type] \in Tables
      BY <2>2, LookupFacts, ArgsAssumption
    <3>. HIDE DEF Tables
    <3>2. open' \in [Handles -> Tables]
      BY <1>a, <2>2, <3>1
    <3>. QED
      BY <1>1, <1>a, <1>b, <2>2, <3>2, ReportsSound DEF create_table
  <2>. QED
    BY <1>1, <2>1, <2>2 DEF create_table
<1>2. ASSUME NEW h \in Handles, NEW n \in Names, open_table(h, n) PROVE Answers'
  <2>1. STORAGE_HEAP \in 0 .. STORAGE_MAX - 1
    BY SMTT(40) DEF STORAGE_HEAP, STORAGE_MAX
  <2>2. [name |-> n, type |-> STORAGE_HEAP] \in Tables
    BY <2>1
  <2>. HIDE DEF Tables
  <2>3. open' \in [Handles -> Tables]
    BY <1>a, <1>2, <2>2 DEF open_table
  <2>. QED
    BY <1>2, <1>a, <1>b, <2>3, ReportsSound DEF open_table
<1>3. ASSUME NEW h \in Handles, close_table(h) PROVE Answers'
  <2>1. Closed \in Tables
    OBVIOUS
  <2>. HIDE DEF Tables
  <2>2. open' \in [Handles -> Tables]
    BY <1>a, <1>3, <2>1 DEF close_table
  <2>. QED
    BY <1>3, <1>a, <1>b, <2>2, ReportsSound DEF close_table
<1>. HIDE DEF Tables
<1>4. ASSUME NEW h \in Handles, NEW ok \in BOOLEAN,
             insert(h, ok) \/ update(h, ok) \/ delete(h, ok) \/ select(h, ok)
      PROVE  Answers'
  BY <1>4, <1>a, <1>b, ReportsSound DEF insert, update, delete, select
<1>5. ASSUME NEW h \in Handles, NEW ok \in BOOLEAN,
             create_index(h, ok) \/ get_table_stats(h, ok)
      PROVE  Answers'
  BY <1>5, <1>a, <1>b, ReportsSound DEF create_index, get_table_stats
<1>6. ASSUME NEW h \in Handles,
             maintain("vacuum_table", h) \/ maintain("analyze_table", h)
      PROVE  Answers'
  BY <1>6, <1>a, <1>b, ReportsSound DEF maintain
<1>7. ASSUME drop_index \/ \E ok \in BOOLEAN : drop_table(ok) PROVE Answers'
  BY <1>7, <1>a, <1>b, ReportsSound DEF drop_index, drop_table
<1>8. ASSUME NEW type \in TypeArgs, ask_name(type) PROVE Answers'
  <2>1. storage_engine_name(type) \in -1 .. NumEngineNames - 1
    BY LookupFacts, ArgsAssumption
  <2>2. Sound(Call("storage_engine_name", "SUCCESS", storage_engine_name(type)))
    BY <2>1 DEF Sound, Call
  <2>. QED
    BY <1>8, <1>a, <1>b, <2>2 DEF ask_name
<1>9. ASSUME NEW error \in CodeArgs, ask_message(error) PROVE Answers'
  <2>1. error_message(error) \in -1 .. NumErrorMessages - 1
    BY LookupFacts, ArgsAssumption
  <2>2. Sound(Call("error_message", "SUCCESS", error_message(error)))
    BY <2>1 DEF Sound, Call
  <2>. QED
    BY <1>9, <1>a, <1>b, <2>2 DEF ask_message
<1>10. CASE UNCHANGED callsVars
  BY <1>10, <1>a, <1>b DEF callsVars
<1>11. CASE \E h \in Handles : OnTable(h)
  BY <1>11, <1>1, <1>2, <1>3, <1>4, <1>5, <1>6 DEF OnTable
<1>. QED
  BY <1>7, <1>8, <1>9, <1>10, <1>11 DEF CallsNext

\* What the calls keep is what the property says.
LEMMA AnswersSuffice == Answers => LookupsInBounds
<1>. SUFFICES ASSUME Answers PROVE LookupsInBounds
  OBVIOUS
<1>1. CallsTypeOK
  BY DEF Answers, Sound, CallsTypeOK
<1>2. ASSUME NEW h \in Handles, IsOpen(h)
      PROVE  storage_engine_name(open[h].type) \in 0 .. NumEngineNames - 1
  <2>1. open[h].type \in 0 .. STORAGE_MAX - 1
    BY <1>2 DEF Answers, IsOpen
  <2>2. open[h].type \in Int
    BY <2>1, SMTT(40) DEF STORAGE_MAX
  <2>. QED
    BY <2>1, <2>2, LookupFacts
<1>. QED
  BY <1>1, <1>2 DEF Answers, Sound, LookupsInBounds

\* No call of the core reads its array of engine names or of messages past the
\* end, and every handle is of an engine that has a name, for all handles,
\* names, types and codes.
THEOREM CallsLookInBounds == CallsSpec => []LookupsInBounds
<1>1. CallsSpec => []Answers
  BY CallsStart, CallKeeps, PTL DEF CallsSpec
<1>. QED
  BY <1>1, AnswersSuffice, PTL

-----------------------------------------------------------------------------
(* Numbers and powers of two *)

\* A set of numbers that is not empty has a least element.
LEMMA LeastNumber ==
    ASSUME NEW T \in SUBSET Nat, T # {}
    PROVE  \E x \in T : \A y \in T : x <= y
<1>1. PICK x \in T : \A y \in T : ~ (<<y, x>> \in OpToRel(<, Nat))
  BY NatLessThanWellFounded, WFMin
<1>2. ASSUME NEW y \in T PROVE x <= y
  <2>1. <<y, x>> \notin {ss \in Nat \X Nat : ss[1] < ss[2]}
    BY <1>1, Zenon DEF OpToRel
  <2>2. <<y, x>> \in Nat \X Nat /\ <<y, x>>[1] = y /\ <<y, x>>[2] = x
    BY SMTT(40)
  <2>3. ~ (y < x)
    BY <2>1, <2>2, SMTT(40)
  <2>. QED
    BY <2>3, SMTT(40)
<1>. QED
  BY <1>2

\* Induction on numbers, for a set.
LEMMA InductionOnSet ==
    ASSUME NEW S, 0 \in S, \A n \in Nat : n \in S => n + 1 \in S
    PROVE  Nat \subseteq S
<1>. DEFINE T == Nat \ S
<1>. SUFFICES ASSUME T # {} PROVE FALSE
  OBVIOUS
<1>1. PICK x \in T : \A y \in T : x <= y
  BY LeastNumber
<1>2. x # 0 /\ x - 1 \in Nat /\ x - 1 + 1 = x
  BY SMTT(40)
<1>3. x - 1 \notin T
  BY <1>1, <1>2, SMTT(40)
<1>. QED
  BY <1>2, <1>3

\* One round of the recursion of Pow2, and a table of its first n + 1 values.
Power(h, i) == IF i = 0 THEN 1 ELSE 2 * h[i - 1]
Powers(h, n) == h = [i \in 0 .. n |-> Power(h, i)]

\* There is such a table of every length.
LEMMA PowersExist ==
    ASSUME NEW n \in Nat
    PROVE  \E h : Powers(h, n)
<1>. DEFINE Ns == {k \in Nat : \E h : Powers(h, k)}
<1>1. 0 \in Ns
  <2>. DEFINE h == [i \in 0 .. 0 |-> 1]
  <2>1. \A i \in 0 .. 0 : Power(h, i) = 1
    <3>1. \A i \in 0 .. 0 : i = 0
      BY SMTT(40)
    <3>. QED
      BY <3>1 DEF Power
  <2>2. Powers(h, 0)
    BY <2>1 DEF Powers
  <2>. QED
    BY <2>2
<1>2. ASSUME NEW k \in Nat, k \in Ns PROVE k + 1 \in Ns
  <2>1. PICK h : Powers(h, k)
    BY <1>2
  <2>. DEFINE g == [i \in 0 .. k + 1 |-> Power(h, i)]
  <2>2. ASSUME NEW i \in 0 .. k + 1 PROVE Power(g, i) = Power(h, i)
    <3>1. CASE i = 0
      BY <3>1 DEF Power
    <3>2. CASE i # 0
      <4>1. i - 1 \in 0 .. k /\ i - 1 \in 0 .. k + 1
        BY <3>2, SMTT(40)
      <4>2. g[i - 1] = Power(h, i - 1) /\ h[i - 1] = Power(h, i - 1)
        BY <2>1, <4>1 DEF Powers
      <4>. HIDE DEF g
      <4>3. g[i - 1] = h[i - 1]
        BY <4>2
      <4>. QED
        BY <3>2, <4>3 DEF Power
    <3>. QED
      BY <3>1, <3>2
  <2>3. Powers(g, k + 1)
    BY <2>2 DEF Powers
  <2>4. k + 1 \in Nat
    BY SMTT(40)
  <2>. QED
    BY <2>3, <2>4
<1>. HIDE DEF Ns
<1>3. n \in Ns
  BY <1>1, <1>2, InductionOnSet
<1>. QED
  BY <1>3 DEF Ns

\* Two tables agree where both have values.
LEMMA PowersAgree ==
    ASSUME NEW n \in Nat, NEW m \in Nat, NEW g, NEW h, Powers(g, n), Powers(h, m),
           NEW i \in Nat, i <= n, i <= m
    PROVE  g[i] = h[i]
<1>. DEFINE Ns == {k \in Nat : k <= n /\ k <= m => g[k] = h[k]}
<1>1. \A k \in Nat : k <= n /\ k <= m => g[k] = Power(g, k) /\ h[k] = Power(h, k)
  <2>1. \A k \in Nat : k <= n /\ k <= m => k \in 0 .. n /\ k \in 0 .. m
    BY SMTT(40)
  <2>. QED
    BY <2>1 DEF Powers
<1>2. 0 \in Ns
  BY <1>1 DEF Power
<1>3. ASSUME NEW k \in Nat, k \in Ns PROVE k + 1 \in Ns
  <2>. SUFFICES ASSUME k + 1 <= n, k + 1 <= m PROVE g[k + 1] = h[k + 1]
    BY SMTT(40)
  <2>1. PICK l \in Nat : l = k + 1 /\ l # 0 /\ l - 1 = k /\ k <= n /\ k <= m
    BY SMTT(40)
  <2>2. g[k] = h[k]
    BY <1>3, <2>1
  <2>3. g[l] = Power(g, l) /\ h[l] = Power(h, l)
    BY <1>1, <2>1
  <2>4. Power(g, l) = 2 * g[k] /\ Power(h, l) = 2 * h[k]
    BY <2>1 DEF Power
  <2>. QED
    BY <2>1, <2>2, <2>3, <2>4
<1>. HIDE DEF Ns
<1>4. i \in Ns
  BY <1>2, <1>3, InductionOnSet
<1>. QED
  BY <1>4 DEF Ns

\* Pow2 is the function that its definition describes.
LEMMA Pow2Defined ==
    \A n \in Nat : Pow2[n] = Power(Pow2, n)
<1>. DEFINE t(n) == CHOOSE h : Powers(h, n)
            G == [n \in Nat |-> t(n)[n]]
<1>1. \A n \in Nat : Powers(t(n), n)
  BY PowersExist
<1>2. ASSUME NEW n \in Nat PROVE t(n)[n] = Power(G, n)
  <2>. HIDE DEF t
  <2>1. t(n)[n] = Power(t(n), n)
    <3>1. n \in 0 .. n
      BY SMTT(40)
    <3>. QED
      BY <1>1, <3>1 DEF Powers
  <2>2. CASE n = 0
    BY <2>1, <2>2 DEF Power
  <2>3. CASE n # 0
    <3>1. PICK k \in Nat : k = n - 1 /\ k <= n /\ k <= k
      BY <2>3, SMTT(40)
    <3>2. PICK g, h : g = t(n) /\ h = t(k)
      OBVIOUS
    <3>3. Powers(g, n) /\ Powers(h, k)
      BY <1>1, <3>2
    <3>4. g[k] = h[k]
      <4>. HIDE DEF G
      <4>. QED
        BY <3>1, <3>3, PowersAgree, SMTT(40)
    <3>5. G[k] = h[k]
      BY <3>2
    <3>6. Power(g, n) = 2 * g[k] /\ Power(G, n) = 2 * G[k]
      BY <2>3, <3>1 DEF Power
    <3>. QED
      BY <2>1, <3>2, <3>4, <3>5, <3>6
  <2>. QED
    BY <2>2, <2>3
<1>3. G = [n \in Nat |-> Power(G, n)]
  BY <1>2
<1>. HIDE DEF G
<1>4. Pow2 = CHOOSE f : f = [n \in Nat |-> Power(f, n)]
  BY DEF Pow2, Power
<1>5. Pow2 = [n \in Nat |-> Power(Pow2, n)]
  <2>. DEFINE Rec(f) == f = [n \in Nat |-> Power(f, n)]
  <2>1. Rec(G)
    BY <1>3
  <2>2. Pow2 = CHOOSE f : Rec(f)
    BY <1>4
  <2>. HIDE DEF Rec
  <2>3. Rec(Pow2)
    BY <2>1, <2>2
  <2>. QED
    BY <2>3 DEF Rec
<1>. QED
  BY <1>5

\* The equations of powers of two.
LEMMA Pow2Facts ==
    /\ Pow2[0] = 1
    /\ \A n \in Nat : Pow2[n] \in Nat \ {0} /\ Pow2[n + 1] = 2 * Pow2[n]
<1>1. Pow2[0] = 1
  BY Pow2Defined DEF Power
<1>2. ASSUME NEW n \in Nat PROVE Pow2[n + 1] = 2 * Pow2[n]
  <2>1. PICK m \in Nat : m = n + 1 /\ m # 0 /\ m - 1 = n
    BY SMTT(40)
  <2>2. Pow2[m] = 2 * Pow2[m - 1]
    BY <2>1, Pow2Defined DEF Power
  <2>. QED
    BY <2>1, <2>2
<1>. DEFINE Ns == {n \in Nat : Pow2[n] \in Nat \ {0}}
<1>3. 0 \in Ns
  BY <1>1, SMTT(40)
<1>4. ASSUME NEW n \in Nat, n \in Ns PROVE n + 1 \in Ns
  <2>1. \A x \in Nat \ {0} : 2 * x \in Nat \ {0}
    BY SMTT(40)
  <2>2. n + 1 \in Nat
    BY SMTT(40)
  <2>. QED
    BY <1>2, <1>4, <2>1, <2>2
<1>. HIDE DEF Ns
<1>5. Nat \subseteq Ns
  BY <1>3, <1>4, InductionOnSet
<1>. QED
  BY <1>1, <1>2, <1>5 DEF Ns

\* A power of a sum is the product of the powers.
LEMMA Pow2Add ==
    ASSUME NEW a \in Nat, NEW b \in Nat
    PROVE  Pow2[a + b] = Pow2[a] * Pow2[b]
<1>. DEFINE Ns == {n \in Nat : Pow2[a + n] = Pow2[a] * Pow2[n]}
<1>1. 0 \in Ns
  <2>1. a + 0 = a /\ \A x \in Nat : x * 1 = x
    BY SMTT(40)
  <2>. QED
    BY <2>1, Pow2Facts
<1>2. ASSUME NEW n \in Nat, n \in Ns PROVE n + 1 \in Ns
  <2>1. a + n \in Nat /\ n + 1 \in Nat /\ a + (n + 1) = (a + n) + 1
    BY SMTT(40)
  <2>2. \A x, y \in Nat : 2 * (x * y) = x * (2 * y)
    BY SMTT(40)
  <2>3. Pow2[a] \in Nat /\ Pow2[n] \in Nat
    BY Pow2Facts
  <2>4. Pow2[a + (n + 1)] = 2 * Pow2[a + n]
    BY <2>1, Pow2Facts
  <2>5. Pow2[a + n] = Pow2[a] * Pow2[n] /\ Pow2[n + 1] = 2 * Pow2[n]
    BY <1>2, Pow2Facts
  <2>6. Pow2[a + (n + 1)] = Pow2[a] * Pow2[n + 1]
    <3>1. 2 * (Pow2[a] * Pow2[n]) = Pow2[a] * (2 * Pow2[n])
      BY <2>2, <2>3
    <3>. QED
      BY <2>4, <2>5, <3>1
  <2>. QED
    BY <2>1, <2>6
<1>. HIDE DEF Ns
<1>3. b \in Ns
  BY <1>1, <1>2, InductionOnSet
<1>. QED
  BY <1>3 DEF Ns

\* Powers grow: the next one is at least twice as large.
LEMMA Pow2Grows ==
    ASSUME NEW a \in Nat, NEW b \in Nat
    PROVE  /\ a <= b => Pow2[a] <= Pow2[b]
           /\ a < b => 2 * Pow2[a] <= Pow2[b]
<1>1. ASSUME a <= b PROVE Pow2[a] <= Pow2[b]
  <2>1. PICK c \in Nat : b = a + c
    <3>1. b - a \in Nat /\ b = a + (b - a)
      BY <1>1, SMTT(40)
    <3>. QED
      BY <3>1
  <2>2. Pow2[b] = Pow2[a] * Pow2[c]
    BY <2>1, Pow2Add
  <2>3. \A x, y \in Nat \ {0} : x <= x * y
    BY SMTT(40)
  <2>. QED
    BY <2>2, <2>3, Pow2Facts
<1>2. ASSUME a < b PROVE 2 * Pow2[a] <= Pow2[b]
  <2>1. PICK c \in Nat : b = (a + 1) + c /\ a + 1 \in Nat
    <3>1. b - (a + 1) \in Nat /\ b = (a + 1) + (b - (a + 1)) /\ a + 1 \in Nat
      BY <1>2, SMTT(40)
    <3>. QED
      BY <3>1
  <2>2. Pow2[b] = Pow2[a + 1] * Pow2[c] /\ Pow2[a + 1] = 2 * Pow2[a]
    BY <2>1, Pow2Add, Pow2Facts
  <2>3. \A x, y \in Nat \ {0} : x <= x * y
    BY SMTT(40)
  <2>4. Pow2[a + 1] \in Nat \ {0} /\ Pow2[c] \in Nat \ {0}
    BY <2>1, Pow2Facts
  <2>. QED
    BY <2>2, <2>3, <2>4
<1>. QED
  BY <1>1, <1>2

\* A number is less than its power.
LEMMA Pow2Above ==
    ASSUME NEW n \in Nat
    PROVE  n < Pow2[n]
<1>. DEFINE Ns == {k \in Nat : k < Pow2[k]}
<1>1. 0 \in Ns
  BY Pow2Facts, SMTT(40)
<1>2. ASSUME NEW k \in Nat, k \in Ns PROVE k + 1 \in Ns
  <2>1. Pow2[k] \in Nat /\ k < Pow2[k] /\ Pow2[k + 1] = 2 * Pow2[k]
    BY <1>2, Pow2Facts
  <2>. QED
    BY <2>1, SMTT(40)
<1>. HIDE DEF Ns
<1>3. n \in Ns
  BY <1>1, <1>2, InductionOnSet
<1>. QED
  BY <1>3 DEF Ns

-----------------------------------------------------------------------------
(* The format *)

\* The number of significands, and the spacing of the largest numbers.
Significands == Pow2[Precision]
TopExp == MaxExp + Scale - Precision + 1
TopStep == Pow2[TopExp]

\* What the format's numbers are.
LEMMA FormatFacts ==
    /\ Precision \in Nat /\ Scale \in Nat /\ TopExp \in Nat
    /\ Significands \in Nat /\ Significands >= 8 /\ Significands % 2 = 0
    /\ One \in Nat /\ One >= 4
    /\ TopStep \in Nat /\ TopStep >= 1
    /\ MaxFinite = (Significands - 1) * TopStep
    /\ MaxFinite \in Nat /\ MaxFinite >= 1
    /\ Inf = MaxFinite + 1 /\ NaN = MaxFinite + 2
<1>1. /\ Precision \in Nat /\ Precision >= 3 /\ Scale \in Nat /\ Scale >= 2
      /\ TopExp \in Nat
  BY FormatAssumption, SMTT(40) DEF Scale, TopExp
<1>2. Pow2[1] = 2 /\ Pow2[2] = 4 /\ Pow2[3] = 8
  <2>1. Pow2[0 + 1] = 2 * 1 /\ Pow2[1 + 1] = 2 * Pow2[1] /\ Pow2[2 + 1] = 2 * Pow2[2]
    BY Pow2Facts, SMTT(40)
  <2>2. 0 + 1 = 1 /\ 1 + 1 = 2 /\ 2 + 1 = 3 /\ 2 * 1 = 2 /\ 2 * 2 = 4 /\ 2 * 4 = 8
    BY SMTT(40)
  <2>. QED
    BY <2>1, <2>2
<1>3. Significands \in Nat /\ Significands >= 8
  <2>1. 3 \in Nat /\ 3 <= Precision
    BY <1>1, SMTT(40)
  <2>2. Pow2[3] <= Pow2[Precision] /\ Pow2[Precision] \in Nat
    BY <1>1, <2>1, Pow2Grows, Pow2Facts
  <2>. QED
    BY <1>2, <2>2, SMTT(40) DEF Significands
<1>4. One \in Nat /\ One >= 4
  <2>1. 2 \in Nat /\ 2 <= Scale
    BY <1>1, SMTT(40)
  <2>2. Pow2[2] <= Pow2[Scale] /\ Pow2[Scale] \in Nat
    BY <1>1, <2>1, Pow2Grows, Pow2Facts
  <2>. QED
    BY <1>2, <2>2, SMTT(40) DEF One
<1>5. Significands % 2 = 0
  <2>1. PICK p \in Nat : Precision = p + 1
    <3>1. Precision - 1 \in Nat /\ Precision = (Precision - 1) + 1
      BY <1>1, SMTT(40)
    <3>. QED
      BY <3>1
  <2>2. Significands = 2 * Pow2[p] /\ Pow2[p] \in Nat
    BY <2>1, Pow2Facts DEF Significands
  <2>. QED
    BY <2>2, SMTT(40)
<1>6. TopStep \in Nat /\ TopStep >= 1
  <2>1. TopStep \in Nat \ {0}
    BY <1>1, Pow2Facts DEF TopStep
  <2>. QED
    BY <2>1, SMTT(40)
<1>7. MaxFinite = (Significands - 1) * TopStep
  BY DEF MaxFinite, Significands, TopStep, TopExp
<1>8. MaxFinite \in Nat /\ MaxFinite >= 1
  <2>1. \A x, y \in Nat : x >= 8 /\ y >= 1 => (x - 1) * y \in Nat /\ (x - 1) * y >= 1
    BY SMTT(40)
  <2>. QED
    BY <1>3, <1>6, <1>7, <2>1
<1>. QED
  BY <1>1, <1>3, <1>4, <1>5, <1>6, <1>7, <1>8 DEF Inf, NaN

\* The spacing at k is the least for which the significand fits.
LEMMA SpacingFacts ==
    ASSUME NEW k \in Nat
    PROVE  /\ Spacing(k) \in Nat
           /\ k < Significands * Pow2[Spacing(k)]
           /\ Spacing(k) > 0 => Significands * Pow2[Spacing(k)] <= 2 * k
<1>. DEFINE Fits(j) == k < Pow2[Precision + j]
            Tight(j) == j > 0 => Pow2[Precision + j - 1] <= k
            T == {j \in Nat : Fits(j)}
<1>1. Precision \in Nat /\ \A j \in Nat : Precision + j \in Nat /\ Pow2[Precision + j] \in Nat
  <2>1. Precision \in Nat /\ \A j \in Nat : Precision + j \in Nat
    BY FormatFacts, SMTT(40)
  <2>. QED
    BY <2>1, Pow2Facts
<1>2. k \in T
  <2>1. k < Pow2[k]
    BY Pow2Above
  <2>2. k <= Precision + k
    BY <1>1, SMTT(40)
  <2>3. Pow2[k] <= Pow2[Precision + k] /\ Pow2[k] \in Nat
    BY <1>1, <2>2, Pow2Grows, Pow2Facts
  <2>. QED
    BY <1>1, <2>1, <2>3, SMTT(40)
<1>3. PICK x \in T : \A y \in T : x <= y
  <2>1. T \in SUBSET Nat /\ T # {}
    BY <1>2
  <2>. HIDE DEF T
  <2>. QED
    BY <2>1, LeastNumber
<1>4. x \in 0 .. k
  BY <1>2, <1>3, SMTT(40)
<1>5. Tight(x)
  <2>. SUFFICES ASSUME x > 0 PROVE Pow2[Precision + x - 1] <= k
    OBVIOUS
  <2>1. x \in Nat /\ x - 1 \in Nat /\ Precision + x - 1 = Precision + (x - 1) /\ ~(x <= x - 1)
    BY <1>1, SMTT(40)
  <2>2. x - 1 \notin T
    BY <1>3, <2>1
  <2>3. ~(k < Pow2[Precision + (x - 1)]) /\ Pow2[Precision + (x - 1)] \in Nat
    BY <1>1, <2>1, <2>2
  <2>4. Pow2[Precision + (x - 1)] <= k
    BY <2>3, SMTT(40)
  <2>. QED
    BY <2>1, <2>4
<1>6. Spacing(k) = CHOOSE j \in 0 .. k : Fits(j) /\ Tight(j)
  BY DEF Spacing
<1>7. PICK j : j = Spacing(k) /\ j \in 0 .. k /\ Fits(j) /\ Tight(j)
  <2>1. \E j \in 0 .. k : Fits(j) /\ Tight(j)
    BY <1>3, <1>4, <1>5
  <2>. HIDE DEF Fits, Tight
  <2>. QED
    BY <1>6, <2>1
<1>8. j \in Nat
  BY <1>7, SMTT(40)
<1>9. Pow2[Precision + j] = Significands * Pow2[j]
  BY <1>1, <1>8, Pow2Add DEF Significands
<1>10. j > 0 => Significands * Pow2[j] <= 2 * k
  <2>. SUFFICES ASSUME j > 0 PROVE Significands * Pow2[j] <= 2 * k
    OBVIOUS
  <2>1. PICK e \in Nat : e = Precision + j - 1 /\ e + 1 = Precision + j
    <3>1. Precision + j - 1 \in Nat /\ (Precision + j - 1) + 1 = Precision + j
      BY <1>1, <1>8, SMTT(40)
    <3>. QED
      BY <3>1
  <2>2. Pow2[Precision + j] = 2 * Pow2[e] /\ Pow2[e] \in Nat
    BY <2>1, Pow2Facts
  <2>3. Pow2[e] <= k
    BY <1>7, <2>1
  <2>4. 2 * Pow2[e] <= 2 * k
    BY <2>2, <2>3, SMTT(40)
  <2>. QED
    BY <1>9, <2>2, <2>4
<1>. QED
  BY <1>7, <1>8, <1>9, <1>10

-----------------------------------------------------------------------------
(* Rounding *)

\* Division with a remainder.
LEMMA Division ==
    ASSUME NEW n \in Nat, NEW d \in Nat \ {0}
    PROVE  n \div d \in Nat /\ (n \div d) * d <= n /\ n < (n \div d + 1) * d
BY SMTT(40)

\* The value n / d is between q and q + 1 steps, with as many significant bits as
\* there are; c, the nearer of the two, is what RoundRatio takes, the even one
\* if n / d is in the middle.
RatioParts(n, d, j, q, c) ==
    /\ j \in Nat /\ q \in Nat /\ c \in {q, q + 1}
    /\ q * (d * Pow2[j]) <= n /\ n < (q + 1) * (d * Pow2[j])
    /\ q < Significands
    /\ j > 0 => Significands <= 2 * q
    /\ c = q + 1 <=> \/ 2 * n > (2 * q + 1) * (d * Pow2[j])
                     \/ 2 * n = (2 * q + 1) * (d * Pow2[j]) /\ q % 2 = 1
    /\ RoundRatio(n, d) = Overflow(c * Pow2[j])

\* There are such parts of every ratio.
LEMMA RatioSplit ==
    ASSUME NEW n \in Nat, NEW d \in Nat \ {0}
    PROVE  \E j, q, c : RatioParts(n, d, j, q, c)
<1>1. PICK k : k = n \div d
  OBVIOUS
<1>2. k \in Nat /\ k * d <= n /\ n < (k + 1) * d
  BY <1>1, Division
<1>3. PICK j : j = Spacing(k)
  OBVIOUS
<1>4. PICK s : s = Pow2[j]
  OBVIOUS
<1>5. /\ j \in Nat /\ s \in Nat \ {0} /\ k < Significands * s
      /\ j > 0 => Significands * s <= 2 * k
  BY <1>2, <1>3, <1>4, SpacingFacts, Pow2Facts
<1>6. PICK D : D = d * s
  OBVIOUS
<1>7. D \in Nat \ {0}
  BY <1>5, <1>6, SMTT(40)
<1>8. PICK q : q = n \div D
  OBVIOUS
<1>9. q \in Nat /\ q * D <= n /\ n < (q + 1) * D
  BY <1>7, <1>8, Division
<1>10. q < Significands
  <2>1. PICK t \in Nat : t = Significands * s /\ k + 1 <= t
    <3>1. Significands * s \in Nat
      BY <1>5, FormatFacts, SMTT(40)
    <3>. QED
      BY <1>2, <1>5, <3>1, SMTT(40)
  <2>2. n < t * d
    <3>1. \A a, b, e \in Nat : a + 1 <= b => (a + 1) * e <= b * e
      BY SMTT(40)
    <3>2. (k + 1) * d <= t * d
      BY <1>2, <2>1, <3>1
    <3>. QED
      BY <1>2, <2>1, <3>2, SMTT(40)
  <2>3. t * d = Significands * D
    BY <1>5, <1>6, <2>1, FormatFacts, SMTT(40)
  <2>4. \A a, b, e \in Nat : a * e < b * e => a < b
    BY SMTT(40)
  <2>5. q * D < Significands * D
    BY <1>7, <1>9, <2>2, <2>3, FormatFacts, SMTT(40)
  <2>. QED
    BY <1>7, <1>9, <2>4, <2>5, FormatFacts
<1>11. j > 0 => Significands <= 2 * q
  <2>. SUFFICES ASSUME j > 0 PROVE Significands <= 2 * q
    OBVIOUS
  <2>1. PICK h \in Nat : Significands = 2 * h
    <3>1. Significands \div 2 \in Nat /\ Significands = 2 * (Significands \div 2)
      BY FormatFacts, SMTT(40)
    <3>. QED
      BY <3>1
  <2>2. h * s <= k
    <3>1. (2 * h) * s <= 2 * k
      BY <1>5, <2>1
    <3>2. (2 * h) * s = 2 * (h * s) /\ h * s \in Nat
      BY <1>5, SMTT(40)
    <3>. QED
      BY <1>2, <3>1, <3>2, SMTT(40)
  <2>3. h * D <= n
    <3>1. \A a, b, e \in Nat : a <= b => a * e <= b * e
      BY SMTT(40)
    <3>2. h * s \in Nat /\ h * D = (h * s) * d
      BY <1>5, <1>6, SMTT(40)
    <3>3. (h * s) * d <= k * d
      BY <1>2, <2>2, <3>1, <3>2
    <3>4. (h * s) * d \in Nat /\ k * d \in Nat
      BY <1>2, <3>2, SMTT(40)
    <3>. QED
      BY <1>2, <3>2, <3>3, <3>4, SMTT(40)
  <2>4. h < q + 1
    <3>1. \A a, b, e \in Nat : a * e < b * e => a < b
      BY SMTT(40)
    <3>2. h * D < (q + 1) * D
      BY <1>7, <1>9, <2>3, SMTT(40)
    <3>3. q + 1 \in Nat /\ D \in Nat
      BY <1>7, <1>9, SMTT(40)
    <3>. QED
      BY <3>1, <3>2, <3>3
  <2>. QED
    BY <1>9, <2>1, <2>4, SMTT(40)
<1>12. PICK up \in BOOLEAN : up <=> \/ 2 * n > (2 * q + 1) * D
                                    \/ 2 * n = (2 * q + 1) * D /\ q % 2 = 1
  OBVIOUS
<1>13. PICK c : c = IF up THEN q + 1 ELSE q
  OBVIOUS
<1>14. RoundRatio(n, d) = Overflow(c * s)
  <2>. DEFINE rest == 2 * (n - q * d * s)
  <2>1. RoundRatio(n, d) =
          Overflow((IF rest > D \/ (rest = D /\ q % 2 = 1) THEN q + 1 ELSE q) * s)
    BY <1>1, <1>3, <1>4, <1>6, <1>8 DEF RoundRatio
  <2>2. q * d * s = q * D
    BY <1>5, <1>6, <1>9, SMTT(40)
  <2>3. q * D \in Nat /\ (2 * q + 1) * D = 2 * (q * D) + D
    BY <1>7, <1>9, SMTT(40)
  <2>4. rest > D <=> 2 * n > (2 * q + 1) * D
    BY <1>7, <2>2, <2>3, SMTT(40)
  <2>5. rest = D <=> 2 * n = (2 * q + 1) * D
    BY <1>7, <2>2, <2>3, SMTT(40)
  <2>. HIDE DEF rest
  <2>. QED
    BY <1>12, <1>13, <2>1, <2>4, <2>5
<1>15. c \in {q, q + 1} /\ (c = q + 1 <=> up)
  <2>1. q # q + 1
    BY <1>9, SMTT(40)
  <2>. QED
    BY <1>13, <2>1
<1>16. RatioParts(n, d, j, q, c)
  BY <1>4, <1>5, <1>6, <1>9, <1>10, <1>11, <1>12, <1>14, <1>15 DEF RatioParts
<1>. QED
  BY <1>16

\* A ratio overflows if it is half a step or more above the greatest number.
LEMMA RatioOverflows ==
    ASSUME NEW n \in Nat, NEW d \in Nat \ {0}
    PROVE  RoundRatio(n, d) = Inf <=> 2 * n >= (2 * Significands - 1) * (d * TopStep)
<1>1. PICK j, q, c : RatioParts(n, d, j, q, c)
  BY RatioSplit
<1>2. PICK S \in Nat, T \in Nat : /\ S = Significands /\ T = TopStep
                                  /\ S >= 8 /\ S % 2 = 0 /\ T >= 1
  BY FormatFacts
<1>3. PICK s \in Nat : s = Pow2[j] /\ s >= 1
  <2>1. Pow2[j] \in Nat \ {0}
    BY <1>1, Pow2Facts DEF RatioParts
  <2>. QED
    BY <2>1, SMTT(40)
<1>4. PICK D \in Nat : D = d * s /\ D >= 1
  BY <1>3, SMTT(40)
<1>5. PICK U \in Nat : U = d * T /\ U >= 1
  BY <1>2, SMTT(40)
<1>6. /\ j \in Nat /\ q \in Nat /\ c \in Nat /\ c \in {q, q + 1}
      /\ q * D <= n /\ n < (q + 1) * D
      /\ q < S
      /\ j > 0 => S <= 2 * q
      /\ c = q + 1 <=> \/ 2 * n > (2 * q + 1) * D
                       \/ 2 * n = (2 * q + 1) * D /\ q % 2 = 1
      /\ RoundRatio(n, d) = Overflow(c * s)
  <2>1. /\ j \in Nat /\ q \in Nat /\ c \in {q, q + 1}
        /\ q * D <= n /\ n < (q + 1) * D
        /\ q < S
        /\ j > 0 => S <= 2 * q
        /\ c = q + 1 <=> \/ 2 * n > (2 * q + 1) * D
                         \/ 2 * n = (2 * q + 1) * D /\ q % 2 = 1
        /\ RoundRatio(n, d) = Overflow(c * s)
    BY <1>1, <1>2, <1>3, <1>4 DEF RatioParts
  <2>2. c \in Nat
    BY <2>1, SMTT(40)
  <2>. QED
    BY <2>1, <2>2
<1>7. RoundRatio(n, d) = Inf <=> c * s > (S - 1) * T
  <2>1. c * s \in Nat /\ (S - 1) * T \in Nat
    BY <1>2, <1>3, <1>6, SMTT(40)
  <2>2. \A x, y \in Nat : (IF x > y THEN y + 1 ELSE x) = y + 1 <=> x > y
    BY SMTT(40)
  <2>3. RoundRatio(n, d) = IF c * s > MaxFinite THEN MaxFinite + 1 ELSE c * s
    BY <1>6 DEF Overflow, Inf
  <2>4. MaxFinite = (S - 1) * T /\ Inf = MaxFinite + 1
    BY <1>2, FormatFacts
  <2>. QED
    BY <2>1, <2>2, <2>3, <2>4
<1>. SUFFICES c * s > (S - 1) * T <=> 2 * n >= (2 * S - 1) * U
  BY <1>2, <1>5, <1>7
<1>8. TopExp \in Nat
  BY FormatFacts
<1>9. CASE j < TopExp
  <2>1. 2 * s <= T
    BY <1>2, <1>3, <1>6, <1>8, <1>9, Pow2Grows DEF TopStep
  <2>2. 2 * D <= U
    <3>1. \A x, y, z \in Nat : 2 * y <= z => 2 * (x * y) <= x * z
      BY SMTT(40)
    <3>. QED
      BY <1>4, <1>5, <2>1, <3>1
  <2>3. ~(c * s > (S - 1) * T)
    <3>1. c <= S /\ S <= 2 * (S - 1)
      BY <1>2, <1>6, SMTT(40)
    <3>2. c * s <= S * s
      BY <1>6, <3>1, SMTT(40)
    <3>3. S * s <= (2 * (S - 1)) * s
      BY <1>2, <3>1, SMTT(40)
    <3>4. (2 * (S - 1)) * s = (S - 1) * (2 * s)
      BY <1>2, SMTT(40)
    <3>5. (S - 1) * (2 * s) <= (S - 1) * T
      BY <1>2, <2>1, SMTT(40)
    <3>6. c * s \in Nat /\ S * s \in Nat /\ (S - 1) * (2 * s) \in Nat /\ (S - 1) * T \in Nat
      BY <1>2, <1>6, SMTT(40)
    <3>. QED
      BY <3>2, <3>3, <3>4, <3>5, <3>6, SMTT(40)
  <2>4. ~(2 * n >= (2 * S - 1) * U)
    <3>1. (q + 1) * D <= S * D
      BY <1>2, <1>6, SMTT(40)
    <3>2. n < S * D
      BY <1>2, <1>4, <1>6, <3>1, SMTT(40)
    <3>3. S * (2 * D) <= S * U
      BY <1>2, <2>2, SMTT(40)
    <3>4. 2 * n < S * U
      BY <1>2, <1>4, <3>2, <3>3, SMTT(40)
    <3>5. S * U <= (2 * S - 1) * U
      BY <1>2, <1>5, SMTT(40)
    <3>6. S * U \in Nat /\ (2 * S - 1) * U \in Nat
      BY <1>2, SMTT(40)
    <3>. QED
      BY <3>4, <3>5, <3>6, SMTT(40)
  <2>. QED
    BY <2>3, <2>4
<1>10. CASE j = TopExp
  <2>1. s = T /\ D = U
    BY <1>2, <1>3, <1>4, <1>5, <1>10 DEF TopStep
  <2>2. c * s > (S - 1) * T <=> c = S
    <3>1. c <= S
      BY <1>2, <1>6, SMTT(40)
    <3>2. c = S => c * T > (S - 1) * T
      BY <1>2, SMTT(40)
    <3>3. c <= S - 1 => c * T <= (S - 1) * T
      BY <1>2, <1>6, SMTT(40)
    <3>4. c * T \in Nat /\ (S - 1) * T \in Nat
      BY <1>2, <1>6, SMTT(40)
    <3>5. c = S \/ c <= S - 1
      BY <1>2, <1>6, <3>1, SMTT(40)
    <3>6. ~(c * T > (S - 1) * T /\ c * T <= (S - 1) * T)
      BY <3>4, SMTT(40)
    <3>. QED
      BY <2>1, <3>2, <3>3, <3>5, <3>6
  <2>3. CASE q = S - 1
    <3>1. q % 2 = 1 /\ 2 * q + 1 = 2 * S - 1 /\ q + 1 = S
      BY <1>2, <2>3, SMTT(40)
    <3>2. (2 * S - 1) * U \in Nat
      BY <1>2, SMTT(40)
    <3>3. c = S <=> 2 * n > (2 * S - 1) * U \/ 2 * n = (2 * S - 1) * U
      BY <1>6, <2>1, <3>1
    <3>. QED
      BY <2>2, <3>2, <3>3, SMTT(40)
  <2>4. CASE q # S - 1
    <3>1. q + 1 <= S - 1 /\ c # S
      BY <1>2, <1>6, <2>4, SMTT(40)
    <3>2. (q + 1) * U <= (S - 1) * U
      BY <1>2, <1>6, <3>1, SMTT(40)
    <3>3. n < (S - 1) * U
      BY <1>2, <1>6, <2>1, <3>2, SMTT(40)
    <3>4. (2 * S - 1) * U = 2 * ((S - 1) * U) + U /\ (S - 1) * U \in Nat
      BY <1>2, SMTT(40)
    <3>5. ~(2 * n >= (2 * S - 1) * U)
      BY <3>3, <3>4, SMTT(40)
    <3>. QED
      BY <2>2, <3>1, <3>5
  <2>. QED
    BY <2>3, <2>4
<1>11. CASE j > TopExp
  <2>1. 2 * T <= s /\ S <= 2 * q
    <3>1. TopExp < j /\ j > 0
      BY <1>6, <1>8, <1>11, SMTT(40)
    <3>. QED
      BY <1>2, <1>3, <1>6, <1>8, <3>1, Pow2Grows DEF TopStep
  <2>2. 2 * U <= D
    <3>1. \A x, y, z \in Nat : 2 * y <= z => 2 * (x * y) <= x * z
      BY SMTT(40)
    <3>. QED
      BY <1>4, <1>5, <2>1, <3>1
  <2>3. \A x, y \in Nat : 2 * x <= y => 2 * (S * x) <= 2 * (q * y)
    <3>1. \A a, b, x, y \in Nat : a <= 2 * b /\ 2 * x <= y => 2 * (a * x) <= 2 * (b * y)
      <4>. SUFFICES ASSUME NEW a \in Nat, NEW b \in Nat, NEW x \in Nat, NEW y \in Nat,
                           a <= 2 * b, 2 * x <= y
                    PROVE  2 * (a * x) <= 2 * (b * y)
        OBVIOUS
      <4>1. a * (2 * x) <= a * y
        BY SMTT(40)
      <4>2. a * y <= (2 * b) * y
        BY SMTT(40)
      <4>3. a * (2 * x) = 2 * (a * x) /\ (2 * b) * y = 2 * (b * y) /\ a * x \in Nat
            /\ b * y \in Nat /\ a * y \in Nat
        BY SMTT(40)
      <4>. QED
        BY <4>1, <4>2, <4>3, SMTT(40)
    <3>. QED
      BY <1>2, <1>6, <2>1, <3>1
  <2>4. c * s > (S - 1) * T
    <3>1. 2 * (S * T) <= 2 * (q * s)
      BY <1>2, <1>3, <2>1, <2>3
    <3>2. q * s <= c * s
      BY <1>6, SMTT(40)
    <3>3. S * T = (S - 1) * T + T /\ (S - 1) * T \in Nat
      BY <1>2, SMTT(40)
    <3>4. q * s \in Nat /\ c * s \in Nat
      BY <1>6, SMTT(40)
    <3>. QED
      BY <1>2, <3>1, <3>2, <3>3, <3>4, SMTT(40)
  <2>5. 2 * n >= (2 * S - 1) * U
    <3>1. 2 * (S * U) <= 2 * (q * D)
      BY <1>4, <1>5, <2>2, <2>3
    <3>2. (2 * S - 1) * U = 2 * (S * U) - U /\ S * U \in Nat
      BY <1>2, SMTT(40)
    <3>3. q * D \in Nat
      BY <1>6, SMTT(40)
    <3>. QED
      BY <1>6, <3>1, <3>2, <3>3, SMTT(40)
  <2>. QED
    BY <2>4, <2>5
<1>12. j < TopExp \/ j = TopExp \/ j > TopExp
  BY <1>6, <1>8, SMTT(40)
<1>. QED
  BY <1>9, <1>10, <1>11, <1>12

\* What rounding a ratio gives: a number of the format or infinity; zero for
\* zero; not zero for more than half the least number.
LEMMA RatioFacts ==
    ASSUME NEW n \in Nat, NEW d \in Nat \ {0}
    PROVE  /\ RoundRatio(n, d) \in 0 .. Inf
           /\ n = 0 => RoundRatio(n, d) = 0
           /\ 2 * n > d => RoundRatio(n, d) >= 1
<1>1. PICK j, q, c : RatioParts(n, d, j, q, c)
  BY RatioSplit
<1>2. PICK s \in Nat : s = Pow2[j] /\ s >= 1
  <2>1. Pow2[j] \in Nat \ {0}
    BY <1>1, Pow2Facts DEF RatioParts
  <2>. QED
    BY <2>1, SMTT(40)
<1>3. PICK D \in Nat : D = d * s /\ D >= 1
  BY <1>2, SMTT(40)
<1>4. /\ j \in Nat /\ q \in Nat /\ c \in {q, q + 1}
      /\ q * D <= n /\ n < (q + 1) * D
      /\ j > 0 => Significands <= 2 * q
      /\ c = q + 1 <=> \/ 2 * n > (2 * q + 1) * D
                       \/ 2 * n = (2 * q + 1) * D /\ q % 2 = 1
      /\ RoundRatio(n, d) = Overflow(c * s)
  BY <1>1, <1>2, <1>3 DEF RatioParts
<1>5. c \in Nat /\ c * s \in Nat
  BY <1>2, <1>4, SMTT(40)
<1>6. MaxFinite \in Nat /\ MaxFinite >= 1 /\ Inf = MaxFinite + 1 /\ Significands \in Nat
      /\ Significands >= 8
  BY FormatFacts
<1>7. /\ RoundRatio(n, d) \in 0 .. Inf
      /\ c * s >= 1 => RoundRatio(n, d) >= 1
      /\ c * s = 0 => RoundRatio(n, d) = 0
  BY <1>4, <1>5, <1>6, SMTT(40) DEF Overflow
<1>8. ASSUME n = 0 PROVE c * s = 0
  <2>1. q = 0
    BY <1>3, <1>4, <1>8, SMTT(40)
  <2>2. (2 * q + 1) * D = D
    BY <2>1, SMTT(40)
  <2>3. c # q + 1
    BY <1>3, <1>4, <1>8, <2>2, SMTT(40)
  <2>. QED
    BY <1>2, <1>4, <2>1, <2>3, SMTT(40)
<1>9. ASSUME 2 * n > d PROVE c * s >= 1
  <2>1. CASE q >= 1
    <3>1. c >= 1
      BY <1>4, <2>1, SMTT(40)
    <3>. QED
      BY <1>2, <1>5, <3>1, SMTT(40)
  <2>2. CASE q = 0
    <3>1. ~(j > 0)
      BY <1>4, <1>6, <2>2, SMTT(40)
    <3>2. j = 0
      BY <1>4, <3>1, SMTT(40)
    <3>3. s = 1
      BY <1>2, <3>2, Pow2Facts
    <3>4. (2 * q + 1) * D = d
      BY <1>3, <2>2, <3>3, SMTT(40)
    <3>5. c = q + 1
      BY <1>4, <1>9, <3>4
    <3>. QED
      BY <2>2, <3>3, <3>5, SMTT(40)
  <2>. QED
    BY <1>4, <2>1, <2>2, SMTT(40)
<1>. QED
  BY <1>7, <1>8, <1>9

\* A ratio at most as large as the greatest number does not overflow, and what is
\* larger than a ratio that overflows overflows.
LEMMA RatioMonotone ==
    ASSUME NEW n \in Nat, NEW d \in Nat \ {0}
    PROVE  /\ n <= MaxFinite * d => RoundRatio(n, d) <= MaxFinite
           /\ \A m \in Nat : n <= m /\ RoundRatio(n, d) = Inf => RoundRatio(m, d) = Inf
<1>1. RoundRatio(n, d) = Inf <=> 2 * n >= (2 * Significands - 1) * (d * TopStep)
  BY RatioOverflows
<1>2. PICK S \in Nat, T \in Nat : /\ S = Significands /\ T = TopStep
                                  /\ S >= 8 /\ T >= 1 /\ MaxFinite = (S - 1) * T
  BY FormatFacts
<1>3. PICK U \in Nat : U = d * T /\ U >= 1
  BY <1>2, SMTT(40)
<1>4. ASSUME n <= MaxFinite * d PROVE RoundRatio(n, d) <= MaxFinite
  <2>1. MaxFinite * d = (S - 1) * U
    BY <1>2, <1>3, SMTT(40)
  <2>2. (2 * S - 1) * U = 2 * ((S - 1) * U) + U /\ (S - 1) * U \in Nat
    BY <1>2, SMTT(40)
  <2>3. n <= (S - 1) * U
    BY <1>4, <2>1
  <2>4. ~(2 * n >= (2 * S - 1) * U)
    BY <1>3, <2>2, <2>3, SMTT(40)
  <2>5. RoundRatio(n, d) # Inf
    BY <1>1, <1>2, <1>3, <2>4
  <2>6. RoundRatio(n, d) \in 0 .. Inf
    BY RatioFacts
  <2>. QED
    BY <2>5, <2>6, FormatFacts, SMTT(40)
<1>5. ASSUME NEW m \in Nat, n <= m, RoundRatio(n, d) = Inf PROVE RoundRatio(m, d) = Inf
  <2>1. RoundRatio(m, d) = Inf <=> 2 * m >= (2 * Significands - 1) * (d * TopStep)
    BY RatioOverflows
  <2>2. (2 * Significands - 1) * (d * TopStep) \in Nat
    BY FormatFacts, SMTT(40)
  <2>3. 2 * m >= (2 * Significands - 1) * (d * TopStep)
    BY <1>1, <1>5, <2>2, SMTT(40)
  <2>. QED
    BY <2>1, <2>3
<1>. QED
  BY <1>4, <1>5

\* The same of a root: it is between q and q + 1 steps, and c is the nearer one.
RootParts(m, j, q, c) ==
    /\ j \in Nat /\ q \in Nat /\ c \in {q, q + 1}
    /\ (q * Pow2[j]) * (q * Pow2[j]) <= m
    /\ m < ((q + 1) * Pow2[j]) * ((q + 1) * Pow2[j])
    /\ q < Significands
    /\ j > 0 => Significands <= 2 * q
    /\ c = q + 1 <=> 4 * m > ((2 * q + 1) * Pow2[j]) * ((2 * q + 1) * Pow2[j])
    /\ RoundRoot(m) = Overflow(c * Pow2[j])

\* The root without its fraction.
LEMMA IntegerRoot ==
    ASSUME NEW m \in Nat
    PROVE  \E r \in 0 .. m : r * r <= m /\ m < (r + 1) * (r + 1)
<1>. DEFINE T == {x \in Nat : m < x * x}
<1>1. m + 1 \in T
  BY SMTT(40)
<1>2. PICK x \in T : \A y \in T : x <= y
  <2>1. T \in SUBSET Nat /\ T # {}
    BY <1>1
  <2>. HIDE DEF T
  <2>. QED
    BY <2>1, LeastNumber
<1>3. x \in Nat /\ m < x * x /\ x # 0
  BY SMTT(40)
<1>4. PICK r \in Nat : x = r + 1
  <2>1. x - 1 \in Nat /\ x = (x - 1) + 1
    BY <1>3, SMTT(40)
  <2>. QED
    BY <2>1
<1>5. r \notin T
  BY <1>2, <1>4, SMTT(40)
<1>6. r * r <= m
  BY <1>5, SMTT(40)
<1>7. r \in 0 .. m
  <2>1. \A y \in Nat : y <= y * y
    BY SMTT(40)
  <2>2. r <= r * r /\ r * r \in Nat
    BY <2>1, SMTT(40)
  <2>. QED
    BY <1>6, <2>2, SMTT(40)
<1>. QED
  BY <1>3, <1>4, <1>6, <1>7

\* Squares grow.
LEMMA Squares ==
    ASSUME NEW a \in Nat, NEW b \in Nat
    PROVE  a <= b <=> a * a <= b * b
<1>1. a <= b => a * a <= b * b
  <2>. SUFFICES ASSUME a <= b PROVE a * a <= b * b
    OBVIOUS
  <2>1. a * a <= a * b
    BY SMTT(40)
  <2>2. a * b <= b * b
    BY SMTT(40)
  <2>3. a * a \in Nat /\ a * b \in Nat /\ b * b \in Nat
    BY SMTT(40)
  <2>. QED
    BY <2>1, <2>2, <2>3, SMTT(40)
<1>2. b < a => b * b < a * a
  <2>. SUFFICES ASSUME b < a PROVE b * b < a * a
    OBVIOUS
  <2>1. b * b <= a * b
    BY SMTT(40)
  <2>2. a * b < a * a
    BY SMTT(40)
  <2>3. a * a \in Nat /\ a * b \in Nat /\ b * b \in Nat
    BY SMTT(40)
  <2>. QED
    BY <2>1, <2>2, <2>3, SMTT(40)
<1>3. a <= b \/ b < a
  BY SMTT(40)
<1>4. ~(b * b < a * a /\ a * a <= b * b)
  <2>1. a * a \in Nat /\ b * b \in Nat
    BY SMTT(40)
  <2>. QED
    BY <2>1, SMTT(40)
<1>. QED
  BY <1>1, <1>2, <1>3, <1>4

\* There are such parts of every root.
LEMMA RootSplit ==
    ASSUME NEW m \in Nat
    PROVE  \E j, q, c : RootParts(m, j, q, c)
<1>1. PICK k : k = FloorRoot(m)
  OBVIOUS
<1>2. k \in Nat /\ k * k <= m /\ m < (k + 1) * (k + 1)
  <2>. DEFINE P(r) == r * r <= m /\ m < (r + 1) * (r + 1)
  <2>1. \E r \in 0 .. m : P(r)
    BY IntegerRoot
  <2>2. k = CHOOSE r \in 0 .. m : P(r)
    BY <1>1 DEF FloorRoot
  <2>. HIDE DEF P
  <2>3. k \in 0 .. m /\ P(k)
    BY <2>1, <2>2
  <2>4. k \in Nat
    BY <2>3, SMTT(40)
  <2>. QED
    BY <2>3, <2>4 DEF P
<1>3. PICK j : j = Spacing(k)
  OBVIOUS
<1>4. PICK s : s = Pow2[j]
  OBVIOUS
<1>5. /\ j \in Nat /\ s \in Nat \ {0} /\ k < Significands * s
      /\ j > 0 => Significands * s <= 2 * k
  BY <1>2, <1>3, <1>4, SpacingFacts, Pow2Facts
<1>6. PICK q : q = k \div s
  OBVIOUS
<1>7. q \in Nat /\ q * s <= k /\ k < (q + 1) * s
  BY <1>2, <1>5, <1>6, Division
<1>8. q * s \in Nat /\ (q + 1) * s \in Nat /\ q + 1 \in Nat
  BY <1>5, <1>7, SMTT(40)
<1>9. (q * s) * (q * s) <= m
  <2>1. (q * s) * (q * s) <= k * k
    BY <1>2, <1>7, <1>8, Squares
  <2>2. (q * s) * (q * s) \in Nat /\ k * k \in Nat
    BY <1>2, <1>8, SMTT(40)
  <2>. QED
    BY <1>2, <2>1, <2>2, SMTT(40)
<1>10. m < ((q + 1) * s) * ((q + 1) * s)
  <2>1. k + 1 <= (q + 1) * s /\ k + 1 \in Nat
    BY <1>2, <1>7, <1>8, SMTT(40)
  <2>2. (k + 1) * (k + 1) <= ((q + 1) * s) * ((q + 1) * s)
    BY <1>8, <2>1, Squares
  <2>3. (k + 1) * (k + 1) \in Nat /\ ((q + 1) * s) * ((q + 1) * s) \in Nat
    BY <1>8, <2>1, SMTT(40)
  <2>. QED
    BY <1>2, <2>2, <2>3, SMTT(40)
<1>11. q < Significands
  <2>1. \A a, b, e \in Nat : a * e < b * e => a < b
    BY SMTT(40)
  <2>2. Significands * s \in Nat
    BY <1>5, FormatFacts, SMTT(40)
  <2>3. q * s < Significands * s
    BY <1>2, <1>5, <1>7, <1>8, <2>2, SMTT(40)
  <2>. QED
    BY <1>5, <1>7, <2>1, <2>3, FormatFacts
<1>12. j > 0 => Significands <= 2 * q
  <2>. SUFFICES ASSUME j > 0 PROVE Significands <= 2 * q
    OBVIOUS
  <2>1. PICK h \in Nat : Significands = 2 * h
    <3>1. Significands \div 2 \in Nat /\ Significands = 2 * (Significands \div 2)
      BY FormatFacts, SMTT(40)
    <3>. QED
      BY <3>1
  <2>2. h * s <= k
    <3>1. (2 * h) * s <= 2 * k
      BY <1>5, <2>1
    <3>2. (2 * h) * s = 2 * (h * s) /\ h * s \in Nat
      BY <1>5, SMTT(40)
    <3>. QED
      BY <1>2, <3>1, <3>2, SMTT(40)
  <2>3. h < q + 1
    <3>1. \A a, b, e \in Nat : a * e < b * e => a < b
      BY SMTT(40)
    <3>2. h * s \in Nat
      BY <1>5, SMTT(40)
    <3>3. h * s < (q + 1) * s
      BY <1>2, <1>7, <1>8, <2>2, <3>2, SMTT(40)
    <3>. QED
      BY <1>5, <1>8, <3>1, <3>3
  <2>. QED
    BY <1>7, <2>1, <2>3, SMTT(40)
<1>13. PICK M : M = (2 * q + 1) * s
  OBVIOUS
<1>14. PICK up \in BOOLEAN : up <=> 4 * m > M * M
  OBVIOUS
<1>15. PICK c : c = IF up THEN q + 1 ELSE q
  OBVIOUS
<1>16. RoundRoot(m) = Overflow(c * s)
  <2>1. RoundRoot(m) =
          LET step == Pow2[Spacing(k)]
              n == k \div step
              middle == (2 * n + 1) * step
          IN  Overflow((IF 4 * m > middle * middle THEN n + 1 ELSE n) * step)
    BY <1>1 DEF RoundRoot
  <2>2. RoundRoot(m) = Overflow((IF 4 * m > M * M THEN q + 1 ELSE q) * s)
    BY <1>3, <1>4, <1>6, <1>13, <2>1
  <2>. QED
    BY <1>14, <1>15, <2>2
<1>17. c \in {q, q + 1} /\ (c = q + 1 <=> up)
  <2>1. q # q + 1
    BY <1>7, SMTT(40)
  <2>. QED
    BY <1>15, <2>1
<1>18. RootParts(m, j, q, c)
  BY <1>4, <1>5, <1>7, <1>9, <1>10, <1>11, <1>12, <1>13, <1>14, <1>16, <1>17 DEF RootParts
<1>. QED
  BY <1>18

\* Rounding a root gives a number of the format or infinity.
LEMMA RootType ==
    ASSUME NEW m \in Nat
    PROVE  RoundRoot(m) \in 0 .. Inf
<1>1. PICK j, q, c : RootParts(m, j, q, c)
  BY RootSplit
<1>2. Pow2[j] \in Nat
  BY <1>1, Pow2Facts DEF RootParts
<1>3. c * Pow2[j] \in Nat
  <2>1. q \in Nat /\ c \in {q, q + 1}
    BY <1>1 DEF RootParts
  <2>. QED
    BY <1>2, <2>1, SMTT(40)
<1>4. RoundRoot(m) = Overflow(c * Pow2[j])
  BY <1>1 DEF RootParts
<1>. QED
  BY <1>3, <1>4, FormatFacts, SMTT(40) DEF Overflow

\* The greatest exponent is odd: the greatest number is just below an even power
\* of two, whose root is the power with exponent Precision + e.
LEMMA GreatestIsSquare ==
    \E e \in Nat : /\ e <= TopExp
                   /\ MaxFinite * One = ((Significands - 1) * Significands) * (Pow2[e] * Pow2[e])
<1>1. PICK h \in Nat : MaxExp = 2 * h + 1
  <2>1. MaxExp \div 2 \in Nat /\ MaxExp = 2 * (MaxExp \div 2) + 1
    BY FormatAssumption, SMTT(40)
  <2>. QED
    BY <2>1
<1>2. PICK e \in Nat : e = 3 * h
  BY SMTT(40)
<1>3. Precision \in Nat /\ Precision >= 3
  BY FormatAssumption, SMTT(40)
<1>4. TopExp = 4 * h + 1 /\ Scale = 2 * h + Precision - 1
  BY <1>1, <1>3, SMTT(40) DEF TopExp, Scale
<1>5. TopExp \in Nat /\ Scale \in Nat /\ TopExp + Scale = Precision + (e + e)
      /\ e <= TopExp /\ e + e \in Nat
  BY <1>2, <1>3, <1>4, SMTT(40)
<1>6. TopStep * One = Pow2[Precision + (e + e)]
  <2>1. Pow2[TopExp + Scale] = Pow2[TopExp] * Pow2[Scale]
    BY <1>5, Pow2Add
  <2>. QED
    BY <1>5, <2>1 DEF TopStep, One
<1>7. Pow2[Precision + (e + e)] = Significands * (Pow2[e] * Pow2[e])
  <2>1. Pow2[Precision + (e + e)] = Pow2[Precision] * Pow2[e + e]
    BY <1>3, <1>5, Pow2Add
  <2>2. Pow2[e + e] = Pow2[e] * Pow2[e]
    BY Pow2Add
  <2>. QED
    BY <2>1, <2>2 DEF Significands
<1>8. PICK S \in Nat, T \in Nat, N \in Nat : /\ S = Significands /\ T = TopStep /\ N = One
                                             /\ S >= 8 /\ MaxFinite = (S - 1) * T
  BY FormatFacts
<1>9. PICK F \in Nat : F = Pow2[e] * Pow2[e]
  <2>1. Pow2[e] \in Nat
    BY Pow2Facts
  <2>2. Pow2[e] * Pow2[e] \in Nat
    BY <2>1, SMTT(40)
  <2>. QED
    BY <2>2
<1>10. T * N = S * F
  BY <1>6, <1>7, <1>8, <1>9
<1>11. MaxFinite * One = ((S - 1) * S) * F
  <2>2. PICK R \in Nat : R = S - 1
    BY <1>8, SMTT(40)
  <2>3. (R * T) * N = R * (T * N)
    BY SMTT(40)
  <2>4. (R * S) * F = R * (S * F)
    BY SMTT(40)
  <2>. QED
    BY <1>8, <1>10, <2>2, <2>3, <2>4
<1>. QED
  BY <1>5, <1>8, <1>9, <1>11

\* The root of a number from the least positive one to the greatest: its square is
\* more than half the number, and is not larger than the greatest number.
LEMMA RootBounds ==
    ASSUME NEW m \in Nat, One <= m, m <= MaxFinite * One
    PROVE  /\ RoundRoot(m) \in 1 .. MaxFinite
           /\ m < 2 * (RoundRoot(m) * RoundRoot(m))
           /\ RoundRoot(m) * RoundRoot(m) <= MaxFinite * One
<1>1. PICK j, q, c : RootParts(m, j, q, c)
  BY RootSplit
<1>2. PICK S \in Nat, T \in Nat : /\ S = Significands /\ T = TopStep
                                  /\ S >= 8 /\ T >= 1 /\ MaxFinite = (S - 1) * T
  BY FormatFacts
<1>3. PICK s \in Nat : s = Pow2[j] /\ s >= 1
  <2>1. Pow2[j] \in Nat \ {0}
    BY <1>1, Pow2Facts DEF RootParts
  <2>. QED
    BY <2>1, SMTT(40)
<1>4. /\ j \in Nat /\ q \in Nat /\ c \in {q, q + 1}
      /\ (q * s) * (q * s) <= m /\ m < ((q + 1) * s) * ((q + 1) * s)
      /\ q < S
      /\ j > 0 => S <= 2 * q
      /\ c = q + 1 <=> 4 * m > ((2 * q + 1) * s) * ((2 * q + 1) * s)
      /\ RoundRoot(m) = Overflow(c * s)
  BY <1>1, <1>2, <1>3 DEF RootParts
<1>5. c \in Nat
  BY <1>4, SMTT(40)
<1>6. m >= 4
  BY FormatFacts, SMTT(40)
<1>7. q >= 2
  <2>1. CASE j > 0
    BY <1>2, <1>4, <2>1, SMTT(40)
  <2>2. CASE j = 0
    <3>1. s = 1
      BY <1>3, <2>2, Pow2Facts
    <3>2. m < (q + 1) * (q + 1)
      BY <1>4, <3>1, SMTT(40)
    <3>3. q = 0 \/ q = 1 => FALSE
      BY <1>6, <3>2, SMTT(40)
    <3>. QED
      BY <1>4, <3>3, SMTT(40)
  <2>. QED
    BY <1>4, <2>1, <2>2, SMTT(40)
<1>8. m < 2 * ((c * s) * (c * s))
  <2>1. CASE c = q + 1
    <3>1. PICK x \in Nat : x = ((q + 1) * s) * ((q + 1) * s)
      BY <1>4, SMTT(40)
    <3>2. m < 2 * x
      BY <1>4, <3>1, SMTT(40)
    <3>. QED
      BY <2>1, <3>1, <3>2
  <2>2. CASE c # q + 1
    <3>1. c = q /\ ~(4 * m > ((2 * q + 1) * s) * ((2 * q + 1) * s))
      BY <1>4, <2>2
    <3>2. PICK a \in Nat, b \in Nat : a = q * s /\ b = (2 * q + 1) * s
      BY <1>4, SMTT(40)
    <3>3. 4 * m <= b * b
      <4>1. b * b \in Nat
        BY SMTT(40)
      <4>. QED
        BY <3>1, <3>2, <4>1, SMTT(40)
    <3>4. 2 * b <= 5 * a /\ a >= 1
      <4>1. 2 * (2 * q + 1) <= 5 * q
        BY <1>4, <1>7, SMTT(40)
      <4>2. (2 * (2 * q + 1)) * s <= (5 * q) * s
        BY <1>4, <4>1, SMTT(40)
      <4>3. (2 * (2 * q + 1)) * s = 2 * ((2 * q + 1) * s) /\ (5 * q) * s = 5 * (q * s)
        BY <1>4, SMTT(40)
      <4>4. q * s >= 1
        BY <1>3, <1>4, <1>7, SMTT(40)
      <4>. QED
        BY <3>2, <4>2, <4>3, <4>4
    <3>5. (2 * b) * (2 * b) <= (5 * a) * (5 * a)
      <4>1. 2 * b \in Nat /\ 5 * a \in Nat
        BY SMTT(40)
      <4>. QED
        BY <3>4, <4>1, Squares
    <3>6. /\ (2 * b) * (2 * b) = 4 * (b * b) /\ (5 * a) * (5 * a) = 25 * (a * a)
          /\ a * a \in Nat /\ b * b \in Nat /\ a * a >= 1
      BY <3>4, SMTT(40)
    <3>7. m < 2 * (a * a)
      BY <3>3, <3>5, <3>6, SMTT(40)
    <3>. QED
      BY <3>1, <3>2, <3>7
  <2>. QED
    BY <2>1, <2>2
<1>9. PICK e \in Nat : /\ e <= TopExp
                       /\ MaxFinite * One = ((S - 1) * S) * (Pow2[e] * Pow2[e])
  BY <1>2, GreatestIsSquare
<1>10. PICK E \in Nat : E = Pow2[e] /\ E >= 1 /\ E <= T
  <2>1. Pow2[e] \in Nat \ {0} /\ TopExp \in Nat
    BY Pow2Facts, FormatFacts
  <2>2. Pow2[e] <= T
    BY <1>2, <1>9, <2>1, Pow2Grows DEF TopStep
  <2>3. Pow2[e] >= 1
    BY <2>1, SMTT(40)
  <2>. QED
    BY <2>1, <2>2, <2>3
<1>11. m <= ((S - 1) * S) * (E * E) /\ MaxFinite * One = ((S - 1) * S) * (E * E)
  BY <1>9, <1>10
<1>12. c * s <= (S - 1) * E
  <2>1. CASE j < e
    <3>1. 2 * s <= E
      BY <1>3, <1>4, <1>9, <1>10, <2>1, Pow2Grows
    <3>2. c <= S /\ S <= 2 * (S - 1)
      BY <1>2, <1>4, SMTT(40)
    <3>3. c * s <= S * s
      BY <1>5, <3>2, SMTT(40)
    <3>4. S * s <= (2 * (S - 1)) * s
      BY <1>2, <3>2, SMTT(40)
    <3>5. (2 * (S - 1)) * s = (S - 1) * (2 * s)
      BY <1>2, SMTT(40)
    <3>6. (S - 1) * (2 * s) <= (S - 1) * E
      BY <1>2, <3>1, SMTT(40)
    <3>7. c * s \in Nat /\ S * s \in Nat /\ (S - 1) * (2 * s) \in Nat /\ (S - 1) * E \in Nat
      BY <1>2, <1>5, SMTT(40)
    <3>. QED
      BY <3>3, <3>4, <3>5, <3>6, <3>7, SMTT(40)
  <2>2. CASE j = e
    <3>1. s = E
      BY <1>3, <1>10, <2>2
    <3>2. CASE q = S - 1
      <4>1. 2 * q + 1 = 2 * S - 1
        BY <1>2, <3>2, SMTT(40)
      <4>2. PICK F \in Nat, Q \in Nat : F = E * E /\ Q = (S - 1) * S /\ F >= 1
        BY <1>2, <1>10, SMTT(40)
      <4>3. ((2 * S - 1) * E) * ((2 * S - 1) * E) = (4 * Q + 1) * F
        BY <1>2, <4>2, SMTT(40)
      <4>4. (4 * Q + 1) * F = 4 * (Q * F) + F /\ Q * F \in Nat
        BY SMTT(40)
      <4>5. m <= Q * F
        BY <1>11, <4>2
      <4>6. ~(4 * m > 4 * (Q * F) + F)
        BY <4>2, <4>4, <4>5, SMTT(40)
      <4>7. c = q
        BY <1>4, <3>1, <4>1, <4>3, <4>4, <4>6
      <4>8. (S - 1) * E \in Nat
        BY <1>2, SMTT(40)
      <4>. QED
        BY <3>1, <3>2, <4>7, <4>8, SMTT(40)
    <3>3. CASE q # S - 1
      <4>1. c <= S - 1
        BY <1>2, <1>4, <3>3, SMTT(40)
      <4>. QED
        BY <1>2, <1>5, <3>1, <4>1, SMTT(40)
    <3>. QED
      BY <3>2, <3>3
  <2>3. CASE j > e
    <3>1. 2 * E <= s /\ S <= 2 * q
      <4>1. e < j /\ j > 0
        BY <1>4, <2>3, SMTT(40)
      <4>. QED
        BY <1>3, <1>4, <1>10, <4>1, Pow2Grows
    <3>2. S * E <= q * s
      <4>1. S * (2 * E) <= S * s
        BY <1>2, <3>1, SMTT(40)
      <4>2. S * s <= (2 * q) * s
        BY <1>4, <3>1, SMTT(40)
      <4>3. /\ S * (2 * E) = 2 * (S * E) /\ (2 * q) * s = 2 * (q * s) /\ S * E \in Nat
            /\ q * s \in Nat /\ S * s \in Nat
        BY <1>4, SMTT(40)
      <4>. QED
        BY <4>1, <4>2, <4>3, SMTT(40)
    <3>3. (S * E) * (S * E) <= m
      <4>1. S * E \in Nat /\ q * s \in Nat
        BY <1>4, SMTT(40)
      <4>2. (S * E) * (S * E) <= (q * s) * (q * s)
        BY <3>2, <4>1, Squares
      <4>3. (S * E) * (S * E) \in Nat /\ (q * s) * (q * s) \in Nat
        BY <4>1, SMTT(40)
      <4>. QED
        BY <1>4, <4>2, <4>3, SMTT(40)
    <3>4. PICK F \in Nat : F = E * E /\ F >= 1
      BY <1>10, SMTT(40)
    <3>5. (S * E) * (S * E) = (S * S) * F
      BY <3>4, SMTT(40)
    <3>6. (S * S) * F = ((S - 1) * S) * F + S * F /\ ((S - 1) * S) * F \in Nat /\ S * F >= 1
      BY <1>2, <3>4, SMTT(40)
    <3>. QED
      BY <1>11, <3>3, <3>4, <3>5, <3>6, SMTT(40)
  <2>4. j < e \/ j = e \/ j > e
    BY <1>4, SMTT(40)
  <2>. QED
    BY <2>1, <2>2, <2>3, <2>4
<1>13. (S - 1) * E <= MaxFinite /\ (S - 1) * E \in Nat /\ MaxFinite \in Nat
  BY <1>2, <1>10, SMTT(40)
<1>14. PICK r \in Nat : r = c * s /\ r >= 1
  <2>1. c >= 1
    BY <1>4, <1>7, SMTT(40)
  <2>. QED
    BY <1>3, <1>5, <2>1, SMTT(40)
<1>15. RoundRoot(m) = r /\ r <= MaxFinite
  <2>1. r <= (S - 1) * E
    BY <1>12, <1>14
  <2>2. r <= MaxFinite /\ ~(r > MaxFinite)
    BY <1>13, <2>1, SMTT(40)
  <2>. QED
    BY <1>4, <1>14, <2>2 DEF Overflow
<1>16. r * r <= MaxFinite * One
  <2>1. r * r <= ((S - 1) * E) * ((S - 1) * E)
    BY <1>12, <1>13, <1>14, Squares
  <2>2. PICK F \in Nat, R \in Nat : F = E * E /\ R = S - 1 /\ S = R + 1
    BY <1>2, SMTT(40)
  <2>3. (R * E) * (R * E) = (R * R) * F
    BY <2>2, SMTT(40)
  <2>4. (R * R) * F <= (R * S) * F
    <3>1. R * R <= R * S /\ R * R \in Nat /\ R * S \in Nat
      BY <2>2, SMTT(40)
    <3>2. \A x, y, z \in Nat : x <= y => x * z <= y * z
      BY SMTT(40)
    <3>. QED
      BY <3>1, <3>2
  <2>5. (R * R) * F \in Nat /\ (R * S) * F \in Nat /\ r * r \in Nat
    BY SMTT(40)
  <2>6. r * r <= (R * S) * F
    BY <2>1, <2>2, <2>3, <2>4, <2>5, SMTT(40)
  <2>. QED
    BY <1>11, <2>2, <2>6
<1>17. r \in 1 .. MaxFinite
  BY <1>13, <1>14, <1>15, SMTT(40)
<1>. QED
  BY <1>8, <1>14, <1>15, <1>16, <1>17

-----------------------------------------------------------------------------
(* The operations *)

Floats == -Inf .. NaN

\* The sign of a result does not take it out of the format.
LEMMA SignedFacts ==
    ASSUME NEW b, NEW x \in 0 .. Inf
    PROVE  /\ Signed(b, x) \in -Inf .. Inf
           /\ Signed(b, x) = 0 <=> x = 0
           /\ x <= MaxFinite => Finite(Signed(b, x))
           /\ -Inf .. Inf \subseteq Floats /\ NaN \notin -Inf .. Inf
<1>1. MaxFinite \in Nat /\ Inf = MaxFinite + 1 /\ NaN = MaxFinite + 2
  BY FormatFacts
<1>2. Signed(b, x) = x \/ Signed(b, x) = -x
  BY DEF Signed
<1>3. x \in Nat /\ x <= Inf
  BY <1>1, SMTT(40)
<1>4. ASSUME NEW y, y = x \/ y = -x
      PROVE  y \in -Inf .. Inf /\ (y = 0 <=> x = 0) /\ (x <= MaxFinite => Finite(y))
  BY <1>1, <1>3, <1>4, SMTT(40) DEF Finite
<1>5. -Inf .. Inf \subseteq Floats /\ NaN \notin -Inf .. Inf
  BY <1>1, SMTT(40) DEF Floats
<1>. QED
  BY <1>2, <1>4, <1>5

\* A number with a sign, by name.
LEMMA SignedNumber ==
    ASSUME NEW b, NEW x \in 0 .. Inf, NEW z, z = Signed(b, x)
    PROVE  z \in Floats /\ z # NaN /\ (z = 0 <=> x = 0)
<1>1. /\ Signed(b, x) \in -Inf .. Inf /\ (Signed(b, x) = 0 <=> x = 0)
      /\ -Inf .. Inf \subseteq Floats /\ NaN \notin -Inf .. Inf
  BY SignedFacts
<1>. QED
  BY <1>1

\* Sums of numbers: they are numbers; those of numbers that are not negative are
\* not negative, zero only for zeros, and infinite if one of the two is.  Only
\* not-a-number or two infinities give not-a-number.
LEMMA AddFacts ==
    ASSUME NEW x \in Floats, NEW y \in Floats
    PROVE  /\ Add(x, y) \in Floats
           /\ x # NaN /\ Finite(y) => Add(x, y) # NaN
           /\ x >= 0 /\ y >= 0 => Add(x, y) >= 0
           /\ x >= 0 /\ y >= 0 /\ Add(x, y) = 0 => x = 0 /\ y = 0
           /\ x \in 0 .. Inf /\ y \in 0 .. Inf => Add(x, y) \in 0 .. Inf
           /\ x \in 0 .. Inf /\ y \in 0 .. Inf /\ (x = Inf \/ y = Inf) => Add(x, y) = Inf
           /\ Finite(x) /\ Finite(y) /\ Add(x, y) = 0 => x + y = 0
<1>1. /\ MaxFinite \in Nat /\ MaxFinite >= 1 /\ Inf = MaxFinite + 1 /\ NaN = MaxFinite + 2
      /\ NaN \in Floats /\ NaN >= 0 /\ NaN # 0 /\ Inf # NaN
  BY FormatFacts, SMTT(40) DEF Floats
<1>2. x \in Int /\ y \in Int /\ x + y \in Int /\ Abs(x + y) \in Nat
  BY <1>1, SMTT(40) DEF Floats, Abs
<1>3. CASE x = NaN \/ y = NaN \/ (Abs(x) = Inf /\ y = -x)
  <2>1. Add(x, y) = NaN
    BY <1>3 DEF Add
  <2>2. x # NaN => ~Finite(y)
    BY <1>1, <1>2, <1>3, SMTT(40) DEF Finite, Abs, Floats
  <2>3. ~(x \in 0 .. Inf /\ y \in 0 .. Inf)
    BY <1>1, <1>2, <1>3, SMTT(40) DEF Abs
  <2>. QED
    BY <1>1, <2>1, <2>2, <2>3
<1>4. CASE ~(x = NaN \/ y = NaN \/ (Abs(x) = Inf /\ y = -x)) /\ Abs(x) = Inf
  <2>1. Add(x, y) = x
    BY <1>4 DEF Add
  <2>2. x # 0 /\ ~Finite(x)
    BY <1>1, <1>2, <1>4, SMTT(40) DEF Abs, Finite
  <2>3. x \in 0 .. Inf => x = Inf
    BY <1>1, <1>2, <1>4, SMTT(40) DEF Abs
  <2>. QED
    BY <1>4, <2>1, <2>2, <2>3
<1>5. CASE ~(x = NaN \/ y = NaN) /\ Abs(x) # Inf /\ Abs(y) = Inf
  <2>1. Add(x, y) = y
    BY <1>5 DEF Add
  <2>2. y # 0 /\ ~Finite(y)
    BY <1>1, <1>2, <1>5, SMTT(40) DEF Abs, Finite
  <2>3. y \in 0 .. Inf => y = Inf
    BY <1>1, <1>2, <1>5, SMTT(40) DEF Abs
  <2>. QED
    BY <1>5, <2>1, <2>2, <2>3
<1>6. CASE ~(x = NaN \/ y = NaN) /\ Abs(x) # Inf /\ Abs(y) # Inf
  <2>1. PICK r : r = RoundRatio(Abs(x + y), 1)
    OBVIOUS
  <2>2. r \in 0 .. Inf /\ (2 * Abs(x + y) > 1 => r >= 1)
    <3>1. 1 \in Nat \ {0}
      BY SMTT(40)
    <3>. QED
      BY <1>2, <2>1, <3>1, RatioFacts
  <2>3. Add(x, y) = Signed(x + y < 0, r)
    BY <1>6, <2>1 DEF Add
  <2>4. Add(x, y) \in Floats /\ Add(x, y) # NaN /\ (Add(x, y) = 0 <=> r = 0)
    <3>1. PICK z : z = Add(x, y)
      OBVIOUS
    <3>2. z \in Floats /\ z # NaN /\ (z = 0 <=> r = 0)
      BY <2>2, <2>3, <3>1, SignedNumber
    <3>. QED
      BY <3>1, <3>2
  <2>5. r = 0 => x + y = 0
    BY <1>1, <1>2, <2>2, SMTT(40) DEF Abs
  <2>6. x >= 0 /\ y >= 0 => Add(x, y) = r
    BY <1>2, <2>3, SMTT(40) DEF Signed
  <2>7. x >= 0 /\ y >= 0 /\ x + y = 0 => x = 0 /\ y = 0
    BY <1>2, SMTT(40)
  <2>8. x # Inf /\ y # Inf
    BY <1>1, <1>6, SMTT(40) DEF Abs
  <2>9. r >= 0 /\ \A z \in 0 .. Inf : z >= 0
    BY <1>1, <2>2, SMTT(40)
  <2>. QED
    BY <2>2, <2>4, <2>5, <2>6, <2>7, <2>8, <2>9
<1>. QED
  BY <1>3, <1>4, <1>5, <1>6

\* Differences are numbers, and the difference of finite numbers is zero only for
\* equal ones.
LEMMA SubFacts ==
    ASSUME NEW x \in Floats, NEW y \in Floats
    PROVE  /\ Sub(x, y) \in Floats
           /\ fabsf(Sub(x, y)) \in 0 .. NaN
           /\ Finite(x) /\ Finite(y) /\ fabsf(Sub(x, y)) = 0 => x = y
<1>1. /\ MaxFinite \in Nat /\ MaxFinite >= 1 /\ Inf = MaxFinite + 1 /\ NaN = MaxFinite + 2
  BY FormatFacts
<1>2. Neg(y) \in Floats /\ (Finite(y) => Neg(y) = -y /\ Finite(Neg(y)))
  BY <1>1, SMTT(40) DEF Neg, Floats, Finite
<1>3. PICK z : z = Sub(x, y)
  OBVIOUS
<1>4. z \in Floats
  BY <1>2, <1>3, AddFacts DEF Sub
<1>5. fabsf(z) \in 0 .. NaN /\ (fabsf(z) = 0 => z = 0)
  BY <1>1, <1>4, SMTT(40) DEF fabsf, Abs, Floats
<1>6. ASSUME Finite(x), Finite(y), z = 0 PROVE x = y
  <2>1. x + Neg(y) = 0
    <3>1. PICK w \in Floats : w = Neg(y) /\ Finite(w)
      BY <1>2, <1>6
    <3>2. Add(x, w) = 0
      BY <1>3, <1>6, <3>1 DEF Sub
    <3>3. x + w = 0
      BY <1>6, <3>1, <3>2, AddFacts
    <3>. QED
      BY <3>1, <3>3
  <2>2. x \in Int /\ y \in Int
    BY <1>1, SMTT(40) DEF Floats
  <2>. QED
    BY <1>2, <1>6, <2>1, <2>2, SMTT(40)
<1>. QED
  BY <1>3, <1>4, <1>5, <1>6

\* Products: they are numbers; those of finite numbers are not not-a-number,
\* squares are not negative, and a product overflows only if a square does.
LEMMA MulFacts ==
    ASSUME NEW x \in Floats, NEW y \in Floats
    PROVE  /\ Mul(x, y) \in Floats
           /\ Finite(x) => Mul(x, x) \in 0 .. Inf
           /\ Finite(x) /\ Finite(y) /\ Mul(x, x) # Inf /\ Mul(y, y) # Inf => Finite(Mul(x, y))
<1>1. /\ MaxFinite \in Nat /\ MaxFinite >= 1 /\ Inf = MaxFinite + 1 /\ NaN = MaxFinite + 2
      /\ NaN \in Floats /\ One \in Nat \ {0} /\ Inf \in 0 .. Inf
  BY FormatFacts, SMTT(40) DEF Floats
<1>2. x \in Int /\ y \in Int /\ Abs(x) \in Nat /\ Abs(y) \in Nat
  BY <1>1, SMTT(40) DEF Floats, Abs
<1>3. \A a, b \in Nat : a * b \in Nat
  BY SMTT(40)
<1>4. \A a, b \in Nat : RoundRatio(a * b, One) \in 0 .. Inf
  BY <1>1, <1>3, RatioFacts
<1>5. Mul(x, y) \in Floats
  <2>1. CASE x = NaN \/ y = NaN
    BY <1>1, <2>1 DEF Mul
  <2>2. CASE ~(x = NaN \/ y = NaN) /\ (Abs(x) = Inf \/ Abs(y) = Inf)
    <3>1. PICK z : z = Mul(x, y)
      OBVIOUS
    <3>2. z = NaN \/ z = Signed((x < 0) # (y < 0), Inf)
      BY <2>2, <3>1 DEF Mul
    <3>3. z \in Floats
      BY <1>1, <3>2, SignedNumber
    <3>. QED
      BY <3>1, <3>3
  <2>3. CASE ~(x = NaN \/ y = NaN) /\ ~(Abs(x) = Inf \/ Abs(y) = Inf)
    <3>1. PICK z, r : z = Mul(x, y) /\ r = RoundRatio(Abs(x) * Abs(y), One)
      OBVIOUS
    <3>2. z = Signed((x < 0) # (y < 0), r)
      BY <2>3, <3>1 DEF Mul
    <3>3. r \in 0 .. Inf
      BY <1>2, <1>4, <3>1
    <3>4. z \in Floats
      BY <3>2, <3>3, SignedNumber
    <3>. QED
      BY <3>1, <3>4
  <2>. QED
    BY <2>1, <2>2, <2>3
<1>6. ASSUME NEW z \in {x, y}, Finite(z)
      PROVE  Mul(z, z) = RoundRatio(Abs(z) * Abs(z), One) /\ z # NaN /\ Abs(z) # Inf
  <2>1. z # NaN /\ Abs(z) # Inf
    BY <1>1, <1>2, <1>6, SMTT(40) DEF Finite, Abs
  <2>2. Mul(z, z) = Signed((z < 0) # (z < 0), RoundRatio(Abs(z) * Abs(z), One))
    BY <2>1 DEF Mul
  <2>. QED
    BY <2>1, <2>2 DEF Signed
<1>7. ASSUME Finite(x) PROVE Mul(x, x) \in 0 .. Inf
  BY <1>2, <1>4, <1>6, <1>7
<1>8. ASSUME Finite(x), Finite(y), Mul(x, x) # Inf, Mul(y, y) # Inf
      PROVE  Finite(Mul(x, y))
  <2>1. PICK a \in Nat, b \in Nat : a = Abs(x) /\ b = Abs(y)
    BY <1>2
  <2>2. /\ RoundRatio(a * a, One) # Inf /\ RoundRatio(b * b, One) # Inf
        /\ x # NaN /\ y # NaN /\ a # Inf /\ b # Inf
    BY <1>6, <1>8, <2>1
  <2>3. Mul(x, y) = Signed((x < 0) # (y < 0), RoundRatio(a * b, One))
    BY <2>1, <2>2 DEF Mul
  <2>4. a * b <= a * a \/ a * b <= b * b
    BY SMTT(40)
  <2>5. RoundRatio(a * b, One) # Inf
    <3>1. a * b \in Nat /\ a * a \in Nat /\ b * b \in Nat
      BY <1>3
    <3>2. ASSUME NEW m \in Nat, a * b <= m, RoundRatio(a * b, One) = Inf
          PROVE  RoundRatio(m, One) = Inf
      <4>1. PICK k \in Nat : k = a * b
        BY <3>1
      <4>. QED
        BY <1>1, <3>2, <4>1, RatioMonotone
    <3>. QED
      BY <2>2, <2>4, <3>1, <3>2
  <2>6. RoundRatio(a * b, One) \in 0 .. Inf
    BY <1>4
  <2>7. RoundRatio(a * b, One) <= MaxFinite
    BY <1>1, <2>5, <2>6, SMTT(40)
  <2>. QED
    BY <2>3, <2>6, <2>7, SignedFacts
<1>. QED
  BY <1>5, <1>7, <1>8

\* Quotients are numbers, and by a positive finite number not not-a-number.
LEMMA DivFacts ==
    ASSUME NEW x \in Floats, NEW y \in Floats
    PROVE  /\ Div(x, y) \in Floats
           /\ x # NaN /\ y \in 1 .. MaxFinite => Div(x, y) # NaN
<1>1. /\ MaxFinite \in Nat /\ MaxFinite >= 1 /\ Inf = MaxFinite + 1 /\ NaN = MaxFinite + 2
      /\ NaN \in Floats /\ One \in Nat /\ Inf \in 0 .. Inf /\ 0 \in Floats /\ 0 # NaN
  BY FormatFacts, SMTT(40) DEF Floats
<1>2. x \in Int /\ y \in Int /\ Abs(x) * One \in Nat /\ Abs(y) \in Nat
  <2>1. x \in Int /\ y \in Int /\ Abs(x) \in Nat /\ Abs(y) \in Nat
    BY <1>1, SMTT(40) DEF Floats, Abs
  <2>. QED
    BY <1>1, <2>1, SMTT(40)
<1>3. CASE x = NaN \/ y = NaN \/ (Abs(x) = Inf /\ Abs(y) = Inf) \/ (x = 0 /\ y = 0)
  <2>1. Div(x, y) = NaN
    BY <1>3 DEF Div
  <2>2. x # NaN => y \notin 1 .. MaxFinite
    BY <1>1, <1>2, <1>3, SMTT(40) DEF Abs
  <2>. QED
    BY <1>1, <2>1, <2>2
<1>4. CASE /\ ~(x = NaN \/ y = NaN \/ (Abs(x) = Inf /\ Abs(y) = Inf) \/ (x = 0 /\ y = 0))
           /\ Abs(x) = Inf \/ y = 0
  <2>1. PICK z : z = Div(x, y)
    OBVIOUS
  <2>2. z = Signed((x < 0) # (y < 0), Inf)
    BY <1>4, <2>1 DEF Div
  <2>3. z \in Floats /\ z # NaN
    BY <1>1, <2>2, SignedNumber
  <2>. QED
    BY <2>1, <2>3
<1>5. CASE /\ ~(x = NaN \/ y = NaN \/ (Abs(x) = Inf /\ Abs(y) = Inf) \/ (x = 0 /\ y = 0))
           /\ ~(Abs(x) = Inf \/ y = 0) /\ Abs(y) = Inf
  BY <1>1, <1>5 DEF Div
<1>6. CASE /\ ~(x = NaN \/ y = NaN \/ (Abs(x) = Inf /\ Abs(y) = Inf) \/ (x = 0 /\ y = 0))
           /\ ~(Abs(x) = Inf \/ y = 0) /\ Abs(y) # Inf
  <2>1. Div(x, y) = Signed((x < 0) # (y < 0), RoundRatio(Abs(x) * One, Abs(y)))
    BY <1>6 DEF Div
  <2>2. Abs(y) \in Nat \ {0}
    BY <1>2, <1>6, SMTT(40) DEF Abs
  <2>3. RoundRatio(Abs(x) * One, Abs(y)) \in 0 .. Inf
    BY <1>2, <2>2, RatioFacts
  <2>4. PICK z, r : z = Div(x, y) /\ r = RoundRatio(Abs(x) * One, Abs(y))
    OBVIOUS
  <2>5. z = Signed((x < 0) # (y < 0), r) /\ r \in 0 .. Inf
    BY <2>1, <2>3, <2>4
  <2>6. z \in Floats /\ z # NaN
    BY <2>5, SignedNumber
  <2>. QED
    BY <2>4, <2>6
<1>. QED
  BY <1>3, <1>4, <1>5, <1>6

\* A root is a number that is not negative.
LEMMA SqrtFacts ==
    ASSUME NEW x \in Floats
    PROVE  sqrtf(x) \in 0 .. NaN
<1>1. /\ MaxFinite \in Nat /\ Inf = MaxFinite + 1 /\ NaN = MaxFinite + 2 /\ One \in Nat
  BY FormatFacts
<1>2. NaN \in 0 .. NaN /\ Inf \in 0 .. NaN /\ 0 .. Inf \subseteq 0 .. NaN
  BY <1>1, SMTT(40)
<1>3. ~(x = NaN \/ x < 0) => x * One \in Nat
  <2>1. ~(x < 0) => x \in Nat
    BY <1>1, SMTT(40) DEF Floats
  <2>. QED
    BY <1>1, <2>1, SMTT(40)
<1>. QED
  BY <1>2, <1>3, RootType DEF sqrtf

-----------------------------------------------------------------------------
(* The loops *)

\* One round of the loop of LoopSum, and what the first n rounds give.
AddTerm(F, terms, i) == IF i = 0 THEN 0 ELSE Add(F[i - 1], terms[i])
Rounds(F, terms, n) == F = [i \in 0 .. n |-> AddTerm(F, terms, i)]

\* The sums of the loop, one for each round.
LEMMA LoopRounds ==
    ASSUME NEW terms
    PROVE  \E F : /\ LoopSum(terms) = F[Dimension] /\ F[0] = 0
                  /\ \A i \in Nat : i + 1 <= Dimension => F[i + 1] = Add(F[i], terms[i + 1])
<1>. DEFINE Ns == {n \in Nat : \E F : Rounds(F, terms, n)}
<1>1. 0 \in Ns
  <2>. DEFINE F == [i \in 0 .. 0 |-> 0]
  <2>1. \A i \in 0 .. 0 : AddTerm(F, terms, i) = 0
    <3>1. \A i \in 0 .. 0 : i = 0
      BY SMTT(40)
    <3>. QED
      BY <3>1 DEF AddTerm
  <2>2. Rounds(F, terms, 0)
    BY <2>1 DEF Rounds
  <2>. QED
    BY <2>2
<1>2. ASSUME NEW n \in Nat, n \in Ns PROVE n + 1 \in Ns
  <2>1. PICK F : Rounds(F, terms, n)
    BY <1>2
  <2>. DEFINE G == [i \in 0 .. n + 1 |-> AddTerm(F, terms, i)]
  <2>2. ASSUME NEW i \in 0 .. n + 1 PROVE AddTerm(G, terms, i) = AddTerm(F, terms, i)
    <3>1. CASE i = 0
      BY <3>1 DEF AddTerm
    <3>2. CASE i # 0
      <4>1. i - 1 \in 0 .. n /\ i - 1 \in 0 .. n + 1
        BY <3>2, SMTT(40)
      <4>2. G[i - 1] = AddTerm(F, terms, i - 1) /\ F[i - 1] = AddTerm(F, terms, i - 1)
        BY <2>1, <4>1 DEF Rounds
      <4>. HIDE DEF G
      <4>3. G[i - 1] = F[i - 1]
        BY <4>2
      <4>. QED
        BY <3>2, <4>3 DEF AddTerm
    <3>. QED
      BY <3>1, <3>2
  <2>3. Rounds(G, terms, n + 1)
    BY <2>2 DEF Rounds
  <2>4. n + 1 \in Nat
    BY SMTT(40)
  <2>. QED
    BY <2>3, <2>4
<1>3. Dimension \in Nat
  BY FormatAssumption
<1>4. Dimension \in Ns
  <2>. HIDE DEF Ns
  <2>. QED
    BY <1>1, <1>2, <1>3, InductionOnSet
<1>5. PICK F : F = CHOOSE G : Rounds(G, terms, Dimension)
  OBVIOUS
<1>6. Rounds(F, terms, Dimension)
  BY <1>4, <1>5
<1>7. LoopSum(terms) = F[Dimension]
  BY <1>5 DEF LoopSum, Rounds, AddTerm
<1>8. F[0] = 0
  <2>1. 0 \in 0 .. Dimension
    BY <1>3, SMTT(40)
  <2>. QED
    BY <1>6, <2>1 DEF Rounds, AddTerm
<1>9. ASSUME NEW i \in Nat, i + 1 <= Dimension PROVE F[i + 1] = Add(F[i], terms[i + 1])
  <2>1. PICK k \in 0 .. Dimension : k = i + 1 /\ k # 0 /\ k - 1 = i
    BY <1>3, <1>9, SMTT(40)
  <2>2. F[k] = AddTerm(F, terms, k)
    BY <1>6 DEF Rounds
  <2>3. AddTerm(F, terms, k) = Add(F[i], terms[k])
    BY <2>1 DEF AddTerm
  <2>. QED
    BY <2>1, <2>2, <2>3
<1>. QED
  BY <1>7, <1>8, <1>9

\* A set that has zero and that adding a term stays in has the sum.
LEMMA LoopInduction ==
    ASSUME NEW terms, NEW S, 0 \in S,
           \A x \in S, i \in 1 .. Dimension : Add(x, terms[i]) \in S
    PROVE  LoopSum(terms) \in S
<1>1. PICK F : /\ LoopSum(terms) = F[Dimension] /\ F[0] = 0
               /\ \A i \in Nat : i + 1 <= Dimension => F[i + 1] = Add(F[i], terms[i + 1])
  BY LoopRounds
<1>. DEFINE Ns == {n \in Nat : n <= Dimension => F[n] \in S}
<1>2. 0 \in Ns
  BY <1>1
<1>3. ASSUME NEW n \in Nat, n \in Ns PROVE n + 1 \in Ns
  <2>1. n + 1 \in Nat
    BY SMTT(40)
  <2>2. ASSUME n + 1 <= Dimension PROVE F[n + 1] \in S
    <3>1. n <= Dimension /\ n + 1 \in 1 .. Dimension
      BY <2>2, FormatAssumption, SMTT(40)
    <3>2. F[n] \in S
      BY <1>3, <3>1
    <3>3. F[n + 1] = Add(F[n], terms[n + 1])
      BY <1>1, <2>2
    <3>. QED
      BY <3>1, <3>2, <3>3
  <2>. QED
    BY <2>1, <2>2
<1>. HIDE DEF Ns
<1>4. Dimension \in Nat /\ Dimension <= Dimension
  BY FormatAssumption, SMTT(40)
<1>5. Dimension \in Ns
  BY <1>2, <1>3, <1>4, InductionOnSet
<1>. QED
  BY <1>1, <1>4, <1>5 DEF Ns

\* A sum of numbers is a number, and not negative if none of them is.
LEMMA SumFacts ==
    ASSUME NEW terms, \A i \in 1 .. Dimension : terms[i] \in Floats
    PROVE  /\ LoopSum(terms) \in Floats
           /\ (\A i \in 1 .. Dimension : terms[i] >= 0) => LoopSum(terms) >= 0
           /\ (\A i \in 1 .. Dimension : Finite(terms[i])) => LoopSum(terms) # NaN
           /\ (\A i \in 1 .. Dimension : terms[i] \in 0 .. Inf) => LoopSum(terms) \in 0 .. Inf
<1>1. 0 \in Floats /\ 0 >= 0 /\ 0 # NaN /\ 0 \in 0 .. Inf
  BY FormatFacts, SMTT(40) DEF Floats
<1>2. LoopSum(terms) \in Floats
  BY <1>1, AddFacts, LoopInduction
<1>3. ASSUME \A i \in 1 .. Dimension : terms[i] >= 0 PROVE LoopSum(terms) >= 0
  <2>. DEFINE S == {x \in Floats : x >= 0}
  <2>1. 0 \in S
    BY <1>1
  <2>2. \A x \in S, i \in 1 .. Dimension : Add(x, terms[i]) \in S
    BY <1>3, AddFacts
  <2>. HIDE DEF S
  <2>3. LoopSum(terms) \in S
    BY <2>1, <2>2, LoopInduction
  <2>. QED
    BY <2>3 DEF S
<1>4. ASSUME \A i \in 1 .. Dimension : Finite(terms[i]) PROVE LoopSum(terms) # NaN
  <2>. DEFINE S == {x \in Floats : x # NaN}
  <2>1. 0 \in S
    BY <1>1
  <2>2. \A x \in S, i \in 1 .. Dimension : Add(x, terms[i]) \in S
    BY <1>4, AddFacts
  <2>. HIDE DEF S
  <2>3. LoopSum(terms) \in S
    BY <2>1, <2>2, LoopInduction
  <2>. QED
    BY <2>3 DEF S
<1>5. ASSUME \A i \in 1 .. Dimension : terms[i] \in 0 .. Inf PROVE LoopSum(terms) \in 0 .. Inf
  <2>1. 0 .. Inf \subseteq Floats
    BY FormatFacts, SMTT(40) DEF Floats
  <2>2. \A x \in 0 .. Inf, i \in 1 .. Dimension : Add(x, terms[i]) \in 0 .. Inf
    BY <1>5, <2>1, AddFacts
  <2>. QED
    BY <1>1, <2>2, LoopInduction
<1>. QED
  BY <1>2, <1>3, <1>4, <1>5

\* A sum of numbers that are not negative is zero only if each of them is.
LEMMA SumZero ==
    ASSUME NEW terms, \A i \in 1 .. Dimension : terms[i] \in 0 .. NaN, LoopSum(terms) = 0,
           NEW j \in 1 .. Dimension
    PROVE  terms[j] = 0
<1>1. PICK F : /\ LoopSum(terms) = F[Dimension] /\ F[0] = 0
               /\ \A i \in Nat : i + 1 <= Dimension => F[i + 1] = Add(F[i], terms[i + 1])
  BY LoopRounds
<1>. DEFINE Good(n) == /\ F[n] \in Floats /\ F[n] >= 0
                       /\ F[n] = 0 => \A i \in 1 .. n : terms[i] = 0
            Ns == {n \in Nat : n <= Dimension => Good(n)}
<1>2. 0 \in Ns
  <2>1. 0 \in Floats /\ 0 >= 0 /\ 1 .. 0 = {}
    BY FormatFacts, SMTT(40) DEF Floats
  <2>. QED
    BY <1>1, <2>1
<1>3. ASSUME NEW n \in Nat, n \in Ns PROVE n + 1 \in Ns
  <2>1. n + 1 \in Nat
    BY SMTT(40)
  <2>2. ASSUME n + 1 <= Dimension PROVE Good(n + 1)
    <3>1. n <= Dimension /\ n + 1 \in 1 .. Dimension
      BY <2>2, FormatAssumption, SMTT(40)
    <3>2. Good(n)
      BY <1>3, <3>1
    <3>3. PICK x, y : x = F[n] /\ y = terms[n + 1]
      OBVIOUS
    <3>4. F[n + 1] = Add(x, y)
      BY <1>1, <2>2, <3>3
    <3>5. x \in Floats /\ x >= 0
      BY <3>2, <3>3
    <3>6. y \in Floats /\ y >= 0
      <4>1. y \in 0 .. NaN
        BY <3>1, <3>3
      <4>. QED
        BY <4>1, FormatFacts, SMTT(40) DEF Floats
    <3>7. Add(x, y) \in Floats /\ Add(x, y) >= 0 /\ (Add(x, y) = 0 => x = 0 /\ y = 0)
      BY <3>5, <3>6, AddFacts
    <3>8. \A i \in 1 .. n + 1 : i \in 1 .. n \/ i = n + 1
      BY SMTT(40)
    <3>9. F[n + 1] = 0 => \A i \in 1 .. n + 1 : terms[i] = 0
      BY <3>2, <3>3, <3>4, <3>7, <3>8
    <3>. QED
      BY <3>4, <3>7, <3>9
  <2>. HIDE DEF Good
  <2>. QED
    BY <2>1, <2>2
<1>4. Dimension \in Nat /\ Dimension <= Dimension
  BY FormatAssumption, SMTT(40)
<1>5. Dimension \in Ns
  <2>. HIDE DEF Ns
  <2>. QED
    BY <1>2, <1>3, <1>4, InductionOnSet
<1>6. Good(Dimension)
  BY <1>4, <1>5
<1>. QED
  BY <1>1, <1>6

\* A sum of numbers that are not negative is infinite if one of them is.
LEMMA SumInfinite ==
    ASSUME NEW terms, \A i \in 1 .. Dimension : terms[i] \in 0 .. Inf,
           NEW j \in 1 .. Dimension, terms[j] = Inf
    PROVE  LoopSum(terms) = Inf
<1>1. PICK F : /\ LoopSum(terms) = F[Dimension] /\ F[0] = 0
               /\ \A i \in Nat : i + 1 <= Dimension => F[i + 1] = Add(F[i], terms[i + 1])
  BY LoopRounds
<1>. DEFINE Good(n) == /\ F[n] \in 0 .. Inf
                       /\ j <= n => F[n] = Inf
            Ns == {n \in Nat : n <= Dimension => Good(n)}
<1>2. 0 \in Ns
  <2>1. 0 \in 0 .. Inf /\ ~(j <= 0)
    BY FormatFacts, SMTT(40)
  <2>. QED
    BY <1>1, <2>1
<1>3. ASSUME NEW n \in Nat, n \in Ns PROVE n + 1 \in Ns
  <2>1. n + 1 \in Nat
    BY SMTT(40)
  <2>2. ASSUME n + 1 <= Dimension PROVE Good(n + 1)
    <3>1. n <= Dimension /\ n + 1 \in 1 .. Dimension
      BY <2>2, FormatAssumption, SMTT(40)
    <3>2. Good(n)
      BY <1>3, <3>1
    <3>3. PICK x, y : x = F[n] /\ y = terms[n + 1]
      OBVIOUS
    <3>4. F[n + 1] = Add(x, y)
      BY <1>1, <2>2, <3>3
    <3>5. x \in 0 .. Inf /\ y \in 0 .. Inf
      BY <3>1, <3>2, <3>3
    <3>6. 0 .. Inf \subseteq Floats
      BY FormatFacts, SMTT(40) DEF Floats
    <3>7. Add(x, y) \in 0 .. Inf /\ (x = Inf \/ y = Inf => Add(x, y) = Inf)
      BY <3>5, <3>6, AddFacts
    <3>8. j <= n + 1 => j <= n \/ j = n + 1
      BY SMTT(40)
    <3>9. j <= n + 1 => x = Inf \/ y = Inf
      BY <3>2, <3>3, <3>8
    <3>. QED
      BY <3>4, <3>7, <3>9
  <2>. HIDE DEF Good
  <2>. QED
    BY <2>1, <2>2
<1>4. Dimension \in Nat /\ Dimension <= Dimension /\ j <= Dimension
  BY FormatAssumption, SMTT(40)
<1>5. Dimension \in Ns
  <2>. HIDE DEF Ns
  <2>. QED
    BY <1>2, <1>3, <1>4, InductionOnSet
<1>6. Good(Dimension)
  BY <1>4, <1>5
<1>. QED
  BY <1>1, <1>4, <1>6

-----------------------------------------------------------------------------
(* The functions *)

\* The components of a vector are finite numbers.
LEMMA VectorFacts ==
    ASSUME NEW u \in Vectors, NEW i \in 1 .. Dimension
    PROVE  u[i] \in Floats /\ Finite(u[i])
<1>1. u[i] \in Numbers
  BY ComponentsAssumption DEF Vectors
<1>2. u[i] \in -MaxFinite .. MaxFinite
  BY <1>1 DEF Numbers
<1>. QED
  BY <1>2, FormatFacts, SMTT(40) DEF Floats, Finite

\* A norm is not negative and a number, and infinite if a square overflows.
LEMMA NormFacts ==
    ASSUME NEW u \in Vectors
    PROVE  /\ Dot(u, u) \in 0 .. Inf
           /\ \A i \in 1 .. Dimension : Mul(u[i], u[i]) = Inf => Dot(u, u) = Inf
<1>. DEFINE terms == [i \in 1 .. Dimension |-> Mul(u[i], u[i])]
<1>1. \A i \in 1 .. Dimension : terms[i] = Mul(u[i], u[i])
  OBVIOUS
<1>2. Dot(u, u) = LoopSum(terms)
  BY DEF Dot
<1>3. \A i \in 1 .. Dimension : terms[i] \in 0 .. Inf
  BY <1>1, VectorFacts, MulFacts
<1>. HIDE DEF terms
<1>4. \A i \in 1 .. Dimension : terms[i] \in Floats
  <2>1. 0 .. Inf \subseteq Floats
    BY FormatFacts, SMTT(40) DEF Floats
  <2>. QED
    BY <1>3, <2>1
<1>5. LoopSum(terms) \in 0 .. Inf
  BY <1>3, <1>4, SumFacts
<1>6. ASSUME NEW i \in 1 .. Dimension, Mul(u[i], u[i]) = Inf PROVE LoopSum(terms) = Inf
  BY <1>1, <1>3, <1>6, SumInfinite
<1>. QED
  BY <1>2, <1>5, <1>6

\* A dot product is a number, and not not-a-number if both norms are finite.
LEMMA DotFacts ==
    ASSUME NEW u \in Vectors, NEW v \in Vectors
    PROVE  /\ Dot(u, v) \in Floats
           /\ Dot(u, u) # Inf /\ Dot(v, v) # Inf => Dot(u, v) # NaN
<1>. DEFINE terms == [i \in 1 .. Dimension |-> Mul(u[i], v[i])]
<1>1. \A i \in 1 .. Dimension : terms[i] = Mul(u[i], v[i])
  OBVIOUS
<1>2. Dot(u, v) = LoopSum(terms)
  BY DEF Dot
<1>. HIDE DEF terms
<1>3. \A i \in 1 .. Dimension : terms[i] \in Floats
  BY <1>1, VectorFacts, MulFacts
<1>4. LoopSum(terms) \in Floats
  BY <1>3, SumFacts
<1>5. ASSUME Dot(u, u) # Inf, Dot(v, v) # Inf PROVE LoopSum(terms) # NaN
  <2>1. ASSUME NEW i \in 1 .. Dimension PROVE Finite(terms[i])
    <3>1. Mul(u[i], u[i]) # Inf /\ Mul(v[i], v[i]) # Inf
      BY <1>5, NormFacts
    <3>2. PICK x \in Floats, y \in Floats : x = u[i] /\ y = v[i] /\ Finite(x) /\ Finite(y)
      BY VectorFacts
    <3>3. Finite(Mul(x, y))
      BY <3>1, <3>2, MulFacts
    <3>. QED
      BY <1>1, <3>2, <3>3
  <2>. QED
    BY <1>3, <2>1, SumFacts
<1>. QED
  BY <1>2, <1>4, <1>5

\* The product of two roots of positive finite numbers is positive and finite.
LEMMA DenominatorFacts ==
    ASSUME NEW a \in 1 .. MaxFinite, NEW b \in 1 .. MaxFinite
    PROVE  Denominator(a, b) \in 1 .. MaxFinite
<1>1. /\ MaxFinite \in Nat /\ MaxFinite >= 1 /\ Inf = MaxFinite + 1 /\ NaN = MaxFinite + 2
      /\ One \in Nat \ {0} /\ One \in Nat
  BY FormatFacts, SMTT(40)
<1>2. PICK L \in Nat : L = MaxFinite * One
  BY <1>1, SMTT(40)
<1>3. ASSUME NEW x \in 1 .. MaxFinite
      PROVE  \E r \in 1 .. MaxFinite : /\ sqrtf(x) = r /\ One < 2 * (r * r) /\ r * r <= L
  <2>1. x \in Nat /\ x >= 1 /\ x <= MaxFinite /\ x # NaN /\ ~(x < 0) /\ x # Inf
    BY <1>1, SMTT(40)
  <2>2. PICK m \in Nat : m = x * One /\ One <= m /\ m <= L
    <3>1. x * One \in Nat /\ One <= x * One
      BY <1>1, <2>1, SMTT(40)
    <3>2. x * One <= MaxFinite * One
      BY <1>1, <2>1, SMTT(40)
    <3>. QED
      BY <1>2, <3>1, <3>2
  <2>3. sqrtf(x) = RoundRoot(m)
    BY <2>1, <2>2 DEF sqrtf
  <2>4. PICK r \in 1 .. MaxFinite : r = RoundRoot(m) /\ m < 2 * (r * r) /\ r * r <= L
    BY <1>2, <2>2, RootBounds
  <2>5. r \in Nat /\ r * r \in Nat
    BY <1>1, SMTT(40)
  <2>6. One < 2 * (r * r)
    BY <1>1, <2>2, <2>4, <2>5, SMTT(40)
  <2>. QED
    BY <2>3, <2>4, <2>6
<1>4. PICK r \in 1 .. MaxFinite : sqrtf(a) = r /\ One < 2 * (r * r) /\ r * r <= L
  BY <1>3
<1>5. PICK t \in 1 .. MaxFinite : sqrtf(b) = t /\ One < 2 * (t * t) /\ t * t <= L
  BY <1>3
<1>6. /\ r \in Nat /\ t \in Nat /\ r * t \in Nat /\ r * r \in Nat /\ t * t \in Nat
      /\ r # NaN /\ t # NaN /\ Abs(r) = r /\ Abs(t) = t /\ r # Inf /\ t # Inf
      /\ ~(r < 0) /\ ~(t < 0)
  BY <1>1, SMTT(40) DEF Abs
<1>7. Denominator(a, b) = RoundRatio(r * t, One)
  <2>1. Mul(r, t) = Signed((r < 0) # (t < 0), RoundRatio(r * t, One))
    BY <1>6 DEF Mul
  <2>2. ~((r < 0) # (t < 0))
    BY <1>6, SMTT(40)
  <2>3. Mul(r, t) = RoundRatio(r * t, One)
    BY <2>1, <2>2 DEF Signed
  <2>. QED
    BY <1>4, <1>5, <2>3 DEF Denominator
<1>8. r * t <= L
  <2>1. r * t <= r * r \/ r * t <= t * t
    BY <1>6, SMTT(40)
  <2>. QED
    BY <1>4, <1>5, <1>6, <2>1, SMTT(40)
<1>9. 2 * (r * t) > One
  <2>1. 2 * (r * t) >= 2 * (r * r) \/ 2 * (r * t) >= 2 * (t * t)
    BY <1>6, SMTT(40)
  <2>. QED
    BY <1>1, <1>4, <1>5, <1>6, <2>1, SMTT(40)
<1>10. PICK n \in Nat : n = r * t
  BY <1>6
<1>11. RoundRatio(n, One) <= MaxFinite
  BY <1>1, <1>2, <1>8, <1>10, RatioMonotone
<1>12. RoundRatio(n, One) >= 1 /\ RoundRatio(n, One) \in 0 .. Inf
  BY <1>1, <1>9, <1>10, RatioFacts
<1>13. RoundRatio(n, One) \in 1 .. MaxFinite
  BY <1>1, <1>11, <1>12, SMTT(40)
<1>. QED
  BY <1>7, <1>10, <1>13

\* A cosine is a number, and not-a-number only if a norm is infinite.
LEMMA CosineFacts ==
    ASSUME NEW u \in Vectors, NEW v \in Vectors
    PROVE  /\ vector_cosine_similarity(u, v) \in Floats
           /\ Dot(u, u) # Inf /\ Dot(v, v) # Inf => vector_cosine_similarity(u, v) # NaN
<1>1. PICK a, b, d : a = Dot(u, u) /\ b = Dot(v, v) /\ d = Dot(u, v)
  OBVIOUS
<1>2. a \in 0 .. Inf /\ b \in 0 .. Inf
  BY <1>1, NormFacts
<1>3. d \in Floats /\ (a # Inf /\ b # Inf => d # NaN)
  BY <1>1, DotFacts
<1>4. vector_cosine_similarity(u, v) =
        IF a = 0 \/ b = 0 THEN 0 ELSE Div(d, Denominator(a, b))
  BY <1>1 DEF vector_cosine_similarity
<1>5. MaxFinite \in Nat /\ Inf = MaxFinite + 1 /\ NaN = MaxFinite + 2
  BY FormatFacts
<1>6. 0 \in Floats /\ 0 # NaN /\ a \in Floats /\ b \in Floats /\ 0 .. NaN \subseteq Floats
      /\ 1 .. MaxFinite \subseteq Floats
  BY <1>2, <1>5, SMTT(40) DEF Floats
<1>7. Denominator(a, b) \in Floats
  BY <1>6, SqrtFacts, MulFacts DEF Denominator
<1>8. Div(d, Denominator(a, b)) \in Floats
  BY <1>3, <1>7, DivFacts
<1>9. ASSUME a # Inf, b # Inf, a # 0, b # 0 PROVE Div(d, Denominator(a, b)) # NaN
  <2>1. a \in 1 .. MaxFinite /\ b \in 1 .. MaxFinite
    BY <1>2, <1>5, <1>9, SMTT(40)
  <2>2. PICK y : y = Denominator(a, b)
    OBVIOUS
  <2>3. y \in 1 .. MaxFinite
    BY <2>1, <2>2, DenominatorFacts
  <2>4. y \in Floats
    BY <1>7, <2>2
  <2>. QED
    BY <1>3, <1>9, <2>2, <2>3, <2>4, DivFacts
<1>. QED
  BY <1>1, <1>4, <1>6, <1>8, <1>9

\* A Euclidean distance is a number that is not negative.
LEMMA EuclideanFacts ==
    ASSUME NEW u \in Vectors, NEW v \in Vectors
    PROVE  vector_euclidean_distance(u, v) \in 0 .. NaN
<1>. DEFINE terms == [i \in 1 .. Dimension |-> Mul(Sub(u[i], v[i]), Sub(u[i], v[i]))]
<1>1. \A i \in 1 .. Dimension : terms[i] \in Floats
  <2>1. ASSUME NEW i \in 1 .. Dimension
        PROVE  Mul(Sub(u[i], v[i]), Sub(u[i], v[i])) \in Floats
    <3>1. PICK x \in Floats : x = Sub(u[i], v[i])
      BY VectorFacts, SubFacts
    <3>2. Mul(x, x) \in Floats
      BY MulFacts
    <3>. QED
      BY <3>1, <3>2
  <2>. QED
    BY <2>1
<1>2. vector_euclidean_distance(u, v) = sqrtf(LoopSum(terms))
  BY DEF vector_euclidean_distance
<1>. HIDE DEF terms
<1>3. LoopSum(terms) \in Floats
  BY <1>1, SumFacts
<1>. QED
  BY <1>2, <1>3, SqrtFacts

\* A Manhattan distance is a number that is not negative, and zero only between a
\* vector and itself.
LEMMA ManhattanFacts ==
    ASSUME NEW u \in Vectors, NEW v \in Vectors
    PROVE  /\ vector_manhattan_distance(u, v) \in 0 .. NaN
           /\ vector_manhattan_distance(u, v) = 0 => u = v
<1>. DEFINE terms == [i \in 1 .. Dimension |-> fabsf(Sub(u[i], v[i]))]
<1>1. \A i \in 1 .. Dimension : terms[i] = fabsf(Sub(u[i], v[i]))
  OBVIOUS
<1>2. vector_manhattan_distance(u, v) = LoopSum(terms)
  BY DEF vector_manhattan_distance
<1>. HIDE DEF terms
<1>3. ASSUME NEW i \in 1 .. Dimension PROVE terms[i] \in 0 .. NaN
  <2>1. PICK x \in Floats, y \in Floats : x = u[i] /\ y = v[i]
    BY VectorFacts
  <2>2. fabsf(Sub(x, y)) \in 0 .. NaN
    BY SubFacts
  <2>. QED
    BY <1>1, <2>1, <2>2
<1>4. \A i \in 1 .. Dimension : terms[i] \in Floats /\ terms[i] >= 0
  <2>1. \A x \in 0 .. NaN : x \in Floats /\ x >= 0
    BY FormatFacts, SMTT(40) DEF Floats
  <2>. QED
    BY <1>3, <2>1
<1>5. LoopSum(terms) \in Floats /\ LoopSum(terms) >= 0
  BY <1>4, SumFacts
<1>6. LoopSum(terms) \in 0 .. NaN
  BY <1>5, FormatFacts, SMTT(40) DEF Floats
<1>7. ASSUME LoopSum(terms) = 0 PROVE u = v
  <2>1. ASSUME NEW i \in 1 .. Dimension PROVE u[i] = v[i]
    <3>1. PICK x \in Floats, y \in Floats : x = u[i] /\ y = v[i] /\ Finite(x) /\ Finite(y)
      BY VectorFacts
    <3>2. fabsf(Sub(x, y)) = 0
      BY <1>1, <1>3, <1>7, <3>1, SumZero
    <3>3. x = y
      BY <3>1, <3>2, SubFacts
    <3>. QED
      BY <3>1, <3>3
  <2>2. u = [i \in 1 .. Dimension |-> u[i]] /\ v = [i \in 1 .. Dimension |-> v[i]]
    BY DEF Vectors
  <2>3. [i \in 1 .. Dimension |-> u[i]] = [i \in 1 .. Dimension |-> v[i]]
    BY <2>1
  <2>. QED
    BY <2>2, <2>3
<1>. QED
  BY <1>2, <1>6, <1>7

-----------------------------------------------------------------------------
(* Calls of the functions *)

\* The arguments are vectors, and the result is what the function gives of them.
Returned ==
    /\ vec1 \in Vectors /\ vec2 \in Vectors
    /\ \/ fn = "none" /\ result = 0
       \/ fn = "cosine" /\ result = vector_cosine_similarity(vec1, vec2)
       \/ fn = "euclidean" /\ result = vector_euclidean_distance(vec1, vec2)
       \/ fn = "manhattan" /\ result = vector_manhattan_distance(vec1, vec2)

\* Every call returns the value of its function for the arguments.
LEMMA ReturnedInvariant ==
    VectorSpec => []Returned
<1>1. VectorInit => Returned
  BY DEF VectorInit, Returned
<1>2. Returned /\ [VectorNext]_vectorVars => Returned'
  <2>. SUFFICES ASSUME Returned, [VectorNext]_vectorVars PROVE Returned'
    OBVIOUS
  <2>1. CASE Cosine
    BY <2>1 DEF Returned, Cosine, Return
  <2>2. CASE Euclidean
    BY <2>2 DEF Returned, Euclidean, Return
  <2>3. CASE Manhattan
    BY <2>3 DEF Returned, Manhattan, Return
  <2>4. CASE UNCHANGED vectorVars
    BY <2>4 DEF Returned, vectorVars
  <2>. QED
    BY <2>1, <2>2, <2>3, <2>4 DEF VectorNext
<1>. QED
  BY <1>1, <1>2, PTL DEF VectorSpec

\* If neither norm is zero and both are finite, the product of their roots in
\* vector_cosine_similarity neither vanishes nor overflows: in every format whose
\* greatest exponent is odd, as those of IEEE 754, and for vectors of any length.
THEOREM DenominatorIsSound ==
    VectorSpec => []DenominatorSound
<1>1. Returned => DenominatorSound
  BY DenominatorFacts DEF DenominatorSound
<1>. QED
  BY <1>1, ReturnedInvariant, PTL

\* The three functions return numbers of the format, distances are not negative,
\* and a cosine is not-a-number only if a norm overflowed.
THEOREM ResultsAreDefined ==
    VectorSpec => []ResultsDefined
<1>1. Returned => ResultsDefined
  <2>. SUFFICES ASSUME Returned PROVE ResultsDefined
    OBVIOUS
  <2>1. vec1 \in Vectors /\ vec2 \in Vectors
    BY DEF Returned
  <2>2. Floats = -Inf .. NaN /\ 0 \in Floats /\ 0 # NaN /\ \A x \in 0 .. NaN : x \in Floats /\ x >= 0
    BY FormatFacts, SMTT(40) DEF Floats
  <2>3. CASE fn = "none" /\ result = 0
    BY <2>2, <2>3 DEF ResultsDefined
  <2>4. CASE fn = "cosine" /\ result = vector_cosine_similarity(vec1, vec2)
    BY <2>1, <2>2, <2>4, CosineFacts DEF ResultsDefined
  <2>5. CASE fn = "euclidean" /\ result = vector_euclidean_distance(vec1, vec2)
    BY <2>1, <2>2, <2>5, EuclideanFacts DEF ResultsDefined
  <2>6. CASE fn = "manhattan" /\ result = vector_manhattan_distance(vec1, vec2)
    BY <2>1, <2>2, <2>6, ManhattanFacts DEF ResultsDefined
  <2>. QED
    BY <2>3, <2>4, <2>5, <2>6 DEF Returned
<1>. QED
  BY <1>1, ReturnedInvariant, PTL

\* vector_manhattan_distance is zero only between equal vectors.
THEOREM ManhattanSeparatesVectors ==
    VectorSpec => []ManhattanSeparates
<1>1. Returned => ManhattanSeparates
  BY ManhattanFacts DEF Returned, ManhattanSeparates
<1>. QED
  BY <1>1, ReturnedInvariant, PTL
=============================================================================
