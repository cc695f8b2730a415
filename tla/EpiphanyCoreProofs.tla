------------------------- MODULE EpiphanyCoreProofs --------------------------
(***************************************************************************)
(* What is proved of EpiphanyCore for every set of addresses and threads:  *)
(* the ownership invariant, and from it type correctness, memory safety,   *)
(* usable handles, the conservation of blocks and single owners; and that  *)
(* the library implements the handles of HandleLeases, each step taking a  *)
(* fresh lease, giving one back or leaving them all as they are.           *)
(*                                                                         *)
(* A slot is a pair of an object and one of its members; L says which      *)
(* slots somebody still has to free, R which objects.  HeapOK relates the  *)
(* two to the heap: every object is in R, every allocated string or buffer *)
(* is in exactly one live slot, and a live slot holds null or such a block.*)
(* Each step of a call is one of six moves on slots and objects, and each  *)
(* move keeps HeapOK, whatever the heap looks like.                        *)
(*                                                                         *)
(* The invariant is HeapOK for the slots that handles and calls owe, with  *)
(* what the calls in progress have not written yet, and ArgsHeld: a call   *)
(* that has still to read its context finds it among the ones held, since  *)
(* clients release none of those earlier.  The steps that free a           *)
(* member, free an object or only return come first; then the steps of the *)
(* constructors: those that fill a member and go on, those that go on      *)
(* without filling it, and the last ones, which hand the finished object   *)
(* to the client or start to undo it; then the first steps of the calls;   *)
(* and last the theorems.                                                  *)
(***************************************************************************)
EXTENDS EpiphanyCore, TLAPS

\* Zenon proves the leaves that do not name a prover.
USE ZenonT(40)

ObjKinds == {"context", "table", "transaction"}

HeapTypes(k, fd, L) ==
    /\ k \in [Addr -> Kinds]
    /\ fd \in [Addr -> [Fields -> Ptr]]
    /\ L \in [Addr -> SUBSET Fields]

HeapOK(k, fd, L, R) ==
    /\ R = {a \in Addr : k[a] \in ObjKinds}
    /\ \A o \in Addr : \A f \in L[o] :
          o \in R /\ (fd[o][f] = NULL \/ (fd[o][f] \in Addr /\ k[fd[o][f]] = "bytes"))
    /\ \A o, p \in Addr : \A f \in L[o], g \in L[p] :
          fd[o][f] = fd[p][g] /\ fd[o][f] # NULL => o = p /\ f = g
    /\ \A a \in Addr : k[a] = "bytes" => \E o \in Addr : \E f \in L[o] : fd[o][f] = a

-----------------------------------------------------------------------------
(* The six moves *)

SlotFreed(k, fd, L, o, f, k2, fd2, L2) ==
    /\ \A a \in Addr : k2[a] = IF a = fd[o][f] THEN "free" ELSE k[a]
    /\ \A a \in Addr : fd2[a] = IF a = fd[o][f] THEN NoFields ELSE fd[a]
    /\ \A a \in Addr : L2[a] = IF a = o THEN L[o] \ {f} ELSE L[a]

SlotFilled(k, fd, L, o, f, a, k2, fd2, L2) ==
    /\ \A b \in Addr : k2[b] = IF b = a THEN "bytes" ELSE k[b]
    /\ \A b \in Addr, g \in Fields :
          fd2[b][g] = IF b = o /\ g = f THEN a ELSE fd[b][g]
    /\ \A b \in Addr : L2[b] = IF b = o THEN L[o] \cup {f} ELSE L[b]

ObjectMade(k, fd, L, a, K, F, S, k2, fd2, L2) ==
    /\ \A b \in Addr : k2[b] = IF b = a THEN K ELSE k[b]
    /\ \A b \in Addr : fd2[b] = IF b = a THEN F ELSE fd[b]
    /\ \A b \in Addr : L2[b] = IF b = a THEN S ELSE L[b]

ObjectFreed(k, fd, o, k2, fd2) ==
    /\ \A a \in Addr : k2[a] = IF a = o THEN "free" ELSE k[a]
    /\ \A a \in Addr : a # o => fd2[a] = fd[a]

\* free(o->f) of a live slot: what is freed is a live block or null, and the
\* slot is live no more.
LEMMA FreeSlot ==
    ASSUME NEW k, NEW fd, NEW L, NEW R, HeapTypes(k, fd, L), HeapOK(k, fd, L, R),
           NEW o \in Addr, NEW f \in L[o],
           NEW k2, NEW fd2, NEW L2, HeapTypes(k2, fd2, L2),
           SlotFreed(k, fd, L, o, f, k2, fd2, L2)
    PROVE  /\ HeapOK(k2, fd2, L2, R)
           /\ fd[o][f] = NULL \/ (fd[o][f] \in Addr /\ k[fd[o][f]] # "free")
           /\ fd[o][f] \notin R
<1> USE DEF HeapTypes, SlotFreed
<1> DEFINE p == fd[o][f]
<1>1. p = NULL \/ (p \in Addr /\ k[p] = "bytes")
  BY DEF HeapOK
<1>2. p \notin R
  BY SMTT(40), <1>1, PointerAssumption DEF HeapOK, ObjKinds
<1>3. R = {a \in Addr : k2[a] \in ObjKinds}
  BY SMTT(40), <1>1, PointerAssumption DEF HeapOK, ObjKinds
<1>4. \A q \in Addr : \A g \in L2[q] : q \in R /\ g \in L[q] /\ fd2[q] = fd[q] /\ (q # o \/ g # f)
  BY SMTT(40), <1>2 DEF HeapOK
<1>5. \A q \in Addr : \A g \in L2[q] :
          q \in R /\ (fd2[q][g] = NULL \/ (fd2[q][g] \in Addr /\ k2[fd2[q][g]] = "bytes"))
  <2> SUFFICES ASSUME NEW q \in Addr, NEW g \in L2[q]
               PROVE  fd2[q][g] = NULL \/ (fd2[q][g] \in Addr /\ k2[fd2[q][g]] = "bytes")
    BY SMTT(40), <1>4
  <2>1. fd2[q][g] = fd[q][g] /\ g \in L[q]
    BY <1>4
  <2>2. fd[q][g] # p \/ fd[q][g] = NULL
    BY SMTT(40), <1>4, <2>1 DEF HeapOK
  <2>3. fd[q][g] = NULL \/ (fd[q][g] \in Addr /\ k[fd[q][g]] = "bytes")
    BY SMTT(40), <2>1 DEF HeapOK
  <2> QED
    BY <2>1, <2>2, <2>3
<1>6. \A q, r \in Addr : \A g \in L2[q], h \in L2[r] :
          fd2[q][g] = fd2[r][h] /\ fd2[q][g] # NULL => q = r /\ g = h
  BY SMTT(40), <1>4 DEF HeapOK
<1>7. ASSUME NEW a \in Addr, k2[a] = "bytes"
      PROVE  \E q \in Addr : \E g \in L2[q] : fd2[q][g] = a
  <2>1. a # p /\ k[a] = "bytes"
    BY <1>7
  <2>2. PICK q \in Addr, g \in Fields : g \in L[q] /\ fd[q][g] = a
    BY SMTT(40), <2>1 DEF HeapOK
  <2>3. g \in L2[q]
    BY <2>1, <2>2
  <2> QED
    BY <1>4, <2>2, <2>3
<1> QED
  BY <1>1, <1>2, <1>3, <1>5, <1>6, <1>7 DEF HeapOK

\* o->f = malloc(...) that succeeds, where f was no live slot: it is one now.
LEMMA AllocSlot ==
    ASSUME NEW k, NEW fd, NEW L, NEW R, HeapTypes(k, fd, L), HeapOK(k, fd, L, R),
           NEW o \in R, NEW f \in Fields, f \notin L[o],
           NEW a \in Addr, k[a] = "free",
           NEW k2, NEW fd2, NEW L2, HeapTypes(k2, fd2, L2),
           SlotFilled(k, fd, L, o, f, a, k2, fd2, L2)
    PROVE  HeapOK(k2, fd2, L2, R)
<1> USE DEF HeapTypes, SlotFilled
<1>1. o \in Addr /\ o # a
  BY DEF HeapOK, ObjKinds
<1>2. R = {b \in Addr : k2[b] \in ObjKinds}
  BY SMTT(40) DEF HeapOK, ObjKinds
<1>3. /\ \A q \in Addr : \A g \in L2[q] : (q = o /\ g = f) \/ g \in L[q]
      /\ \A q \in Addr : \A g \in L[q] : g \in L2[q] /\ (q # o \/ g # f)
  BY SMTT(40), <1>1
<1>4. \A q \in Addr, g \in Fields : fd2[q][g] = IF q = o /\ g = f THEN a ELSE fd[q][g]
  OBVIOUS
<1>5. \A q \in Addr : \A g \in L[q] : fd[q][g] # a
  BY SMTT(40), PointerAssumption DEF HeapOK
<1>6. \A q \in Addr : \A g \in L2[q] :
          q \in R /\ (fd2[q][g] = NULL \/ (fd2[q][g] \in Addr /\ k2[fd2[q][g]] = "bytes"))
  BY SMTT(40), <1>1, <1>3, <1>4, <1>5 DEF HeapOK
<1>7. \A q, r \in Addr : \A g \in L2[q], h \in L2[r] :
          fd2[q][g] = fd2[r][h] /\ fd2[q][g] # NULL => q = r /\ g = h
  <2> SUFFICES ASSUME NEW q \in Addr, NEW r \in Addr, NEW g \in L2[q], NEW h \in L2[r],
                      fd2[q][g] = fd2[r][h], fd2[q][g] # NULL
               PROVE  q = r /\ g = h
    BY SMTT(40)
  <2>1. CASE g \in L[q] /\ h \in L[r]
    <3>1. fd[q][g] = fd[r][h] /\ fd[q][g] # NULL
      BY SMTT(40), <1>3, <1>4, <2>1
    <3> QED
      BY SMTT(40), <2>1, <3>1 DEF HeapOK
  <2>2. CASE ~ (g \in L[q] /\ h \in L[r])
    BY SMTT(40), <1>3, <1>4, <1>5, <2>2
  <2> QED
    BY <2>1, <2>2
<1>8. ASSUME NEW b \in Addr, k2[b] = "bytes"
      PROVE  \E q \in Addr : \E g \in L2[q] : fd2[q][g] = b
  <2>1. CASE b = a
    BY SMTT(40), <1>1, <1>4, <2>1
  <2>2. CASE b # a
    <3>1. PICK q \in Addr, g \in Fields : g \in L[q] /\ fd[q][g] = b
      BY SMTT(40), <1>8, <2>2 DEF HeapOK
    <3> QED
      BY <1>3, <1>4, <3>1
  <2> QED
    BY <2>1, <2>2
<1> QED
  BY <1>2, <1>6, <1>7, <1>8 DEF HeapOK

\* o->f = NULL where f is no live slot: nobody notices.
LEMMA NullSlot ==
    ASSUME NEW k, NEW fd, NEW L, NEW R, HeapTypes(k, fd, L), HeapOK(k, fd, L, R),
           NEW o \in Addr, NEW f \in Fields, f \notin L[o],
           NEW fd2, HeapTypes(k, fd2, L),
           \A a \in Addr, g \in Fields : a # o \/ g # f => fd2[a][g] = fd[a][g]
    PROVE  HeapOK(k, fd2, L, R)
<1> USE DEF HeapTypes
<1>1. \A q \in Addr : \A g \in L[q] : fd2[q][g] = fd[q][g]
  OBVIOUS
<1> QED
  BY SMTT(40), <1>1 DEF HeapOK

\* Slots that hold null may be counted as live or not, as long as they are
\* slots of a root.
LEMMA Relabel ==
    ASSUME NEW k, NEW fd, NEW L, NEW R, HeapTypes(k, fd, L), HeapOK(k, fd, L, R),
           NEW o \in R, NEW S \in SUBSET Fields,
           \A f \in (S \ L[o]) \cup (L[o] \ S) : fd[o][f] = NULL,
           NEW L2, HeapTypes(k, fd, L2),
           \A a \in Addr : L2[a] = IF a = o THEN S ELSE L[a]
    PROVE  HeapOK(k, fd, L2, R)
<1> USE DEF HeapTypes
<1>1. o \in Addr
  BY DEF HeapOK
<1>2. \A q \in Addr : \A g \in L2[q] : g \in L[q] \/ (q = o /\ fd[q][g] = NULL)
  BY <1>1
<1>3. \A q \in Addr : \A g \in L[q] : g \in L2[q] \/ fd[q][g] = NULL
  BY <1>1
<1>4. \A a \in Addr : k[a] = "bytes" => \E q \in Addr : \E g \in L2[q] : fd[q][g] = a
  BY SMTT(40), <1>3, PointerAssumption DEF HeapOK
<1> QED
  BY SMTT(40), <1>2, <1>4 DEF HeapOK

\* malloc of a new object: a root, with any set of null slots live.
LEMMA NewObject ==
    ASSUME NEW k, NEW fd, NEW L, NEW R, HeapTypes(k, fd, L), HeapOK(k, fd, L, R),
           NEW a \in Addr, k[a] = "free",
           NEW K \in ObjKinds, NEW F \in [Fields -> Ptr],
           NEW S \in SUBSET Fields, \A f \in S : F[f] = NULL,
           NEW k2, NEW fd2, NEW L2, HeapTypes(k2, fd2, L2),
           ObjectMade(k, fd, L, a, K, F, S, k2, fd2, L2)
    PROVE  HeapOK(k2, fd2, L2, R \cup {a})
<1> USE DEF HeapTypes, ObjectMade
<1>1. a \notin R /\ L[a] = {}
  <2>1. a \notin R
    BY DEF HeapOK, ObjKinds
  <2>2. \A f \in L[a] : FALSE
    BY <2>1 DEF HeapOK
  <2> QED
    BY <2>1, <2>2
<1>2. R \cup {a} = {b \in Addr : k2[b] \in ObjKinds}
  BY SMTT(40) DEF HeapOK
<1>3. \A q \in Addr : \A g \in L2[q] :
          (q = a /\ fd2[q][g] = NULL) \/ (q # a /\ g \in L[q] /\ fd2[q][g] = fd[q][g])
  OBVIOUS
<1>4. \A q \in Addr : \A g \in L[q] : q # a /\ g \in L2[q] /\ fd2[q][g] = fd[q][g]
  BY <1>1
<1>5. \A b \in Addr : k2[b] = "bytes" => k[b] = "bytes"
  BY DEF ObjKinds
<1>6. \A b \in Addr : k[b] = "bytes" => k2[b] = "bytes"
  OBVIOUS
<1>7. \A q \in Addr : \A g \in L2[q] : q \in R \cup {a}
          /\ (fd2[q][g] = NULL \/ (fd2[q][g] \in Addr /\ k2[fd2[q][g]] = "bytes"))
  BY SMTT(40), <1>3, <1>6 DEF HeapOK
<1>8. \A b \in Addr : k2[b] = "bytes" => \E q \in Addr : \E g \in L2[q] : fd2[q][g] = b
  BY SMTT(40), <1>4, <1>5 DEF HeapOK
<1>9. \A q, r \in Addr : \A g \in L2[q], h \in L2[r] :
          fd2[q][g] = fd2[r][h] /\ fd2[q][g] # NULL => q = r /\ g = h
  BY SMTT(40), <1>3 DEF HeapOK
<1> QED
  BY <1>1, <1>2, <1>7, <1>8, <1>9 DEF HeapOK

\* free(o) of an object without live slots.
LEMMA DropObject ==
    ASSUME NEW k, NEW fd, NEW L, NEW R, HeapTypes(k, fd, L), HeapOK(k, fd, L, R),
           NEW o \in R, L[o] = {},
           NEW k2, NEW fd2, HeapTypes(k2, fd2, L),
           ObjectFreed(k, fd, o, k2, fd2)
    PROVE  HeapOK(k2, fd2, L, R \ {o})
<1> USE DEF HeapTypes, ObjectFreed
<1>1. o \in Addr /\ k[o] \in ObjKinds
  BY DEF HeapOK
<1>2. R \ {o} = {b \in Addr : k2[b] \in ObjKinds}
  BY SMTT(40), <1>1 DEF HeapOK, ObjKinds
<1>3. \A q \in Addr : \A g \in L[q] : q # o /\ fd2[q][g] = fd[q][g]
  BY <1>1
<1>4. \A b \in Addr : k2[b] = "bytes" <=> k[b] = "bytes"
  BY <1>1 DEF ObjKinds
<1>5. \A q \in Addr : \A g \in L[q] : q \in R \ {o}
          /\ (fd2[q][g] = NULL \/ (fd2[q][g] \in Addr /\ k2[fd2[q][g]] = "bytes"))
  BY SMTT(40), <1>3, <1>4 DEF HeapOK
<1>6. \A b \in Addr : k2[b] = "bytes" => \E q \in Addr : \E g \in L[q] : fd2[q][g] = b
  BY SMTT(40), <1>3, <1>4 DEF HeapOK
<1>7. \A q, r \in Addr : \A g \in L[q], h \in L[r] :
          fd2[q][g] = fd2[r][h] /\ fd2[q][g] # NULL => q = r /\ g = h
  BY SMTT(40), <1>3 DEF HeapOK
<1> QED
  BY <1>2, <1>5, <1>6, <1>7 DEF HeapOK

-----------------------------------------------------------------------------
(* The invariant *)

\* The members of each object that somebody still has to free: all of them
\* for a held handle, those the step owes for the object of a call.
Live == [o \in Addr |-> {f \in Fields :
            o \in Held \/ \E t \in Busy : obj[t] = o /\ f \in Owed(pc[t])}]

Roots == Held \cup {obj[t] : t \in Busy}

\* Calls in progress work on objects of their own that no client holds.
CallsApart ==
    /\ \A t \in Busy : obj[t] \in Addr /\ obj[t] \notin Held
    /\ \A t, u \in Busy : obj[t] = obj[u] => t = u

\* Held objects have no pointers in the members their type does not have.
HandleShape ==
    /\ \A h \in contexts : field[h]["name"] = NULL
    /\ \A h \in tables : \A f \in Fields \ {"name"} : field[h][f] = NULL
    /\ \A h \in txns : \A f \in Fields : field[h][f] = NULL

\* What a constructor has not written yet is still as it was first filled.
ShapeOf(t) ==
    /\ pc[t] \in {"init_data", "init_log", "init_shm"} =>
          /\ kind[obj[t]] = "context"
          /\ field[obj[t]]["shared_memory"] = NULL
          /\ field[obj[t]]["name"] = NULL
    /\ pc[t] = "init_data" => field[obj[t]]["data_directory"] = conf[t].data_directory
    /\ pc[t] \in {"init_data", "init_log"} =>
          field[obj[t]]["log_directory"] = conf[t].log_directory
    /\ pc[t] = "create_name" =>
          /\ kind[obj[t]] = "table"
          /\ \A f \in Fields : field[obj[t]][f] = NULL

CallShape == \A t \in Busy : ShapeOf(t)

\* A call that has still to look at its context was given one that is held.
ArgsHeld == \A t \in Threads : pc[t] \in Looks => arg[t] \in contexts

IInv ==
    /\ TypeOK
    /\ NoFault
    /\ HeapOK(kind, field, Live, Roots)
    /\ CallsApart
    /\ HandlesUsable
    /\ HandleShape
    /\ CallShape

\* Live gives each address a set of members.
LEMMA LiveType == Live \in [Addr -> SUBSET Fields]
  BY DEF Live

\* The members each step of a call still owes, step by step.
LEMMA OwedValues ==
    /\ Owed("init_data") = {}
    /\ Owed("init_log") = {"data_directory"}
    /\ Owed("init_shm") = {"data_directory", "log_directory"}
    /\ Owed("undo_log") = {"data_directory", "log_directory"}
    /\ Owed("undo_data") = {"data_directory"}
    /\ Owed("undo_context") = {}
    /\ Owed("clean_shm") = {"data_directory", "log_directory", "shared_memory"}
    /\ Owed("clean_data") = {"data_directory", "log_directory"}
    /\ Owed("clean_log") = {"log_directory"}
    /\ Owed("clean_context") = {}
    /\ Owed("create_name") = {} /\ Owed("undo_table") = {}
    /\ Owed("close_name") = {"name"} /\ Owed("close_table") = {}
    /\ Owed("end_txn") = {}
    /\ \A s \in Steps : Owed(s) \in SUBSET Fields
  BY DEF Owed, Steps, Fields

\* A handle and an object under construction have the live slots one expects.
LEMMA LiveOf ==
    ASSUME IInv
    PROVE  /\ \A h \in Held : h \in Addr /\ Live[h] = Fields
           /\ \A t \in Busy : obj[t] \in Roots /\ Live[obj[t]] = Owed(pc[t])
           /\ \A o \in Roots : o \in Addr /\ kind[o] \in ObjKinds
<1>1. \A h \in Held : h \in Addr /\ Live[h] = Fields
  BY DEF IInv, TypeOK, Held, Live
<1>2. ASSUME NEW t \in Busy
      PROVE  obj[t] \in Roots /\ Live[obj[t]] = Owed(pc[t])
  <2>1. obj[t] \in Addr /\ obj[t] \notin Held /\ \A u \in Busy : obj[u] = obj[t] => u = t
    BY DEF IInv, CallsApart
  <2>2. Owed(pc[t]) \in SUBSET Fields
    BY OwedValues DEF IInv, TypeOK, Busy
  <2> QED
    BY <2>1, <2>2 DEF Live, Roots
<1>3. \A o \in Roots : o \in Addr /\ kind[o] \in ObjKinds
  BY DEF IInv, HeapOK
<1> QED
  BY <1>1, <1>2, <1>3

\* The empty heap before the first call satisfies the invariant.
LEMMA InitInv == Init => IInv
<1> SUFFICES ASSUME Init PROVE IInv
  OBVIOUS
<1>1. TypeOK
  BY DEF Init, TypeOK, Kinds, Fields, Ptr, NoFields, Steps, Codes, Config, NoConfig
<1>2. Held = {} /\ Busy = {} /\ Roots = {} /\ Live = [o \in Addr |-> {}]
  BY DEF Init, Held, Busy, Empty, Roots, Live
<1>3. HeapOK(kind, field, Live, Roots)
  BY <1>2 DEF Init, HeapOK, ObjKinds
<1> QED
  BY <1>1, <1>2, <1>3 DEF Init, IInv, NoFault, CallsApart, HandlesUsable, HandleShape, CallShape, Held

-----------------------------------------------------------------------------
(* The steps of a call *)

\* Handles that a step leaves alone keep their shape; a new one must have it.
SameBlock(h) == kind'[h] = kind[h] /\ field'[h] = field[h] /\ flag'[h] = flag[h]

GoodContext(k, fd, fl, h) == k[h] = "context" /\ fl[h] /\ fd[h]["name"] = NULL

GoodTable(k, fd, fl, h) ==
    /\ k[h] = "table" /\ fl[h] /\ fd[h]["name"] # NULL
    /\ \A f \in Fields \ {"name"} : fd[h][f] = NULL

GoodTxn(k, fd, fl, h) ==
    k[h] = "transaction" /\ fl[h] /\ \A f \in Fields : fd[h][f] = NULL

\* Held handles stay usable when each is untouched or newly finished.
LEMMA HandlesStep ==
    ASSUME IInv,
           \A h \in contexts' : \/ h \in contexts /\ SameBlock(h)
                               \/ GoodContext(kind', field', flag', h),
           \A h \in tables' : \/ h \in tables /\ SameBlock(h)
                             \/ GoodTable(kind', field', flag', h),
           \A h \in txns' : \/ h \in txns /\ SameBlock(h)
                           \/ GoodTxn(kind', field', flag', h)
    PROVE  HandlesUsable' /\ HandleShape'
<1>1. ASSUME NEW h \in contexts'
      PROVE  kind'[h] = "context" /\ flag'[h] /\ field'[h]["name"] = NULL
  BY SMTT(40) DEF GoodContext, SameBlock, IInv, HandlesUsable, HandleShape
<1>2. ASSUME NEW h \in tables'
      PROVE  /\ kind'[h] = "table" /\ flag'[h] /\ field'[h]["name"] # NULL
             /\ \A f \in Fields \ {"name"} : field'[h][f] = NULL
  BY SMTT(40) DEF GoodTable, SameBlock, IInv, HandlesUsable, HandleShape
<1>3. ASSUME NEW h \in txns'
      PROVE  kind'[h] = "transaction" /\ flag'[h] /\ \A f \in Fields : field'[h][f] = NULL
  BY SMTT(40) DEF GoodTxn, SameBlock, IInv, HandlesUsable, HandleShape
<1>4. HandlesUsable'
  BY <1>1, <1>2, <1>3 DEF HandlesUsable
<1>5. HandleShape'
  BY <1>1, <1>2, <1>3 DEF HandleShape
<1> QED
  BY <1>4, <1>5

\* Held handles stay usable when a step only takes handles away and writes
\* none of the blocks that are still held.
LEMMA HandlesKept ==
    ASSUME IInv,
           contexts' \subseteq contexts, tables' \subseteq tables, txns' \subseteq txns,
           \A q \in Held' : kind'[q] = kind[q] /\ field'[q] = field[q] /\ flag'[q] = flag[q]
    PROVE  HandlesUsable' /\ HandleShape'
<1>1. \A q \in Held' : SameBlock(q)
  BY DEF SameBlock
<1> QED
  BY <1>1, HandlesStep DEF Held

\* So do the objects of the calls that a step leaves alone.
SameCall(u) ==
    /\ u \in Busy
    /\ pc'[u] = pc[u] /\ obj'[u] = obj[u] /\ conf'[u] = conf[u]
    /\ kind'[obj[u]] = kind[obj[u]] /\ field'[obj[u]] = field[obj[u]]

\* What a constructor relies on survives steps of other calls.
LEMMA CallsKept ==
    ASSUME IInv, \A u \in Busy' : SameCall(u) \/ ShapeOf(u)'
    PROVE  CallShape'
<1> SUFFICES ASSUME NEW u \in Busy', SameCall(u) PROVE ShapeOf(u)'
  BY DEF CallShape
<1>1. ShapeOf(u)
  BY DEF IInv, CallShape, SameCall
<1> QED
  BY <1>1 DEF ShapeOf, SameCall

\* The steps that take an object apart ask nothing of its members.
LEMMA NoShape ==
    ASSUME NEW u,
           pc[u]' \notin {"init_data", "init_log", "init_shm", "create_name"}
    PROVE  ShapeOf(u)'
  BY DEF ShapeOf

\* free of an owed member on the way to a step that owes the others: the
\* rollback of epiphanydb_init, epiphanydb_cleanup and epiphanydb_close_table.
LEMMA FreeFieldOK ==
    ASSUME IInv, NEW t \in Threads, pc[t] \notin Empty,
           NEW f \in Owed(pc[t]), NEW next \in Steps,
           next \in {"undo_data", "undo_context", "clean_data", "clean_log",
                     "clean_context", "close_table"},
           Owed(next) = Owed(pc[t]) \ {f},
           FreeField(t, f, next)
    PROVE  IInv'
<1> DEFINE o == obj[t]
           p == field[o][f]
<1>1. t \in Busy /\ o \in Addr /\ o \in Roots /\ o \notin Held /\ Live[o] = Owed(pc[t])
  BY LiveOf DEF Busy, IInv, CallsApart
<1>2. /\ kind' = [a \in Addr |-> IF a = p THEN "free" ELSE kind[a]]
      /\ field' = [a \in Addr |-> IF a = p THEN NoFields ELSE field[a]]
      /\ flag' = [a \in Addr |-> IF a = p THEN FALSE ELSE flag[a]]
      /\ context' = [a \in Addr |-> IF a = p THEN NULL ELSE context[a]]
      /\ pc' = [pc EXCEPT ![t] = next]
      /\ fault' = FaultOf(o, p)
      /\ obj' = obj /\ conf' = conf /\ arg' = arg /\ ret' = "none"
      /\ contexts' = contexts /\ tables' = tables /\ txns' = txns
  BY DEF FreeField, Free, Goto, client
<1>3. TypeOK'
  BY <1>2, <1>1 DEF IInv, TypeOK, Kinds, Fields, Ptr, NoFields, FaultOf, Codes
<1>5. Held' = Held /\ Busy' = Busy /\ Roots' = Roots
  BY SMTT(40), <1>2 DEF IInv, TypeOK, Held, Busy, Roots, Empty, Looks
<1>6. Live' \in [Addr -> SUBSET Fields]
      /\ \A q \in Addr : Live'[q] = IF q = o THEN Live[o] \ {f} ELSE Live[q]
  <2>1. \A q \in Addr : q # o => Live'[q] = Live[q]
    BY <1>1, <1>2, <1>5 DEF Live, IInv, TypeOK, Busy
  <2>2. Live'[o] = Owed(pc[t]) \ {f}
    <3>1. \A u \in Busy : obj[u] = o => u = t
      BY <1>1 DEF IInv, CallsApart
    <3>2. Owed(pc[t]) \in SUBSET Fields /\ pc'[t] = next
      BY <1>2, OwedValues DEF IInv, TypeOK
    <3> QED
      BY <1>1, <1>2, <1>5, <3>1, <3>2 DEF Live
  <2> QED
    BY <1>1, <2>1, <2>2 DEF Live
<1>4. HeapOK(kind', field', Live', Roots) /\ MayFree(p) /\ p \notin Roots
  <2>1. HeapTypes(kind, field, Live) /\ HeapOK(kind, field, Live, Roots)
    BY LiveType DEF IInv, TypeOK, HeapTypes
  <2>2. HeapTypes(kind', field', Live')
    BY <1>3, <1>6 DEF TypeOK, HeapTypes
  <2>3. SlotFreed(kind, field, Live, o, f, kind', field', Live')
    BY <1>2, <1>6 DEF SlotFreed
  <2>4. o \in Addr /\ f \in Live[o]
    BY <1>1
  <2> HIDE DEF o
  <2> QED
    BY SMTT(40), <2>1, <2>2, <2>3, <2>4, FreeSlot DEF MayFree
<1>7. NoFault'
  BY <1>1, <1>2, <1>4, LiveOf DEF IInv, NoFault, FaultOf, ObjKinds
<1>8. CallsApart'
  BY <1>2, <1>5 DEF IInv, CallsApart
<1>9. \A q \in Roots : kind'[q] = kind[q] /\ field'[q] = field[q] /\ flag'[q] = flag[q]
  BY <1>2, <1>4, LiveOf
<1>10. HandlesUsable' /\ HandleShape'
  <2>1. /\ contexts' \subseteq contexts /\ tables' \subseteq tables /\ txns' \subseteq txns
        /\ \A q \in Held' : kind'[q] = kind[q] /\ field'[q] = field[q] /\ flag'[q] = flag[q]
    BY <1>2, <1>5, <1>9 DEF Roots
  <2> QED
    BY <2>1, HandlesKept
<1>11. CallShape'
  <2>1. ShapeOf(t)'
    BY <1>2, NoShape DEF IInv, TypeOK
  <2>2. \A u \in Busy : u # t => SameCall(u)
    BY <1>2, <1>9 DEF IInv, TypeOK, SameCall, Roots, Busy
  <2> QED
    BY <1>5, <2>1, <2>2, CallsKept
<1> QED
  BY <1>3, <1>4, <1>5, <1>6, <1>7, <1>8, <1>10, <1>11 DEF IInv

\* free of the object itself, once nothing else is owed: the end of a failed
\* constructor, of cleanup, close_table, commit and rollback.
LEMMA FreeObjOK ==
    ASSUME IInv, NEW t \in Threads, pc[t] \notin Empty, Owed(pc[t]) = {},
           NEW code \in Codes, FreeObj(t, code)
    PROVE  IInv'
<1> DEFINE o == obj[t]
<1>1. t \in Busy /\ o \in Addr /\ o \in Roots /\ o \notin Held /\ Live[o] = {}
  BY LiveOf DEF Busy, IInv, CallsApart
<1>2. /\ kind' = [a \in Addr |-> IF a = o THEN "free" ELSE kind[a]]
      /\ field' = [a \in Addr |-> IF a = o THEN NoFields ELSE field[a]]
      /\ flag' = [a \in Addr |-> IF a = o THEN FALSE ELSE flag[a]]
      /\ context' = [a \in Addr |-> IF a = o THEN NULL ELSE context[a]]
      /\ pc' = [pc EXCEPT ![t] = "idle"]
      /\ obj' = [obj EXCEPT ![t] = NULL]
      /\ conf' = [conf EXCEPT ![t] = NoConfig]
      /\ arg' = [arg EXCEPT ![t] = NULL]
      /\ ret' = code
      /\ fault' = FaultOf(o, o)
      /\ contexts' = contexts /\ tables' = tables /\ txns' = txns
  BY DEF FreeObj, Free, Return, client
<1>3. TypeOK'
  BY <1>2 DEF IInv, TypeOK, Kinds, Fields, Ptr, NoFields, FaultOf, Steps, Config, NoConfig
<1>4. /\ Held' = Held
      /\ Busy' = Busy \ {t}
      /\ \A u \in Busy : u # t => pc'[u] = pc[u] /\ obj'[u] = obj[u] /\ conf'[u] = conf[u]
  BY <1>2 DEF IInv, TypeOK, Held, Busy, Empty
<1>5. \A u \in Busy : u # t => obj[u] # o
  BY <1>1 DEF IInv, CallsApart
<1>6. Roots' = Roots \ {o}
  BY SMTT(40), <1>1, <1>4, <1>5 DEF Roots
<1>7. Live' = Live
  <2>1. \A q \in Addr, f \in Fields : f \in Live'[q] <=> f \in Live[q]
    BY <1>1, <1>4, <1>5 DEF Live
  <2> QED
    BY <2>1 DEF Live
<1>8. HeapOK(kind', field', Live', Roots')
  <2>1. HeapTypes(kind, field, Live) /\ HeapOK(kind, field, Live, Roots)
    BY LiveType DEF IInv, TypeOK, HeapTypes
  <2>2. HeapTypes(kind', field', Live)
    BY <1>3, LiveType DEF TypeOK, HeapTypes
  <2>3. ObjectFreed(kind, field, o, kind', field')
    BY <1>2 DEF ObjectFreed
  <2> HIDE DEF o
  <2> QED
    BY <1>1, <1>6, <1>7, <2>1, <2>2, <2>3, DropObject
<1>9. NoFault'
  BY <1>1, <1>2, LiveOf DEF IInv, NoFault, FaultOf, MayFree, ObjKinds
<1>10. CallsApart'
  BY SMTT(40), <1>4 DEF IInv, CallsApart
<1>11. HandlesUsable' /\ HandleShape'
  <2>1. \A q \in Held' : kind'[q] = kind[q] /\ field'[q] = field[q] /\ flag'[q] = flag[q]
    BY <1>1, <1>2, <1>4, LiveOf
  <2> QED
    BY <1>2, <2>1, HandlesKept
<1>12. CallShape'
  <2>1. ASSUME NEW u \in Busy' PROVE SameCall(u)
    <3>1. u \in Busy /\ u # t
      BY <1>4
    <3>2. obj[u] \in Addr /\ obj[u] # o
      BY <1>5, <3>1 DEF IInv, CallsApart
    <3> HIDE DEF o
    <3>3. kind'[obj[u]] = kind[obj[u]] /\ field'[obj[u]] = field[obj[u]]
      BY <1>2, <3>2
    <3> QED
      BY <1>4, <3>1, <3>3 DEF SameCall
  <2> QED
    BY <2>1, CallsKept
<1> QED
  BY <1>3, <1>8, <1>9, <1>10, <1>11, <1>12 DEF IInv

\* A step of a call that has no object yet and gets none.
LEMMA QuietOK ==
    ASSUME IInv, NEW t \in Threads, pc[t] \in Empty, NEW next \in Steps \cap Empty,
           pc' = [pc EXCEPT ![t] = next],
           obj' \in [Threads -> Addr \cup {NULL}], conf' \in [Threads -> Config],
           arg' \in [Threads -> Addr \cup {NULL}], ret' \in Codes,
           \A u \in Threads : u # t => obj'[u] = obj[u] /\ conf'[u] = conf[u],
           UNCHANGED <<memory, client, fault>>
    PROVE  IInv'
<1>1. /\ kind' = kind /\ field' = field /\ flag' = flag /\ context' = context
      /\ contexts' = contexts /\ tables' = tables /\ txns' = txns /\ fault' = fault
  BY DEF memory, client
<1>2. TypeOK'
  BY <1>1 DEF IInv, TypeOK
<1>3. /\ Held' = Held /\ Busy' = Busy
      /\ \A u \in Busy : u # t /\ pc'[u] = pc[u] /\ obj'[u] = obj[u] /\ conf'[u] = conf[u]
  <2>1. \A u \in Threads : pc'[u] = IF u = t THEN next ELSE pc[u]
    BY DEF IInv, TypeOK
  <2>2. Busy' = Busy
    BY <2>1 DEF Busy
  <2> QED
    BY <1>1, <2>1, <2>2 DEF Held, Busy
<1>4. Live' = Live /\ Roots' = Roots
  <2>1. \A q \in Addr, f \in Fields : f \in Live'[q] <=> f \in Live[q]
    BY <1>1, <1>3 DEF Live
  <2>2. Live' = Live
    BY <2>1 DEF Live
  <2> QED
    BY <1>3, <2>2 DEF Roots
<1>5. HandlesUsable' /\ HandleShape'
  BY <1>1, HandlesKept
<1>6. CallShape'
  <2>1. \A u \in Busy' : SameCall(u)
    BY <1>1, <1>3 DEF SameCall
  <2> QED
    BY <2>1, CallsKept
<1>7. CallsApart'
  BY SMTT(40), <1>3 DEF IInv, CallsApart
<1>8. HeapOK(kind', field', Live', Roots')
  BY <1>1, <1>4 DEF IInv
<1> QED
  BY <1>1, <1>2, <1>5, <1>6, <1>7, <1>8 DEF IInv, NoFault

\* A call that returns without an object: an argument is rejected, or the
\* first malloc fails.
LEMMA ReturnOK ==
    ASSUME IInv, NEW t \in Threads, pc[t] \in Empty, NEW code \in Codes,
           Return(t, code), UNCHANGED <<memory, client, fault>>
    PROVE  IInv'
<1>1. /\ pc' = [pc EXCEPT ![t] = "idle"] /\ ret' \in Codes
      /\ "idle" \in Steps \cap Empty
  BY DEF Return, Steps, Empty
<1>2. /\ obj' \in [Threads -> Addr \cup {NULL}] /\ conf' \in [Threads -> Config]
      /\ arg' \in [Threads -> Addr \cup {NULL}]
      /\ \A u \in Threads : u # t => obj'[u] = obj[u] /\ conf'[u] = conf[u]
  BY DEF Return, IInv, TypeOK, Config, NoConfig
<1> QED
  BY <1>1, <1>2, QuietOK

-----------------------------------------------------------------------------
(* From member to member *)

\* A call that moves on to its next step.
LEMMA LiveAdvance ==
    ASSUME IInv, NEW t \in Threads, pc[t] \notin Empty, NEW next \in Steps \ Empty,
           Goto(t, next), obj' = obj, Held' = Held
    PROVE  /\ t \in Busy /\ obj[t] \in Roots /\ obj[t] \in Addr \ Held
           /\ Live[obj[t]] = Owed(pc[t])
           /\ Busy' = Busy /\ Roots' = Roots
           /\ Live' \in [Addr -> SUBSET Fields]
           /\ \A q \in Addr : Live'[q] = IF q = obj[t] THEN Owed(next) ELSE Live[q]
           /\ \A u \in Busy : u # t => pc'[u] = pc[u] /\ obj[u] # obj[t]
<1>1. t \in Busy /\ obj[t] \in Roots /\ obj[t] \in Addr \ Held /\ Live[obj[t]] = Owed(pc[t])
  BY LiveOf DEF Busy, IInv, CallsApart
<1>2. Busy' = Busy
  BY DEF Busy, Goto, IInv, TypeOK
<1>3. Roots' = Roots
  BY <1>2 DEF Roots
<1>4. \A u \in Busy : u # t => pc'[u] = pc[u] /\ obj[u] # obj[t]
  BY <1>1 DEF IInv, TypeOK, CallsApart, Busy, Goto
<1>5. pc'[t] = next /\ Owed(next) \in SUBSET Fields
  BY OwedValues DEF IInv, TypeOK, Goto
<1>6. Live'[obj[t]] = Owed(next)
  BY <1>1, <1>2, <1>4, <1>5 DEF Live
<1>7. \A q \in Addr : q # obj[t] => Live'[q] = Live[q]
  BY <1>1, <1>2, <1>4 DEF Live
<1>8. Live' \in [Addr -> SUBSET Fields]
  BY DEF Live
<1> QED
  BY <1>1, <1>2, <1>3, <1>4, <1>6, <1>7, <1>8

\* strdup into a member in epiphanydb_init: f becomes owed, or the rollback
\* starts and owes what was owed before.
LEMMA AllocFieldOK ==
    ASSUME IInv, NEW t \in Threads, pc[t] \in {"init_data", "init_log"},
           NEW f \in Fields, NEW next \in Steps, NEW undo \in Steps,
           \/ pc[t] = "init_data" /\ f = "data_directory" /\ next = "init_log" /\ undo = "undo_context"
           \/ pc[t] = "init_log" /\ f = "log_directory" /\ next = "init_shm" /\ undo = "undo_data",
           AllocField(t, f, next, undo)
    PROVE  IInv'
<1> DEFINE o == obj[t]
<1>1. /\ flag' = flag /\ context' = context /\ obj' = obj /\ conf' = conf
      /\ arg' = arg
      /\ contexts' = contexts /\ tables' = tables /\ txns' = txns
      /\ fault' = FaultOf(o, NULL)
      /\ Held' = Held
  BY DEF AllocField, client, Held
<1>2. /\ pc[t] \notin Empty /\ next \in Steps \ Empty /\ undo \in Steps \ Empty
      /\ f \notin Owed(pc[t]) /\ Owed(next) = Owed(pc[t]) \cup {f} /\ Owed(undo) = Owed(pc[t])
  BY OwedValues DEF Empty, Looks
<1>3. t \in Busy /\ o \in Roots /\ o \in Addr /\ o \notin Held /\ Live[o] = Owed(pc[t])
      /\ kind[o] = "context"
  BY <1>2, LiveOf DEF Busy, IInv, CallsApart, CallShape, ShapeOf
<1>4. NoFault'
  BY <1>1, <1>3 DEF IInv, NoFault, FaultOf, MayFree
<1>5. HeapTypes(kind, field, Live) /\ HeapOK(kind, field, Live, Roots)
  BY LiveType DEF IInv, TypeOK, HeapTypes
<1>6. CASE \E a \in FreeAddr :
             /\ kind' = [kind EXCEPT ![a] = "bytes"]
             /\ field' = [field EXCEPT ![o][f] = a]
             /\ Goto(t, next)
  <2>1. PICK a \in FreeAddr :
             /\ kind' = [kind EXCEPT ![a] = "bytes"]
             /\ field' = [field EXCEPT ![o][f] = a]
             /\ Goto(t, next)
    BY <1>6
  <2>2. a \in Addr /\ kind[a] = "free" /\ a \notin Roots
    BY LiveOf DEF FreeAddr, ObjKinds
  <2>3. TypeOK'
    BY <1>1, <1>3, <1>4, <2>1, <2>2
    DEF IInv, TypeOK, Kinds, Ptr, Goto, NoFault, Codes
  <2>4. /\ Busy' = Busy /\ Roots' = Roots
        /\ Live' \in [Addr -> SUBSET Fields]
        /\ \A q \in Addr : Live'[q] = IF q = o THEN Owed(next) ELSE Live[q]
        /\ \A u \in Busy : u # t => pc'[u] = pc[u] /\ obj[u] # o
    BY <1>1, <1>2, <2>1, LiveAdvance
  <2>5. HeapOK(kind', field', Live', Roots')
    <3>1. HeapTypes(kind', field', Live')
      BY <2>3, <2>4 DEF TypeOK, HeapTypes
    <3>2. SlotFilled(kind, field, Live, o, f, a, kind', field', Live')
      BY <1>2, <1>3, <2>1, <2>2, <2>4 DEF SlotFilled, IInv, TypeOK
    <3>3. f \notin Live[o]
      BY <1>2, <1>3
    <3> HIDE DEF o
    <3> QED
      BY <1>3, <1>5, <2>2, <2>4, <3>1, <3>2, <3>3, AllocSlot
  <2>6. \A q \in Roots : q # o => kind'[q] = kind[q] /\ field'[q] = field[q]
    BY <1>3, <2>1, <2>2, LiveOf DEF IInv, TypeOK
  <2>7. HandlesUsable' /\ HandleShape'
    <3>1. \A q \in Held' : kind'[q] = kind[q] /\ field'[q] = field[q] /\ flag'[q] = flag[q]
      BY <1>1, <1>3, <2>6 DEF Roots
    <3> QED
      BY <1>1, <3>1, HandlesKept
  <2>8. ShapeOf(t)'
    <3>1. ShapeOf(t)
      BY <1>3 DEF IInv, CallShape
    <3>2. /\ pc'[t] = next
          /\ kind'[o] = "context"
          /\ \A g \in Fields : g # f => field'[o][g] = field[o][g]
      BY <1>3, <2>1, <2>2 DEF Goto, IInv, TypeOK
    <3> QED
      BY <1>1, <3>1, <3>2 DEF ShapeOf, Fields
  <2>9. CallShape'
    <3>1. \A u \in Busy : u # t => SameCall(u)
      BY <1>1, <2>4, <2>6 DEF SameCall, Roots
    <3> QED
      BY <2>4, <2>8, <3>1, CallsKept
  <2>10. CallsApart'
    BY <1>1, <2>4 DEF IInv, CallsApart
  <2> QED
    BY <1>4, <2>3, <2>5, <2>7, <2>9, <2>10 DEF IInv
<1>7. CASE /\ field' = [field EXCEPT ![o][f] = NULL]
           /\ Goto(t, undo)
           /\ kind' = kind
  <2>3. TypeOK'
    BY <1>1, <1>3, <1>4, <1>7 DEF IInv, TypeOK, Ptr, Goto, NoFault, Codes
  <2>4. /\ Busy' = Busy /\ Roots' = Roots
        /\ Live' \in [Addr -> SUBSET Fields]
        /\ \A q \in Addr : Live'[q] = IF q = o THEN Owed(undo) ELSE Live[q]
        /\ \A u \in Busy : u # t => pc'[u] = pc[u] /\ obj[u] # o
    BY <1>1, <1>2, <1>7, LiveAdvance
  <2>5. Live' = Live
    BY SMTT(40), <1>2, <1>3, <2>4 DEF Live
  <2>6. HeapOK(kind', field', Live', Roots')
    <3>1. HeapTypes(kind, field', Live) /\ f \notin Live[o]
      BY <1>2, <1>3, <1>7, <2>3, LiveType DEF TypeOK, HeapTypes
    <3>2. \A a \in Addr, g \in Fields : a # o \/ g # f => field'[a][g] = field[a][g]
      BY <1>3, <1>7 DEF IInv, TypeOK
    <3> HIDE DEF o
    <3>3. HeapOK(kind, field', Live, Roots)
      BY SMTT(40), <1>3, <1>5, <3>1, <3>2, NullSlot
    <3> QED
      BY <1>7, <2>4, <2>5, <3>3
  <2>7. \A q \in Roots : q # o => field'[q] = field[q]
    BY <1>3, <1>7, LiveOf DEF IInv, TypeOK
  <2>8. HandlesUsable' /\ HandleShape'
    <3>1. \A q \in Held' : kind'[q] = kind[q] /\ field'[q] = field[q] /\ flag'[q] = flag[q]
      BY <1>1, <1>3, <1>7, <2>7 DEF Roots
    <3> QED
      BY <1>1, <3>1, HandlesKept
  <2>9. CallShape'
    <3>1. ShapeOf(t)'
      BY <1>7, NoShape DEF Goto, IInv, TypeOK
    <3>2. \A u \in Busy : u # t => SameCall(u)
      BY <1>1, <1>7, <2>4, <2>7 DEF SameCall, Roots
    <3> QED
      BY <2>4, <3>1, <3>2, CallsKept
  <2>10. CallsApart'
    BY <1>1, <2>4 DEF IInv, CallsApart
  <2> QED
    BY <1>4, <2>3, <2>6, <2>8, <2>9, <2>10 DEF IInv
<1> QED
  BY <1>6, <1>7 DEF AllocField

\* A step that changes no memory: a member the configuration leaves null, or
\* an allocation that fails with nothing to assign.
LEMMA SkipOK ==
    ASSUME IInv, NEW t \in Threads, pc[t] \notin Empty, NEW next \in Steps \ Empty,
           \A f \in (Owed(next) \ Owed(pc[t])) \cup (Owed(pc[t]) \ Owed(next)) :
              field[obj[t]][f] = NULL,
           Goto(t, next), UNCHANGED <<memory, obj, conf, arg, client>>,
           fault' = "none", ShapeOf(t)'
    PROVE  IInv'
<1> DEFINE o == obj[t]
<1>1. /\ kind' = kind /\ field' = field /\ flag' = flag /\ context' = context
      /\ obj' = obj /\ conf' = conf /\ arg' = arg
      /\ contexts' = contexts /\ tables' = tables /\ txns' = txns
      /\ Held' = Held
  BY DEF memory, client, Held
<1>2. TypeOK'
  BY <1>1 DEF IInv, TypeOK, Goto, Codes
<1>3. /\ t \in Busy /\ o \in Roots /\ o \in Addr \ Held
      /\ Live[o] = Owed(pc[t])
      /\ Busy' = Busy /\ Roots' = Roots
      /\ Live' \in [Addr -> SUBSET Fields]
      /\ \A q \in Addr : Live'[q] = IF q = o THEN Owed(next) ELSE Live[q]
      /\ \A u \in Busy : u # t => pc'[u] = pc[u] /\ obj[u] # o
  BY <1>1, LiveAdvance
<1>4. HeapOK(kind', field', Live', Roots')
  <2>1. HeapTypes(kind, field, Live) /\ HeapOK(kind, field, Live, Roots)
        /\ HeapTypes(kind, field, Live')
    BY <1>3, LiveType DEF IInv, TypeOK, HeapTypes
  <2>2. Owed(next) \in SUBSET Fields
    BY OwedValues
  <2>3. \A f \in (Owed(next) \ Live[o]) \cup (Live[o] \ Owed(next)) : field[o][f] = NULL
    BY <1>3
  <2> HIDE DEF o
  <2>4. HeapOK(kind, field, Live', Roots)
    BY SMTT(40), <1>3, <2>1, <2>2, <2>3, Relabel
  <2> QED
    BY <1>1, <1>3, <2>4
<1>5. HandlesUsable' /\ HandleShape'
  BY <1>1, HandlesKept
<1>6. CallShape'
  <2>1. \A u \in Busy : u # t => SameCall(u)
    BY <1>1, <1>3 DEF SameCall
  <2> QED
    BY <1>3, <2>1, CallsKept
<1>7. CallsApart'
  BY SMTT(40), <1>1, <1>3 DEF IInv, CallsApart
<1> QED
  BY <1>2, <1>4, <1>5, <1>6, <1>7 DEF IInv, NoFault

-----------------------------------------------------------------------------
(* Publishing and undoing *)

\* A call hands its finished object to the client.
LEMMA LivePublish ==
    ASSUME IInv, NEW t \in Threads, pc[t] \notin Empty, NEW code, Return(t, code),
           Held' = Held \cup {obj[t]}
    PROVE  /\ t \in Busy /\ obj[t] \in Roots /\ obj[t] \in Addr \ Held
           /\ Live[obj[t]] = Owed(pc[t])
           /\ Busy' = Busy \ {t} /\ Roots' = Roots
           /\ Live' \in [Addr -> SUBSET Fields]
           /\ \A q \in Addr : Live'[q] = IF q = obj[t] THEN Fields ELSE Live[q]
           /\ \A u \in Busy : u # t =>
                /\ pc'[u] = pc[u] /\ obj'[u] = obj[u] /\ conf'[u] = conf[u]
                /\ obj[u] # obj[t]
<1>1. t \in Busy /\ obj[t] \in Roots /\ obj[t] \in Addr \ Held /\ Live[obj[t]] = Owed(pc[t])
  BY LiveOf DEF Busy, IInv, CallsApart
<1>2. Busy' = Busy \ {t}
  BY DEF Busy, Empty, Return, IInv, TypeOK
<1>3. \A u \in Busy : u # t =>
         /\ pc'[u] = pc[u] /\ obj'[u] = obj[u] /\ conf'[u] = conf[u]
         /\ obj[u] # obj[t]
  BY SMTT(40), <1>1 DEF IInv, TypeOK, CallsApart, Busy, Return
<1>4. Roots' = Roots
  BY SMTT(40), <1>1, <1>2, <1>3 DEF Roots
<1>5. Live'[obj[t]] = Fields
  BY <1>1 DEF Live
<1>6. \A q \in Addr : q # obj[t] => Live'[q] = Live[q]
  BY SMTT(40), <1>1, <1>2, <1>3 DEF Live
<1>7. Live' \in [Addr -> SUBSET Fields]
  BY DEF Live
<1> QED
  BY <1>1, <1>2, <1>3, <1>4, <1>5, <1>6, <1>7

\* A call that hands its object to the client leaves the calls apart.
LEMMA ApartPublish ==
    ASSUME IInv, NEW t \in Busy, Busy' = Busy \ {t}, Held' = Held \cup {obj[t]},
           \A u \in Busy : u # t => obj'[u] = obj[u] /\ obj[u] # obj[t]
    PROVE  CallsApart'
  BY SMTT(40) DEF IInv, CallsApart

\* The last step of epiphanydb_init: with or without a buffer, the context is
\* complete and goes to the client.
LEMMA InitShmOK ==
    ASSUME IInv, NEW t \in Threads, InitShm(t)
    PROVE  IInv'
<1> DEFINE o == obj[t]
<1>1. pc[t] = "init_shm" /\ pc[t] \notin Empty /\ fault' = FaultOf(o, NULL)
  BY DEF InitShm, Empty, Looks
<1>2. /\ t \in Busy /\ o \in Roots /\ o \in Addr /\ o \notin Held
      /\ Live[o] = {"data_directory", "log_directory"}
      /\ kind[o] = "context"
      /\ field[o]["shared_memory"] = NULL /\ field[o]["name"] = NULL
  <2>1. t \in Busy
    BY <1>1 DEF Busy
  <2>2. ShapeOf(t) /\ o \in Addr /\ o \notin Held
    BY <2>1 DEF IInv, CallsApart, CallShape
  <2>3. o \in Roots /\ Live[o] = Owed(pc[t])
    BY <2>1, LiveOf
  <2>4. Owed("init_shm") = {"data_directory", "log_directory"}
    BY OwedValues
  <2> QED
    BY <1>1, <2>1, <2>2, <2>3, <2>4 DEF ShapeOf
<1>3. fault' = "none"
  BY <1>1, <1>2 DEF IInv, NoFault, FaultOf, MayFree
<1>4. HeapTypes(kind, field, Live) /\ HeapOK(kind, field, Live, Roots)
  BY LiveType DEF IInv, TypeOK, HeapTypes
<1>5. ASSUME InitPublish(t),
             kind'[o] = "context", field'[o]["name"] = NULL,
             kind' \in [Addr -> Kinds], field' \in [Addr -> [Fields -> Ptr]],
             HeapOK(kind', field', [Live EXCEPT ![o] = Fields], Roots),
             \A q \in Roots : q # o => kind'[q] = kind[q] /\ field'[q] = field[q]
      PROVE  IInv'
  <2>1. /\ flag' = [flag EXCEPT ![o] = TRUE] /\ context' = context
        /\ contexts' = contexts \cup {o} /\ tables' = tables /\ txns' = txns
        /\ Return(t, "SUCCESS")
        /\ Held' = Held \cup {o}
    BY <1>5 DEF InitPublish, Held
  <2>2. TypeOK'
    BY <1>2, <1>3, <1>5, <2>1 DEF IInv, TypeOK, Return, Steps, Codes, Config, NoConfig
  <2>3. /\ Busy' = Busy \ {t} /\ Roots' = Roots
        /\ Live' \in [Addr -> SUBSET Fields]
        /\ \A q \in Addr : Live'[q] = IF q = o THEN Fields ELSE Live[q]
        /\ \A u \in Busy : u # t =>
             /\ pc'[u] = pc[u] /\ obj'[u] = obj[u] /\ conf'[u] = conf[u]
             /\ obj[u] # o
    BY <1>1, <2>1, LivePublish
  <2>4. Live' = [Live EXCEPT ![o] = Fields]
    BY SMTT(40), <2>3, LiveType
  <2>5. \A h \in Held : SameBlock(h)
    BY <1>2, <1>5, <2>1, LiveOf DEF Roots, IInv, TypeOK, SameBlock
  <2>6. GoodContext(kind', field', flag', o)
    BY <1>2, <1>5, <2>1 DEF IInv, TypeOK, GoodContext
  <2>7. \A h \in contexts' : (h \in contexts /\ SameBlock(h)) \/ GoodContext(kind', field', flag', h)
    BY <2>1, <2>5, <2>6 DEF Held
  <2>8. HandlesUsable' /\ HandleShape'
    BY <2>1, <2>5, <2>7, HandlesStep DEF Held
  <2>9. CallShape'
    <3>1. \A u \in Busy' : SameCall(u)
      BY <1>5, <2>3 DEF SameCall, Roots
    <3> QED
      BY <3>1, CallsKept
  <2>10. CallsApart'
    BY <1>2, <2>1, <2>3, ApartPublish
  <2> QED
    BY <1>3, <1>5, <2>2, <2>3, <2>4, <2>8, <2>9, <2>10 DEF IInv, NoFault
<1>6. CASE /\ conf[t].shared_memory_size > 0
           /\ \E a \in FreeAddr :
                /\ kind' = [kind EXCEPT ![a] = "bytes"]
                /\ field' = [field EXCEPT ![o]["shared_memory"] = a]
           /\ InitPublish(t)
  <2>1. PICK a \in FreeAddr :
                /\ kind' = [kind EXCEPT ![a] = "bytes"]
                /\ field' = [field EXCEPT ![o]["shared_memory"] = a]
    BY <1>6
  <2>2. a \in Addr /\ kind[a] = "free" /\ a \notin Roots
    BY LiveOf DEF FreeAddr, ObjKinds
  <2>3. kind' \in [Addr -> Kinds] /\ field' \in [Addr -> [Fields -> Ptr]]
    BY <1>2, <2>1, <2>2 DEF IInv, TypeOK, Kinds, Ptr
  <2>4. \A q \in Roots : q # o => kind'[q] = kind[q] /\ field'[q] = field[q]
    BY <1>2, <2>1, <2>2, LiveOf DEF IInv, TypeOK
  <2>5. kind'[o] = "context" /\ field'[o]["name"] = NULL
    BY SMTT(40), <1>2, <2>1, <2>2 DEF IInv, TypeOK, Fields
  <2> DEFINE L1 == [Live EXCEPT ![o] = Live[o] \cup {"shared_memory"}]
             L2 == [Live EXCEPT ![o] = Fields]
  <2>6. /\ HeapTypes(kind', field', L1) /\ HeapTypes(kind', field', L2)
        /\ SlotFilled(kind, field, Live, o, "shared_memory", a, kind', field', L1)
        /\ "shared_memory" \in Fields /\ "shared_memory" \notin Live[o]
        /\ \A q \in Addr : L2[q] = IF q = o THEN Fields ELSE L1[q]
        /\ \A f \in (Fields \ L1[o]) \cup (L1[o] \ Fields) : field'[o][f] = NULL
    <3>1. HeapTypes(kind', field', L1) /\ HeapTypes(kind', field', L2)
      BY <1>2, <2>3, LiveType DEF HeapTypes, Fields
    <3>2. SlotFilled(kind, field, Live, o, "shared_memory", a, kind', field', L1)
      BY <1>2, <2>1, <2>2, LiveType DEF SlotFilled, IInv, TypeOK, Fields
    <3>3. "shared_memory" \in Fields /\ "shared_memory" \notin Live[o]
      BY <1>2 DEF Fields
    <3>4. \A q \in Addr : L2[q] = IF q = o THEN Fields ELSE L1[q]
      BY <1>2, LiveType
    <3>5. L1[o] = {"data_directory", "log_directory", "shared_memory"}
      BY <1>2, LiveType
    <3>6. \A f \in (Fields \ L1[o]) \cup (L1[o] \ Fields) : field'[o][f] = NULL
      BY <2>5, <3>5 DEF Fields
    <3> QED
      BY <3>1, <3>2, <3>3, <3>4, <3>6
  <2>7. HeapOK(kind', field', L2, Roots)
    <3> HIDE DEF o, L1, L2
    <3>1. HeapOK(kind', field', L1, Roots)
      BY <1>2, <1>4, <2>2, <2>6, AllocSlot
    <3> QED
      BY <1>2, <2>6, <3>1, Relabel
  <2> QED
    BY <1>5, <1>6, <2>3, <2>4, <2>5, <2>7
<1>7. CASE /\ Goto(t, "undo_log")
           /\ UNCHANGED <<memory, obj, conf, arg, client>>
  <2>1. ShapeOf(t)'
    BY <1>7, NoShape DEF Goto, IInv, TypeOK
  <2>2. "undo_log" \in Steps \ Empty /\ Owed("undo_log") = Owed(pc[t])
    BY <1>1, OwedValues DEF Steps, Empty, Looks
  <2> QED
    BY <1>1, <1>3, <1>7, <2>1, <2>2, SkipOK
<1>8. CASE InitPublish(t) /\ kind' = kind /\ field' = field
  <2> DEFINE L2 == [Live EXCEPT ![o] = Fields]
  <2>1. /\ HeapTypes(kind, field, L2)
        /\ \A q \in Addr : L2[q] = IF q = o THEN Fields ELSE Live[q]
        /\ \A f \in (Fields \ Live[o]) \cup (Live[o] \ Fields) : field[o][f] = NULL
    BY <1>2, <1>4, LiveType DEF HeapTypes, Fields
  <2>2. HeapOK(kind, field, L2, Roots)
    <3> HIDE DEF o, L2
    <3> QED
      BY SMTT(40), <1>2, <1>4, <2>1, Relabel
  <2>3. kind' \in [Addr -> Kinds] /\ field' \in [Addr -> [Fields -> Ptr]]
    BY <1>8 DEF IInv, TypeOK
  <2> QED
    BY <1>2, <1>5, <1>8, <2>2, <2>3
<1> QED
  BY <1>6, <1>7, <1>8 DEF InitShm

\* strdup of the table name: the table goes to the client, or it is freed.
LEMMA CreateNameOK ==
    ASSUME IInv, NEW t \in Threads, CreateName(t)
    PROVE  IInv'
<1> DEFINE o == obj[t]
<1>1. pc[t] = "create_name" /\ pc[t] \notin Empty /\ fault' = FaultOf(o, NULL)
      /\ contexts' = contexts /\ txns' = txns
  BY DEF CreateName, Empty, Looks
<1>2. /\ t \in Busy /\ o \in Roots /\ o \in Addr /\ o \notin Held
      /\ Live[o] = {} /\ kind[o] = "table" /\ \A f \in Fields : field[o][f] = NULL
  <2>1. t \in Busy
    BY <1>1 DEF Busy
  <2>2. ShapeOf(t) /\ o \in Addr /\ o \notin Held
    BY <2>1 DEF IInv, CallsApart, CallShape
  <2>3. o \in Roots /\ Live[o] = Owed(pc[t])
    BY <2>1, LiveOf
  <2>4. Owed("create_name") = {}
    BY OwedValues
  <2> QED
    BY <1>1, <2>1, <2>2, <2>3, <2>4 DEF ShapeOf
<1>3. fault' = "none"
  BY <1>1, <1>2 DEF IInv, NoFault, FaultOf, MayFree
<1>4. HeapTypes(kind, field, Live) /\ HeapOK(kind, field, Live, Roots)
  BY LiveType DEF IInv, TypeOK, HeapTypes
<1>5. ASSUME NEW a \in FreeAddr,
             kind' = [kind EXCEPT ![a] = "bytes"],
             field' = [field EXCEPT ![o]["name"] = a],
             context' = [context EXCEPT ![o] = arg[t]],
             flag' = [flag EXCEPT ![o] = TRUE],
             tables' = tables \cup {o},
             Return(t, "SUCCESS")
      PROVE  IInv'
  <2>1. Held' = Held \cup {o}
    BY <1>1, <1>5 DEF Held
  <2>2. a \in Addr /\ kind[a] = "free" /\ a \notin Roots
    BY LiveOf DEF FreeAddr, ObjKinds
  <2>3. TypeOK'
    BY <1>1, <1>2, <1>3, <1>5, <2>2
    DEF IInv, TypeOK, Kinds, Ptr, Return, Steps, Codes, Config, NoConfig
  <2>4. /\ Busy' = Busy \ {t} /\ Roots' = Roots
        /\ Live' \in [Addr -> SUBSET Fields]
        /\ \A q \in Addr : Live'[q] = IF q = o THEN Fields ELSE Live[q]
        /\ \A u \in Busy : u # t =>
             /\ pc'[u] = pc[u] /\ obj'[u] = obj[u] /\ conf'[u] = conf[u]
             /\ obj[u] # o
    BY <1>1, <1>5, <2>1, LivePublish
  <2>5. \A q \in Roots : q # o => SameBlock(q)
    BY <1>2, <1>5, <2>2, LiveOf DEF IInv, TypeOK, SameBlock
  <2>6. /\ kind'[o] = "table" /\ flag'[o] /\ field'[o]["name"] = a
        /\ \A f \in Fields \ {"name"} : field'[o][f] = NULL
    BY SMTT(40), <1>2, <1>5, <2>2 DEF IInv, TypeOK, Fields
  <2> DEFINE L1 == [Live EXCEPT ![o] = Live[o] \cup {"name"}]
  <2>7. /\ HeapTypes(kind', field', L1) /\ HeapTypes(kind', field', Live')
        /\ SlotFilled(kind, field, Live, o, "name", a, kind', field', L1)
        /\ "name" \in Fields /\ "name" \notin Live[o]
        /\ \A q \in Addr : Live'[q] = IF q = o THEN Fields ELSE L1[q]
        /\ \A f \in (Fields \ L1[o]) \cup (L1[o] \ Fields) : field'[o][f] = NULL
    <3>1. HeapTypes(kind', field', L1) /\ HeapTypes(kind', field', Live')
      BY <1>2, <2>3, <2>4, LiveType DEF HeapTypes, Fields, TypeOK
    <3>2. SlotFilled(kind, field, Live, o, "name", a, kind', field', L1)
      BY <1>2, <1>5, <2>2, LiveType DEF SlotFilled, IInv, TypeOK, Fields
    <3>3. "name" \in Fields /\ "name" \notin Live[o]
      BY <1>2 DEF Fields
    <3>4. \A q \in Addr : Live'[q] = IF q = o THEN Fields ELSE L1[q]
      BY <1>2, <2>4, LiveType
    <3>5. L1[o] = {"name"}
      BY <1>2, LiveType
    <3>6. \A f \in (Fields \ L1[o]) \cup (L1[o] \ Fields) : field'[o][f] = NULL
      BY <2>6, <3>5, <3>3
    <3> QED
      BY <3>1, <3>2, <3>3, <3>4, <3>6
  <2>8. HeapOK(kind', field', Live', Roots')
    <3> HIDE DEF o, L1
    <3>1. HeapOK(kind', field', L1, Roots)
      BY <1>2, <1>4, <2>2, <2>7, AllocSlot
    <3>2. HeapOK(kind', field', Live', Roots)
      BY <1>2, <2>7, <3>1, Relabel
    <3> QED
      BY <2>4, <3>2
  <2>9. HandlesUsable' /\ HandleShape'
    <3>1. GoodTable(kind', field', flag', o)
      BY <2>2, <2>6, PointerAssumption DEF GoodTable
    <3>2. \A h \in Held : SameBlock(h)
      BY <1>2, <2>5 DEF Roots
    <3>3. \A h \in tables' : (h \in tables /\ SameBlock(h)) \/ GoodTable(kind', field', flag', h)
      BY <1>5, <3>1, <3>2 DEF Held
    <3> QED
      BY <1>1, <3>2, <3>3, HandlesStep DEF Held
  <2>10. CallShape'
    <3>1. ASSUME NEW u \in Busy' PROVE SameCall(u)
      <4>1. u \in Busy /\ u # t /\ obj[u] \in Roots
        BY <2>4 DEF Roots
      <4> QED
        BY <2>4, <2>5, <4>1 DEF SameCall, SameBlock
    <3> QED
      BY <3>1, CallsKept
  <2>11. CallsApart'
    BY <1>2, <2>1, <2>4, ApartPublish
  <2> QED
    BY <1>3, <2>3, <2>8, <2>9, <2>10, <2>11 DEF IInv, NoFault
<1>6. CASE /\ Goto(t, "undo_table")
           /\ UNCHANGED <<memory, obj, conf, arg, tables>>
  <2>1. ShapeOf(t)'
    BY <1>6, NoShape DEF Goto, IInv, TypeOK
  <2>2. "undo_table" \in Steps \ Empty /\ Owed("undo_table") = Owed(pc[t])
    BY <1>1, OwedValues DEF Steps, Empty, Looks
  <2>3. UNCHANGED <<memory, obj, conf, arg, client>>
    BY <1>1, <1>6 DEF client
  <2> QED
    BY <1>1, <1>3, <1>6, <2>1, <2>2, <2>3, SkipOK
<1> QED
  BY <1>5, <1>6 DEF CreateName
-----------------------------------------------------------------------------
(* The first steps of the calls *)

\* malloc of a context or table: the call goes on with an object of its own.
LEMMA StartOK ==
    ASSUME IInv, NEW t \in Threads, pc[t] \in Empty,
           NEW a \in FreeAddr, NEW K \in ObjKinds, NEW F \in [Fields -> Ptr],
           NEW next \in {"init_data", "create_name"},
           NewBlock(a, K, F), obj' = [obj EXCEPT ![t] = a], Goto(t, next),
           conf' \in [Threads -> Config], arg' \in [Threads -> Addr \cup {NULL}],
           \A u \in Threads : u # t => conf'[u] = conf[u],
           UNCHANGED client, fault' = "none", ShapeOf(t)'
    PROVE  IInv'
<1>1. /\ kind' = [kind EXCEPT ![a] = K] /\ field' = [field EXCEPT ![a] = F]
      /\ flag' = flag /\ context' = context
      /\ contexts' = contexts /\ tables' = tables /\ txns' = txns
      /\ Held' = Held
  BY DEF NewBlock, client, Held
<1>2. a \in Addr /\ kind[a] = "free" /\ a \notin Roots
  BY LiveOf DEF FreeAddr, ObjKinds
<1>3. TypeOK'
  BY <1>1, <1>2 DEF IInv, TypeOK, Kinds, ObjKinds, Goto, Steps, Codes
<1>4. /\ Busy' = Busy \cup {t} /\ t \notin Busy
      /\ \A u \in Busy : pc'[u] = pc[u] /\ obj'[u] = obj[u] /\ conf'[u] = conf[u] /\ obj[u] # a
      /\ pc'[t] = next /\ obj'[t] = a
  BY SMTT(40), <1>2 DEF IInv, TypeOK, Busy, Goto, Roots, Empty, Looks
<1>5. Roots' = Roots \cup {a}
  BY SMTT(40), <1>1, <1>4 DEF Roots
<1>6. \A q \in Addr : Live'[q] = IF q = a THEN {} ELSE Live[q]
  <2>1. Owed(next) = {}
    BY OwedValues
  <2>2. Live'[a] = {}
    BY SMTT(40), <1>1, <1>2, <1>4, <2>1 DEF Live, Roots
  <2>3. \A q \in Addr : q # a => Live'[q] = Live[q]
    BY SMTT(40), <1>1, <1>4 DEF Live
  <2> QED
    BY <2>2, <2>3
<1>7. HeapOK(kind', field', Live', Roots')
  <2>1. HeapTypes(kind, field, Live) /\ HeapOK(kind, field, Live, Roots)
    BY LiveType DEF IInv, TypeOK, HeapTypes
  <2>2. HeapTypes(kind', field', Live')
    BY <1>3 DEF TypeOK, HeapTypes, Live
  <2>3. ObjectMade(kind, field, Live, a, K, F, {}, kind', field', Live')
    BY <1>1, <1>2, <1>6 DEF ObjectMade, IInv, TypeOK
  <2>4. HeapOK(kind', field', Live', Roots \cup {a})
    BY <1>2, <2>1, <2>2, <2>3, NewObject
  <2> QED
    BY <1>5, <2>4
<1>8. \A q \in Roots : SameBlock(q)
  BY <1>1, <1>2, LiveOf DEF SameBlock, IInv, TypeOK
<1>9. HandlesUsable' /\ HandleShape'
  BY <1>1, <1>8, HandlesStep DEF Held, Roots
<1>10. CallShape'
  <2>1. \A u \in Busy : SameCall(u)
    BY <1>4, <1>8 DEF SameCall, SameBlock, Roots
  <2> QED
    BY <1>4, <2>1, CallsKept
<1>11. CallsApart'
  BY SMTT(40), <1>1, <1>2, <1>4 DEF IInv, CallsApart, Roots
<1> QED
  BY <1>3, <1>7, <1>9, <1>10, <1>11 DEF IInv, NoFault

\* A releasing call takes a handle over from the client: what the step it
\* starts with does not owe is null in a handle of that type.
LEMMA TakeOK ==
    ASSUME IInv, NEW t \in Threads, pc[t] \in Empty, NEW h \in Held,
           NEW next \in {"clean_shm", "close_name", "end_txn"},
           \A f \in Fields \ Owed(next) : field[h][f] = NULL,
           kind' = kind, field' = field, context' = context,
           flag' \in [Addr -> BOOLEAN], \A q \in Addr : q # h => flag'[q] = flag[q],
           obj' = [obj EXCEPT ![t] = h], Goto(t, next),
           conf' = conf, arg' = arg, fault' = "none",
           contexts' = contexts \ {h}, tables' = tables \ {h}, txns' = txns \ {h}
    PROVE  IInv'
<1>1. Held' = Held \ {h} /\ h \in Addr /\ Live[h] = Fields /\ h \in Roots
  BY LiveOf DEF Held, Roots
<1>2. TypeOK'
  BY <1>1 DEF IInv, TypeOK, Goto, Steps, Codes
<1>3. /\ Busy' = Busy \cup {t} /\ t \notin Busy
      /\ \A u \in Busy : pc'[u] = pc[u] /\ obj'[u] = obj[u] /\ obj[u] # h
      /\ pc'[t] = next /\ obj'[t] = h
  BY SMTT(40), <1>1 DEF IInv, TypeOK, Busy, Goto, CallsApart, Empty, Looks
<1>4. Roots' = Roots
  BY SMTT(40), <1>1, <1>3 DEF Roots
<1>5. \A q \in Addr : Live'[q] = IF q = h THEN Owed(next) ELSE Live[q]
  <2>1. Owed(next) \in SUBSET Fields
    BY OwedValues DEF Steps, Empty, Looks
  <2>2. Live'[h] = Owed(next)
    BY SMTT(40), <1>1, <1>3, <2>1 DEF Live
  <2>3. \A q \in Addr : q # h => Live'[q] = Live[q]
    BY SMTT(40), <1>1, <1>3 DEF Live
  <2> QED
    BY <2>2, <2>3
<1>6. HeapOK(kind', field', Live', Roots')
  <2>1. HeapTypes(kind, field, Live) /\ HeapOK(kind, field, Live, Roots)
    BY LiveType DEF IInv, TypeOK, HeapTypes
  <2>2. HeapTypes(kind, field, Live')
    BY <1>2 DEF TypeOK, HeapTypes, Live
  <2>3. /\ Owed(next) \in SUBSET Fields
        /\ \A f \in (Owed(next) \ Live[h]) \cup (Live[h] \ Owed(next)) : field[h][f] = NULL
    BY <1>1, OwedValues DEF Steps, Empty, Looks
  <2>4. HeapOK(kind, field, Live', Roots)
    BY <1>1, <1>5, <2>1, <2>2, <2>3, Relabel
  <2> QED
    BY <1>4, <2>4
<1>7. \A q \in Held' : SameBlock(q)
  BY <1>1, LiveOf DEF SameBlock
<1>8. HandlesUsable' /\ HandleShape'
  BY <1>7, HandlesStep DEF Held
<1>9. CallShape'
  <2>1. ShapeOf(t)'
    BY <1>3, NoShape
  <2>2. \A u \in Busy : SameCall(u)
    BY <1>3 DEF SameCall
  <2> QED
    BY <1>3, <2>1, <2>2, CallsKept
<1>10. CallsApart'
  BY SMTT(40), <1>1, <1>3 DEF IInv, CallsApart
<1> QED
  BY <1>2, <1>6, <1>8, <1>9, <1>10 DEF IInv, NoFault

\* The three kinds of handle are told apart by what lives at the address.
LEMMA KindsApart ==
    ASSUME IInv
    PROVE  /\ contexts \cap tables = {}
           /\ contexts \cap txns = {}
           /\ tables \cap txns = {}
  BY DEF IInv, HandlesUsable

\* epiphanydb_begin_transaction that succeeds.
LEMMA BeginOK ==
    ASSUME IInv, NEW t \in Threads, pc[t] \in Empty,
           NEW a \in FreeAddr, NEW ctx \in Addr \cup {NULL},
           kind' = [kind EXCEPT ![a] = "transaction"],
           field' = [field EXCEPT ![a] = NoFields],
           context' = [context EXCEPT ![a] = ctx],
           flag' = [flag EXCEPT ![a] = TRUE],
           txns' = txns \cup {a}, contexts' = contexts, tables' = tables,
           Return(t, "SUCCESS"), fault' = "none"
    PROVE  IInv'
<1>1. a \in Addr /\ kind[a] = "free" /\ a \notin Roots /\ Held' = Held \cup {a}
  BY LiveOf DEF FreeAddr, ObjKinds, Held
<1>2. NoFields \in [Fields -> Ptr] /\ \A f \in Fields : NoFields[f] = NULL
  BY DEF NoFields, Ptr
<1>3. TypeOK'
  BY <1>1, <1>2 DEF IInv, TypeOK, Kinds, Return, Steps, Codes, Config, NoConfig
<1>4. /\ Busy' = Busy
      /\ \A u \in Busy : pc'[u] = pc[u] /\ obj'[u] = obj[u] /\ conf'[u] = conf[u] /\ obj[u] # a
  BY <1>1 DEF IInv, TypeOK, Busy, Empty, Return, Roots
<1>5. Roots' = Roots \cup {a}
  BY SMTT(40), <1>1, <1>4 DEF Roots
<1>6. \A q \in Addr : Live'[q] = IF q = a THEN Fields ELSE Live[q]
  <2>1. Live'[a] = Fields
    BY <1>1 DEF Live
  <2>2. \A q \in Addr : q # a => Live'[q] = Live[q]
    BY SMTT(40), <1>1, <1>4 DEF Live
  <2> QED
    BY <2>1, <2>2
<1>7. HeapOK(kind', field', Live', Roots')
  <2>1. HeapTypes(kind, field, Live) /\ HeapOK(kind, field, Live, Roots)
    BY LiveType DEF IInv, TypeOK, HeapTypes
  <2>2. HeapTypes(kind', field', Live')
    BY <1>3 DEF TypeOK, HeapTypes, Live
  <2>3. ObjectMade(kind, field, Live, a, "transaction", NoFields, Fields, kind', field', Live')
    BY <1>1, <1>6 DEF ObjectMade, IInv, TypeOK
  <2>4. "transaction" \in ObjKinds
    BY DEF ObjKinds
  <2>5. HeapOK(kind', field', Live', Roots \cup {a})
    BY <1>1, <1>2, <2>1, <2>2, <2>3, <2>4, NewObject
  <2> QED
    BY <1>5, <2>5
<1>8. \A q \in Roots : SameBlock(q)
  BY <1>1, LiveOf DEF SameBlock, IInv, TypeOK
<1>9. HandlesUsable' /\ HandleShape'
  <2>1. GoodTxn(kind', field', flag', a)
    BY <1>1, <1>2 DEF GoodTxn, IInv, TypeOK
  <2> QED
    BY <1>8, <2>1, HandlesStep DEF Held, Roots
<1>10. CallShape'
  <2>1. \A u \in Busy' : SameCall(u)
    BY <1>4, <1>8 DEF SameCall, SameBlock, Roots
  <2> QED
    BY <2>1, CallsKept
<1>11. CallsApart'
  BY SMTT(40), <1>1, <1>4 DEF IInv, CallsApart
<1> QED
  BY <1>3, <1>7, <1>9, <1>10, <1>11 DEF IInv, NoFault


\* The null checks of an entry point keep the invariant.
LEMMA EnterOK ==
    ASSUME IInv, NEW t \in Threads, NEW ctx \in contexts \cup {NULL}, NEW ok \in BOOLEAN,
           NEW next \in Looks, Enter(t, ctx, ok, next)
    PROVE  IInv'
<1>1. pc[t] = "idle" /\ pc[t] \in Empty /\ UNCHANGED <<memory, client, fault>>
  BY DEF Enter, Empty
<1>2. CASE Return(t, "INVALID_PARAM")
  BY <1>1, <1>2, ReturnOK DEF Codes
<1>3. CASE /\ arg' = [arg EXCEPT ![t] = ctx]
           /\ Goto(t, next)
           /\ UNCHANGED <<obj, conf>>
  <2>1. /\ pc' = [pc EXCEPT ![t] = next] /\ ret' \in Codes
        /\ next \in Steps \cap Empty
    BY <1>3 DEF Goto, Codes, Looks, Empty, Steps
  <2>2. /\ obj' \in [Threads -> Addr \cup {NULL}] /\ conf' \in [Threads -> Config]
        /\ arg' \in [Threads -> Addr \cup {NULL}]
        /\ \A u \in Threads : u # t => obj'[u] = obj[u] /\ conf'[u] = conf[u]
    BY <1>3 DEF IInv, TypeOK
  <2> QED
    BY <1>1, <2>1, <2>2, QuietOK
<1> QED
  BY <1>2, <1>3 DEF Enter

\* A call that looks at its context looks at a live one.
LEMMA LookIsSafe ==
    ASSUME IInv, ArgsHeld, NEW t \in Threads, pc[t] \in Looks
    PROVE  FaultOf(arg[t], NULL) = fault
<1>1. arg[t] \in contexts
  BY DEF ArgsHeld
<1>2. kind[arg[t]] = "context"
  BY <1>1 DEF IInv, HandlesUsable
<1> QED
  BY <1>2 DEF FaultOf, MayFree, IInv, NoFault

\* What the checks of a context come out as.
LEMMA CodesOK ==
    ASSUME NEW ctx
    PROVE  ContextCode(ctx) \in Codes /\ \A type : CreateCode(ctx, type) \in Codes
  BY DEF ContextCode, CreateCode, Codes

\* The reads of ctx->initialized keep the invariant.
LEMMA LookOK ==
    ASSUME IInv, ArgsHeld, NEW t \in Threads, pc[t] \in Looks,
           NEW code \in Codes, NEW next \in {"create_alloc", "open_create", "begin_alloc"},
           Look(t, code, next)
    PROVE  IInv'
<1>1. pc[t] \in Empty /\ UNCHANGED <<memory, client, fault>>
  BY LookIsSafe DEF Look, Empty
<1>2. CASE Return(t, code)
  BY <1>1, <1>2, ReturnOK
<1>3. CASE Goto(t, next) /\ UNCHANGED <<obj, conf, arg>>
  <2>1. /\ pc' = [pc EXCEPT ![t] = next] /\ ret' \in Codes
        /\ next \in Steps \cap Empty
    BY <1>3 DEF Goto, Codes, Looks, Empty, Steps
  <2>2. /\ obj' \in [Threads -> Addr \cup {NULL}] /\ conf' \in [Threads -> Config]
        /\ arg' \in [Threads -> Addr \cup {NULL}]
        /\ \A u \in Threads : u # t => obj'[u] = obj[u] /\ conf'[u] = conf[u]
    BY <1>3 DEF IInv, TypeOK
  <2> QED
    BY <1>1, <2>1, <2>2, QuietOK
<1> QED
  BY <1>2, <1>3 DEF Look

\* The first step of epiphanydb_init keeps the invariant.
LEMMA InitContextOK ==
    ASSUME IInv, NEW t \in Threads, NEW c \in Config, InitContext(t, c)
    PROVE  IInv'
<1>1. pc[t] = "idle" /\ contexts' = contexts /\ tables' = tables /\ txns' = txns /\ fault' = fault
  BY DEF InitContext, client
<1>2. CASE Return(t, "OUT_OF_MEMORY") /\ UNCHANGED memory
  BY <1>1, <1>2, ReturnOK DEF Codes, client, Empty
<1>3. ASSUME NEW a \in FreeAddr,
             NewBlock(a, "context", InitFields(c)),
             obj' = [obj EXCEPT ![t] = a],
             conf' = [conf EXCEPT ![t] = c],
             Goto(t, "init_data"),
             arg' = arg
      PROVE  IInv'
  <2>1. /\ InitFields(c) \in [Fields -> Ptr]
        /\ InitFields(c)["data_directory"] = c.data_directory
        /\ InitFields(c)["log_directory"] = c.log_directory
        /\ InitFields(c)["shared_memory"] = NULL /\ InitFields(c)["name"] = NULL
    BY DEF InitFields, NoFields, Fields, Ptr, Config
  <2>2. a \in Addr
    BY DEF FreeAddr
  <2>3. /\ pc'[t] = "init_data" /\ obj'[t] = a /\ conf'[t] = c
        /\ kind'[a] = "context" /\ field'[a] = InitFields(c)
    BY <1>3, <2>2 DEF NewBlock, Goto, IInv, TypeOK
  <2>4. ShapeOf(t)'
    BY <2>1, <2>3 DEF ShapeOf
  <2>5. /\ conf' \in [Threads -> Config] /\ arg' \in [Threads -> Addr \cup {NULL}]
        /\ \A u \in Threads : u # t => conf'[u] = conf[u]
        /\ fault' = "none" /\ "context" \in ObjKinds
    BY <1>1, <1>3 DEF IInv, TypeOK, NoFault, ObjKinds
  <2> QED
    BY <1>1, <1>3, <2>1, <2>4, <2>5, StartOK DEF client, Empty
<1> QED
  BY <1>2, <1>3 DEF InitContext

\* malloc of the table in epiphanydb_create_table keeps the invariant.
LEMMA CreateAllocOK ==
    ASSUME IInv, NEW t \in Threads, CreateAlloc(t)
    PROVE  IInv'
<1>1. /\ pc[t] \in Empty /\ contexts' = contexts /\ tables' = tables /\ txns' = txns
      /\ fault' = fault /\ fault' = "none"
  BY DEF CreateAlloc, client, IInv, NoFault, Empty
<1>2. CASE Return(t, "OUT_OF_MEMORY") /\ UNCHANGED memory
  BY <1>1, <1>2, ReturnOK DEF client, Codes
<1>3. ASSUME NEW a \in FreeAddr,
             NewBlock(a, "table", NoFields),
             obj' = [obj EXCEPT ![t] = a],
             Goto(t, "create_name"),
             UNCHANGED <<conf, arg>>
      PROVE  IInv'
  <2>1. NoFields \in [Fields -> Ptr] /\ \A f \in Fields : NoFields[f] = NULL
    BY DEF NoFields, Ptr
  <2>2. a \in Addr
    BY DEF FreeAddr
  <2>3. /\ pc'[t] = "create_name" /\ obj'[t] = a
        /\ kind'[a] = "table" /\ field'[a] = NoFields
    BY <1>3, <2>2 DEF NewBlock, Goto, IInv, TypeOK
  <2>4. ShapeOf(t)'
    BY <2>1, <2>3 DEF ShapeOf
  <2>5. /\ conf' \in [Threads -> Config] /\ arg' \in [Threads -> Addr \cup {NULL}]
        /\ \A u \in Threads : u # t => conf'[u] = conf[u]
        /\ "table" \in ObjKinds
    BY <1>3 DEF IInv, TypeOK, ObjKinds
  <2> QED
    BY <1>1, <1>3, <2>1, <2>4, <2>5, StartOK DEF client
<1> QED
  BY <1>2, <1>3 DEF CreateAlloc

\* So does the malloc of epiphanydb_begin_transaction, which hands the
\* transaction to the client.
LEMMA BeginAllocOK ==
    ASSUME IInv, NEW t \in Threads, BeginAlloc(t)
    PROVE  IInv'
<1>1. /\ pc[t] \in Empty /\ contexts' = contexts /\ tables' = tables
      /\ fault' = fault /\ fault' = "none" /\ arg[t] \in Addr \cup {NULL}
  BY DEF BeginAlloc, IInv, TypeOK, NoFault, Empty
<1>2. CASE Return(t, "OUT_OF_MEMORY") /\ UNCHANGED <<memory, txns>>
  <2>1. UNCHANGED <<memory, client, fault>>
    BY <1>1, <1>2 DEF client
  <2> QED
    BY <1>1, <1>2, <2>1, ReturnOK DEF Codes
<1>3. ASSUME NEW a \in FreeAddr,
             kind' = [kind EXCEPT ![a] = "transaction"],
             field' = [field EXCEPT ![a] = NoFields],
             context' = [context EXCEPT ![a] = arg[t]],
             flag' = [flag EXCEPT ![a] = TRUE],
             txns' = txns \cup {a},
             Return(t, "SUCCESS")
      PROVE  IInv'
  BY <1>1, <1>3, BeginOK
<1> QED
  BY <1>2, <1>3 DEF BeginAlloc

\* The first step of cleanup, close_table, commit and rollback keeps the
\* invariant.
LEMMA ReleaseOK ==
    ASSUME IInv, NEW t \in Threads,
           \/ \E ctx \in contexts : Cleanup(t, ctx)
           \/ \E tab \in tables : CloseTable(t, tab)
           \/ \E txn \in txns \cup {NULL} : EndTransaction(t, txn)
    PROVE  IInv'
<1>1. ASSUME NEW h \in contexts, Cleanup(t, h)
      PROVE  IInv'
  <2>1. /\ h \in Held /\ tables' = tables \ {h} /\ txns' = txns \ {h}
        /\ fault' = "none" /\ flag' \in [Addr -> BOOLEAN] /\ flag' = flag
    BY <1>1, KindsApart DEF Cleanup, Held, memory, IInv, TypeOK, NoFault
  <2>2. \A f \in Fields \ Owed("clean_shm") : field[h][f] = NULL
    BY OwedValues DEF IInv, HandleShape, Fields
  <2> QED
    BY <1>1, <2>1, <2>2, TakeOK DEF Cleanup, memory, Empty
<1>2. ASSUME NEW h \in tables, CloseTable(t, h)
      PROVE  IInv'
  <2>1. /\ h \in Held /\ contexts' = contexts \ {h} /\ txns' = txns \ {h}
        /\ fault' = "none" /\ flag' \in [Addr -> BOOLEAN] /\ flag' = flag
    BY <1>2, KindsApart DEF CloseTable, Held, memory, IInv, TypeOK, NoFault
  <2>2. \A f \in Fields \ Owed("close_name") : field[h][f] = NULL
    BY OwedValues DEF IInv, HandleShape
  <2> QED
    BY <1>2, <2>1, <2>2, TakeOK DEF CloseTable, memory, Empty
<1>3. ASSUME NEW h \in txns, EndTransaction(t, h)
      PROVE  IInv'
  <2>1. /\ h \in Held /\ h \in Addr /\ ~ NotActive(h) /\ kind[h] = "transaction"
    BY PointerAssumption DEF Held, IInv, TypeOK, HandlesUsable, NotActive
  <2>2. /\ contexts' = contexts \ {h} /\ tables' = tables \ {h} /\ txns' = txns \ {h}
        /\ kind' = kind /\ field' = field /\ context' = context
        /\ flag' = [flag EXCEPT ![h] = FALSE]
        /\ obj' = [obj EXCEPT ![t] = h] /\ Goto(t, "end_txn")
        /\ conf' = conf /\ arg' = arg /\ pc[t] = "idle"
    BY SMTT(40), <1>3, <2>1, KindsApart DEF EndTransaction
  <2>3. fault' = "none"
    BY <1>3, <2>1 DEF EndTransaction, FaultOf, MayFree, IInv, NoFault
  <2>4. flag' \in [Addr -> BOOLEAN] /\ \A q \in Addr : q # h => flag'[q] = flag[q]
    BY <2>1, <2>2 DEF IInv, TypeOK
  <2>5. \A f \in Fields \ Owed("end_txn") : field[h][f] = NULL
    BY DEF IInv, HandleShape
  <2> QED
    BY <2>1, <2>2, <2>3, <2>4, <2>5, TakeOK DEF Empty
<1>4. CASE EndTransaction(t, NULL)
  <2>1. /\ Return(t, "INVALID_PARAM") /\ pc[t] = "idle"
        /\ kind' = kind /\ field' = field /\ context' = context /\ flag' = flag
        /\ contexts' = contexts /\ tables' = tables
    BY <1>4 DEF EndTransaction, NotActive
  <2>2. txns' = txns /\ fault' = fault
    BY SMTT(40), <1>4, PointerAssumption DEF EndTransaction, FaultOf, MayFree, IInv, TypeOK, NoFault
  <2> QED
    BY <2>1, <2>2, ReturnOK DEF memory, client, Codes, Empty
<1> QED
  BY <1>1, <1>2, <1>3, <1>4

-----------------------------------------------------------------------------
(* The invariant and the theorems *)

\* Every first step of a call keeps the invariant.
LEMMA CallOK ==
    ASSUME IInv, NEW t \in Threads, Call(t)
    PROVE  IInv'
<1>1. CASE InitReject(t)
  BY <1>1, ReturnOK DEF InitReject, Codes, Empty
<1>2. CASE \E c \in Config : InitContext(t, c)
  BY <1>2, InitContextOK
<1>3. ASSUME NEW ctx \in contexts \cup {NULL}, NEW ok \in BOOLEAN,
             \/ CreateTable(t, ctx, ok) \/ OpenTable(t, ctx, ok)
             \/ DropTable(t, ctx, ok) \/ BeginTransaction(t, ctx, ok)
      PROVE  IInv'
  <2>1. PICK next \in Looks : Enter(t, ctx, ok, next)
    BY <1>3 DEF CreateTable, OpenTable, DropTable, BeginTransaction, Looks
  <2> QED
    BY <2>1, EnterOK
<1>4. CASE \/ \E ctx \in contexts : Cleanup(t, ctx)
           \/ \E tab \in tables : CloseTable(t, tab)
           \/ \E txn \in txns \cup {NULL} :
                 CommitTransaction(t, txn) \/ RollbackTransaction(t, txn)
  BY <1>4, ReleaseOK DEF CommitTransaction, RollbackTransaction
<1> QED
  BY <1>1, <1>2, <1>3, <1>4 DEF Call

\* Every later step of a call keeps the invariant.
LEMMA StepOK ==
    ASSUME IInv, ArgsHeld, NEW t \in Threads, Step(t)
    PROVE  IInv'
<1> USE OwedValues DEF Steps, Fields, Codes, Empty, Looks
<1>1. CASE InitData(t)
  <2>1. CASE AllocField(t, "data_directory", "init_log", "undo_context")
    BY <1>1, <2>1, AllocFieldOK DEF InitData
  <2>2. CASE /\ conf[t].data_directory = NULL
             /\ Goto(t, "init_log")
             /\ UNCHANGED <<memory, obj, conf, arg, client, fault>>
    <3>1. pc[t] = "init_data" /\ ShapeOf(t)
      BY <1>1 DEF InitData, IInv, CallShape, Busy
    <3>2. field[obj[t]]["data_directory"] = NULL
      BY <2>2, <3>1 DEF ShapeOf
    <3>3. ShapeOf(t)' /\ fault' = "none"
      <4>1. pc'[t] = "init_log" /\ fault' = "none"
        BY <2>2 DEF Goto, IInv, TypeOK, NoFault
      <4>2. kind' = kind /\ field' = field /\ obj' = obj /\ conf' = conf
        BY <2>2 DEF memory
      <4> QED
        BY <3>1, <4>1, <4>2 DEF ShapeOf
    <3>4. UNCHANGED <<memory, obj, conf, arg, client>>
      BY <2>2
    <3> QED
      BY SMTT(40), <2>2, <3>1, <3>2, <3>3, <3>4, SkipOK
  <2> QED
    BY <1>1, <2>1, <2>2 DEF InitData
<1>2. CASE InitLog(t)
  <2>1. CASE AllocField(t, "log_directory", "init_shm", "undo_data")
    BY <1>2, <2>1, AllocFieldOK DEF InitLog
  <2>2. CASE /\ conf[t].log_directory = NULL
             /\ Goto(t, "init_shm")
             /\ UNCHANGED <<memory, obj, conf, arg, client, fault>>
    <3>1. pc[t] = "init_log" /\ ShapeOf(t)
      BY <1>2 DEF InitLog, IInv, CallShape, Busy
    <3>2. field[obj[t]]["log_directory"] = NULL
      BY <2>2, <3>1 DEF ShapeOf
    <3>3. ShapeOf(t)' /\ fault' = "none"
      <4>1. pc'[t] = "init_shm" /\ fault' = "none"
        BY <2>2 DEF Goto, IInv, TypeOK, NoFault
      <4>2. kind' = kind /\ field' = field /\ obj' = obj /\ conf' = conf
        BY <2>2 DEF memory
      <4> QED
        BY <3>1, <4>1, <4>2 DEF ShapeOf
    <3>4. UNCHANGED <<memory, obj, conf, arg, client>>
      BY <2>2
    <3> QED
      BY SMTT(40), <2>2, <3>1, <3>2, <3>3, <3>4, SkipOK
  <2> QED
    BY <1>2, <2>1, <2>2 DEF InitLog
<1>3. CASE InitShm(t)
  BY <1>3, InitShmOK
<1>4. CASE UndoLog(t)
  BY SMTT(40), <1>4, FreeFieldOK DEF UndoLog
<1>5. CASE UndoData(t)
  BY SMTT(40), <1>5, FreeFieldOK DEF UndoData
<1>6. CASE CleanShm(t)
  BY SMTT(40), <1>6, FreeFieldOK DEF CleanShm
<1>7. CASE CleanData(t)
  BY SMTT(40), <1>7, FreeFieldOK DEF CleanData
<1>8. CASE CleanLog(t)
  BY SMTT(40), <1>8, FreeFieldOK DEF CleanLog
<1>9. CASE CloseName(t)
  BY SMTT(40), <1>9, FreeFieldOK DEF CloseName
<1>10. CASE UndoContext(t) \/ UndoTable(t)
  BY <1>10, FreeObjOK DEF UndoContext, UndoTable
<1>11. CASE CleanContext(t) \/ CloseFree(t)
  BY <1>11, FreeObjOK DEF CleanContext, CloseFree
<1>12. CASE EndFree(t)
  BY <1>12, FreeObjOK DEF EndFree
<1>13. CASE CreateName(t)
  BY <1>13, CreateNameOK
<1>14. CASE CreateAlloc(t) \/ BeginAlloc(t)
  BY <1>14, CreateAllocOK, BeginAllocOK
<1>15. CASE \E type \in TypeArgs : CreateCheck(t, type)
  BY SMTT(40), <1>15, LookOK, CodesOK DEF CreateCheck
<1>16. CASE OpenCheck(t) \/ OpenCreate(t)
  BY SMTT(40), <1>16, LookOK, CodesOK DEF OpenCheck, OpenCreate
<1>17. CASE BeginCheck(t)
  BY SMTT(40), <1>17, LookOK, CodesOK DEF BeginCheck
<1>18. CASE DropCheck(t)
  <2>1. ContextCode(arg[t]) \in Codes /\ fault' = fault
    BY <1>18, CodesOK, LookIsSafe DEF DropCheck
  <2> QED
    BY <1>18, <2>1, ReturnOK DEF DropCheck
<1> QED
  BY <1>1, <1>2, <1>3, <1>4, <1>5, <1>6, <1>7, <1>8, <1>9, <1>10, <1>11, <1>12, <1>13,
     <1>14, <1>15, <1>16, <1>17, <1>18
  DEF Step

\* So does a step that changes nothing.
LEMMA StutterOK ==
    ASSUME IInv, UNCHANGED vars
    PROVE  IInv'
<1>1. /\ Held' = Held /\ Busy' = Busy /\ Live' = Live /\ Roots' = Roots
  BY DEF vars, Held, Busy, Live, Roots
<1>2. TypeOK'
  BY DEF vars, IInv, TypeOK
<1>3. NoFault'
  BY DEF vars, IInv, NoFault
<1>4. HeapOK(kind, field, Live, Roots)'
  BY <1>1 DEF vars, IInv
<1>5. CallsApart'
  BY <1>1 DEF vars, IInv, CallsApart
<1>6. HandlesUsable' /\ HandleShape'
  BY <1>1 DEF vars, IInv, HandlesUsable, HandleShape
<1>7. CallShape'
  <2> SUFFICES ASSUME NEW t \in Busy' PROVE ShapeOf(t)'
    BY DEF CallShape
  <2>1. ShapeOf(t)
    BY <1>1 DEF IInv, CallShape
  <2> QED
    BY <2>1 DEF vars, ShapeOf
<1> QED
  BY <1>2, <1>3, <1>4, <1>5, <1>6, <1>7 DEF IInv

\* A step that releases no context leaves the contexts that calls have still
\* to look at held, if the thread that takes it has none or keeps its own.
LEMMA ArgsKept ==
    ASSUME TypeOK, ArgsHeld, NEW t \in Threads, NEW next,
           pc' = [pc EXCEPT ![t] = next],
           \A u \in Threads : u # t => arg'[u] = arg[u],
           contexts \subseteq contexts',
           next \in Looks => arg'[t] \in contexts
    PROVE  ArgsHeld'
  BY DEF TypeOK, ArgsHeld

\* The same when the thread that takes the step keeps every argument and
\* stands at no such place afterwards.
LEMMA ArgsLeft ==
    ASSUME TypeOK, ArgsHeld, NEW t \in Threads, NEW next, Goto(t, next), next \notin Looks,
           arg' = arg, contexts \subseteq contexts'
    PROVE  ArgsHeld'
  BY ArgsKept DEF Goto

\* And when the call returns.
LEMMA ArgsReturn ==
    ASSUME TypeOK, ArgsHeld, NEW t \in Threads, NEW code, Return(t, code),
           contexts \subseteq contexts'
    PROVE  ArgsHeld'
<1>1. \A u \in Threads : u # t => arg'[u] = arg[u]
  BY DEF TypeOK, Return
<1> QED
  BY <1>1, ArgsKept DEF Return, Looks

\* The calls that a context was given to find it held when they look at it:
\* a client releases it only after the last look.
LEMMA CallArgs ==
    ASSUME TypeOK, ArgsHeld, NEW t \in Threads, Call(t)
    PROVE  ArgsHeld'
<1>1. CASE InitReject(t)
  BY <1>1, ArgsReturn DEF InitReject, client
<1>2. ASSUME NEW c \in Config, InitContext(t, c) PROVE ArgsHeld'
  <2>1. CASE Return(t, "OUT_OF_MEMORY")
    BY <1>2, <2>1, ArgsReturn DEF InitContext, client
  <2>2. CASE Goto(t, "init_data") /\ arg' = arg
    BY <1>2, <2>2, ArgsLeft DEF InitContext, client, Looks
  <2> QED
    BY <1>2, <2>1, <2>2 DEF InitContext
<1>3. ASSUME NEW ctx \in contexts, LookedAt(ctx), Cleanup(t, ctx) PROVE ArgsHeld'
  <2>1. /\ pc' = [pc EXCEPT ![t] = "clean_shm"] /\ arg' = arg
        /\ contexts' = contexts \ {ctx}
    BY <1>3 DEF Cleanup, Goto
  <2> SUFFICES ASSUME NEW u \in Threads, pc'[u] \in Looks PROVE arg'[u] \in contexts'
    BY DEF ArgsHeld
  <2>2. u # t /\ pc[u] \in Looks
    BY <2>1 DEF TypeOK, Looks
  <2>3. arg[u] \in contexts /\ arg[u] # ctx
    BY <1>3, <2>2 DEF ArgsHeld, LookedAt
  <2> QED
    BY <2>1, <2>3
<1>4. ASSUME NEW ctx \in contexts \cup {NULL}, NEW ok \in BOOLEAN,
             \/ CreateTable(t, ctx, ok) \/ OpenTable(t, ctx, ok)
             \/ DropTable(t, ctx, ok) \/ BeginTransaction(t, ctx, ok)
      PROVE  ArgsHeld'
  <2>1. PICK next \in Looks : Enter(t, ctx, ok, next)
    BY <1>4 DEF CreateTable, OpenTable, DropTable, BeginTransaction, Looks
  <2>2. CASE Return(t, "INVALID_PARAM")
    BY <2>1, <2>2, ArgsReturn DEF Enter, client
  <2>3. CASE ctx # NULL /\ arg' = [arg EXCEPT ![t] = ctx] /\ Goto(t, next)
    <3>1. /\ pc' = [pc EXCEPT ![t] = next] /\ contexts' = contexts
          /\ arg'[t] = ctx /\ \A u \in Threads : u # t => arg'[u] = arg[u]
      BY <2>1, <2>3 DEF Enter, Goto, client, TypeOK
    <3> QED
      BY <2>3, <3>1, ArgsKept
  <2> QED
    BY <2>1, <2>2, <2>3 DEF Enter
<1>5. ASSUME NEW tab \in tables, CloseTable(t, tab) PROVE ArgsHeld'
  BY <1>5, ArgsLeft DEF CloseTable, Looks
<1>6. ASSUME NEW txn \in txns \cup {NULL}, EndTransaction(t, txn) PROVE ArgsHeld'
  <2>1. CASE Return(t, "INVALID_PARAM")
    BY <1>6, <2>1, ArgsReturn DEF EndTransaction
  <2>2. CASE Goto(t, "end_txn") /\ UNCHANGED <<conf, arg>>
    BY <1>6, <2>2, ArgsLeft DEF EndTransaction, Looks
  <2> QED
    BY <1>6, <2>1, <2>2 DEF EndTransaction
<1> QED
  BY <1>1, <1>2, <1>3, <1>4, <1>5, <1>6 DEF Call, CommitTransaction, RollbackTransaction

\* The later steps of a call release no context, and the one that goes on to
\* look at it a second time has just looked at it.
LEMMA StepArgs ==
    ASSUME TypeOK, ArgsHeld, NEW t \in Threads, Step(t)
    PROVE  ArgsHeld'
<1>1. ASSUME NEW f, NEW next, NEW undo, next \notin Looks, undo \notin Looks,
             AllocField(t, f, next, undo)
      PROVE  ArgsHeld'
  BY <1>1, ArgsLeft DEF AllocField, client
<1>2. ASSUME NEW f, NEW next, next \notin Looks, FreeField(t, f, next) PROVE ArgsHeld'
  BY <1>2, ArgsLeft DEF FreeField, client
<1>3. ASSUME NEW code, FreeObj(t, code) PROVE ArgsHeld'
  BY <1>3, ArgsReturn DEF FreeObj, client
<1>4. ASSUME NEW code, NEW next, pc[t] \in Looks, Look(t, code, next) PROVE ArgsHeld'
  <2>1. CASE Return(t, code)
    BY <1>4, <2>1, ArgsReturn DEF Look, client
  <2>2. CASE Goto(t, next) /\ UNCHANGED <<obj, conf, arg>>
    <3>1. arg[t] \in contexts /\ contexts' = contexts
      BY <1>4 DEF ArgsHeld, Look, client
    <3> QED
      BY <2>2, <3>1, ArgsKept DEF Goto
  <2> QED
    BY <1>4, <2>1, <2>2 DEF Look
<1>5. CASE InitData(t) \/ InitLog(t)
  <2>1. ASSUME NEW next, next \notin Looks, Goto(t, next), arg' = arg, contexts' = contexts
        PROVE  ArgsHeld'
    BY <2>1, ArgsLeft
  <2> QED
    BY <1>1, <1>5, <2>1 DEF InitData, InitLog, client, Looks
<1>6. CASE InitShm(t)
  <2>1. CASE InitPublish(t)
    BY <2>1, ArgsReturn DEF InitPublish
  <2>2. CASE Goto(t, "undo_log") /\ UNCHANGED <<memory, obj, conf, arg, client>>
    BY <2>2, ArgsLeft DEF client, Looks
  <2> QED
    BY <1>6, <2>1, <2>2 DEF InitShm
<1>7. CASE UndoLog(t) \/ UndoData(t) \/ CleanShm(t) \/ CleanData(t) \/ CleanLog(t) \/ CloseName(t)
  BY <1>2, <1>7 DEF UndoLog, UndoData, CleanShm, CleanData, CleanLog, CloseName, Looks
<1>8. CASE UndoContext(t) \/ UndoTable(t) \/ CleanContext(t) \/ CloseFree(t) \/ EndFree(t)
  BY <1>3, <1>8 DEF UndoContext, UndoTable, CleanContext, CloseFree, EndFree
<1>9. CASE \/ \E type \in TypeArgs : CreateCheck(t, type)
           \/ OpenCheck(t) \/ OpenCreate(t) \/ BeginCheck(t)
  BY SMTT(40), <1>4, <1>9 DEF CreateCheck, OpenCheck, OpenCreate, BeginCheck, Looks
<1>10. CASE DropCheck(t)
  BY <1>10, ArgsReturn DEF DropCheck, client
<1>11. CASE CreateAlloc(t)
  <2>1. CASE Return(t, "OUT_OF_MEMORY")
    BY <1>11, <2>1, ArgsReturn DEF CreateAlloc, client
  <2>2. CASE Goto(t, "create_name") /\ UNCHANGED <<conf, arg>>
    BY <1>11, <2>2, ArgsLeft DEF CreateAlloc, client, Looks
  <2> QED
    BY <1>11, <2>1, <2>2 DEF CreateAlloc
<1>12. CASE BeginAlloc(t)
  BY <1>12, ArgsReturn DEF BeginAlloc
<1>13. CASE CreateName(t)
  <2>1. CASE Return(t, "SUCCESS")
    BY <1>13, <2>1, ArgsReturn DEF CreateName
  <2>2. CASE Goto(t, "undo_table") /\ UNCHANGED <<memory, obj, conf, arg, tables>>
    BY <1>13, <2>2, ArgsLeft DEF CreateName, Looks
  <2> QED
    BY <1>13, <2>1, <2>2 DEF CreateName
<1> QED
  BY <1>5, <1>6, <1>7, <1>8, <1>9, <1>10, <1>11, <1>12, <1>13 DEF Step

\* The ownership invariant holds in every reachable state, for any number of
\* addresses and threads, and so do the contexts of the calls that have still
\* to look at theirs.
THEOREM Invariance == Spec => [](IInv /\ ArgsHeld)
<1>1. Init => ArgsHeld
  BY DEF Init, ArgsHeld, Looks
<1>2. IInv /\ ArgsHeld /\ [Next]_vars => IInv'
  BY CallOK, StepOK, StutterOK DEF Next
<1>3. IInv /\ ArgsHeld /\ [Next]_vars => ArgsHeld'
  <2> SUFFICES ASSUME IInv, ArgsHeld, [Next]_vars PROVE ArgsHeld'
    OBVIOUS
  <2>1. TypeOK
    BY DEF IInv
  <2>2. CASE UNCHANGED vars
    BY <2>2 DEF vars, ArgsHeld
  <2> QED
    BY <2>1, <2>2, CallArgs, StepArgs DEF Next
<1> QED
  BY <1>1, <1>2, <1>3, InitInv, PTL DEF Spec

\* Every variable of the library keeps its type.
THEOREM TypeCorrect == Spec => []TypeOK
<1>1. IInv => TypeOK
  BY DEF IInv
<1> QED
  BY <1>1, Invariance, PTL

\* No call ever touches a freed block, frees one twice or frees a string of
\* the caller, in any interleaving of the allocations, the frees and the reads
\* of ctx->initialized and whichever allocation fails, as long as clients
\* release a context behind the last of those reads.
THEOREM MemorySafety == Spec => []NoFault
<1>1. IInv => NoFault
  BY DEF IInv
<1> QED
  BY <1>1, Invariance, PTL

\* A handle in the hands of a client is a finished object of its type.
THEOREM HandlesAreUsable == Spec => []HandlesUsable
<1>1. IInv => HandlesUsable
  BY DEF IInv
<1> QED
  BY <1>1, Invariance, PTL

\* What stands behind a handle or a call, in terms of live slots.
LEMMA BlocksLive ==
    ASSUME IInv
    PROVE  /\ \A h \in Held : \A x : x \in HandleBlocks(h) <=>
                x # NULL /\ (x = h \/ \E f \in Live[h] : x = field[h][f])
           /\ \A t \in Busy : \A x : x \in CallBlocks(t) <=>
                x # NULL /\ (x = obj[t] \/ \E f \in Live[obj[t]] : x = field[obj[t]][f])
<1>1. \A h \in Held : \A x : x \in HandleBlocks(h) <=>
         x # NULL /\ (x = h \/ \E f \in Live[h] : x = field[h][f])
  BY LiveOf DEF HandleBlocks, Blocks
<1>2. \A t \in Busy : \A x : x \in CallBlocks(t) <=>
         x # NULL /\ (x = obj[t] \/ \E f \in Live[obj[t]] : x = field[obj[t]][f])
  BY LiveOf DEF CallBlocks, Blocks
<1> QED
  BY <1>1, <1>2

\* The live slots and the roots name every block, and only live ones.
LEMMA InvConservation == IInv => Conservation
<1>1. ASSUME IInv PROVE Conservation
  <2> DEFINE Owned ==
        (UNION {HandleBlocks(h) : h \in Held}) \cup (UNION {CallBlocks(t) : t \in Busy})
  <2>1. ASSUME NEW a \in Addr, kind[a] # "free" PROVE a \in Owned
    <3>1. a # NULL
      BY PointerAssumption
    <3>2. CASE kind[a] = "bytes"
      <4>1. PICK o \in Addr, f \in Fields : f \in Live[o] /\ field[o][f] = a
        BY <1>1, <3>2, LiveType DEF IInv, HeapOK
      <4>2. o \in Roots
        BY <1>1, <4>1 DEF IInv, HeapOK
      <4>3. CASE o \in Held
        BY SMTT(40), <1>1, <3>1, <4>1, <4>3, BlocksLive
      <4>4. CASE \E t \in Busy : obj[t] = o
        BY SMTT(40), <1>1, <3>1, <4>1, <4>4, BlocksLive
      <4> QED
        BY <4>2, <4>3, <4>4 DEF Roots
    <3>3. CASE kind[a] # "bytes"
      <4>1. a \in Roots
        BY SMTT(40), <1>1, <2>1, <3>3 DEF IInv, HeapOK, TypeOK, Kinds, ObjKinds
      <4> QED
        BY SMTT(40), <1>1, <3>1, <4>1, BlocksLive DEF Roots
    <3> QED
      BY <3>2, <3>3
  <2>2. ASSUME NEW o \in Roots, NEW x, x # NULL, x = o \/ \E f \in Live[o] : x = field[o][f]
        PROVE  x \in Addr /\ kind[x] # "free"
    BY SMTT(40), <1>1, <2>2, LiveOf DEF IInv, HeapOK, ObjKinds
  <2>3. ASSUME NEW x \in Owned PROVE x \in Addr /\ kind[x] # "free"
    <3>1. CASE \E h \in Held : x \in HandleBlocks(h)
      BY SMTT(40), <1>1, <2>2, <3>1, BlocksLive DEF Roots
    <3>2. CASE \E t \in Busy : x \in CallBlocks(t)
      BY SMTT(40), <1>1, <2>2, <3>2, BlocksLive DEF Roots
    <3> QED
      BY <3>1, <3>2
  <2> QED
    BY <1>1, <2>1, <2>3 DEF Conservation, IInv
<1> QED
  BY <1>1

\* The heap is well typed, and every block is accounted for, exactly.
THEOREM NoLeaks == Spec => []Conservation
  BY Invariance, InvConservation, PTL

\* Slots of different objects never hold the same block.
LEMMA InvSingleOwner == IInv => SingleOwner
<1>1. ASSUME IInv PROVE SingleOwner
  <2>1. ASSUME NEW o \in Roots, NEW p \in Roots, o # p, NEW x, x # NULL,
               x = o \/ \E f \in Live[o] : x = field[o][f],
               x = p \/ \E f \in Live[p] : x = field[p][f]
        PROVE  FALSE
    <3>1. o \in Addr /\ p \in Addr /\ kind[o] # "bytes" /\ kind[p] # "bytes"
      BY <1>1, LiveOf DEF ObjKinds
    <3>2. \A q \in Addr : \A f \in Live[q] :
             field[q][f] # NULL => kind[field[q][f]] = "bytes"
      BY <1>1 DEF IInv, HeapOK
    <3>3. PICK f \in Live[o], g \in Live[p] : x = field[o][f] /\ x = field[p][g]
      BY <2>1, <3>1, <3>2
    <3> QED
      BY SMTT(40), <1>1, <2>1, <3>1, <3>3 DEF IInv, HeapOK
  <2>2. \A h \in Held, t \in Busy : HandleBlocks(h) \cap CallBlocks(t) = {}
    <3> SUFFICES ASSUME NEW h \in Held, NEW t \in Busy, NEW x,
                        x \in HandleBlocks(h), x \in CallBlocks(t)
                 PROVE  FALSE
      OBVIOUS
    <3>1. h \in Roots /\ obj[t] \in Roots /\ h # obj[t]
      BY <1>1 DEF Roots, IInv, CallsApart
    <3> QED
      BY SMTT(40), <1>1, <2>1, <3>1, BlocksLive
  <2>3. \A h, g \in Held : h # g => HandleBlocks(h) \cap HandleBlocks(g) = {}
    <3> SUFFICES ASSUME NEW h \in Held, NEW g \in Held, h # g, NEW x,
                        x \in HandleBlocks(h), x \in HandleBlocks(g)
                 PROVE  FALSE
      OBVIOUS
    <3>1. h \in Roots /\ g \in Roots
      BY DEF Roots
    <3> QED
      BY SMTT(40), <1>1, <2>1, <3>1, BlocksLive
  <2>4. \A t, u \in Busy : t # u => CallBlocks(t) \cap CallBlocks(u) = {}
    <3> SUFFICES ASSUME NEW t \in Busy, NEW u \in Busy, t # u, NEW x,
                        x \in CallBlocks(t), x \in CallBlocks(u)
                 PROVE  FALSE
      OBVIOUS
    <3>1. obj[t] \in Roots /\ obj[u] \in Roots /\ obj[t] # obj[u]
      BY <1>1 DEF Roots, IInv, CallsApart
    <3>2. x # NULL /\ (x = obj[t] \/ \E f \in Live[obj[t]] : x = field[obj[t]][f])
      BY <1>1, BlocksLive
    <3>3. x = obj[u] \/ \E f \in Live[obj[u]] : x = field[obj[u]][f]
      BY SMTT(40), <1>1, BlocksLive
    <3> QED
      BY <2>1, <3>1, <3>2, <3>3
  <2>5. \A h \in Held, f, g \in Fields :
           field[h][f] = field[h][g] => f = g \/ field[h][f] = NULL
    BY SMTT(40), <1>1, LiveOf DEF IInv, HeapOK
  <2> QED
    BY <2>2, <2>3, <2>4, <2>5 DEF SingleOwner
<1> QED
  BY <1>1

\* No block has two owners.
THEOREM OneOwner == Spec => []SingleOwner
  BY Invariance, InvSingleOwner, PTL

-----------------------------------------------------------------------------
(* The leases *)

\* The step leaves the members of every object in S as they were.
Untouched(S) == \A h \in S : field'[h] = field[h]

\* A step that neither creates nor takes a handle, and writes no member of a
\* held object, is invisible.
LEMMA LeaseSame ==
    ASSUME Held' = Held, Untouched(Held)
    PROVE  UNCHANGED [h \in Held |-> HandleBlocks(h)]
<1>1. \A h \in Held : HandleBlocks(h)' = HandleBlocks(h)
  BY DEF HandleBlocks, Blocks, Untouched
<1> QED
  BY <1>1

\* A call that takes a handle back is a Release.
LEMMA LeaseRelease ==
    ASSUME NEW h \in Held, Held' = Held \ {h}, Untouched(Held')
    PROVE  Leases!LeaseNext
<1>1. \A g \in Held' : HandleBlocks(g)' = HandleBlocks(g)
  BY DEF HandleBlocks, Blocks, Untouched
<1>2. Leases!Release(h)
  BY <1>1 DEF Leases!Release
<1> QED
  BY <1>2 DEF Leases!LeaseNext

\* A call that succeeds with a new handle is an Acquire of blocks that stand
\* behind no other handle.
LEMMA LeaseAcquire ==
    ASSUME IInv', NEW h \in Addr, h \notin Held, Held' = Held \cup {h}, Untouched(Held)
    PROVE  Leases!LeaseNext
<1> DEFINE blocks == HandleBlocks(h)'
<1>1. \A g \in Held : HandleBlocks(g)' = HandleBlocks(g)
  BY DEF HandleBlocks, Blocks, Untouched
<1>2. Conservation' /\ SingleOwner'
  BY InvConservation, InvSingleOwner, PTL
<1>3. blocks \in SUBSET Addr
  BY <1>2 DEF Conservation
<1>4. h \in blocks
  BY PointerAssumption DEF HandleBlocks, Blocks
<1>5. \A g \in Held : HandleBlocks(g) \cap blocks = {}
  BY <1>1, <1>2 DEF SingleOwner
<1> HIDE DEF blocks
<1>6. blocks \cap Leases!Leased = {}
  BY <1>5 DEF Leases!Leased
<1>7. Leases!Acquire(h, blocks)
  BY <1>1, <1>4, <1>6 DEF Leases!Acquire, blocks
<1> QED
  BY <1>3, <1>4, <1>7 DEF Leases!LeaseNext

\* What one step may do to the leases.
LeaseStep ==
    Leases!LeaseNext \/ UNCHANGED [h \in Held |-> HandleBlocks(h)]

\* The object of a call in progress is held by nobody, and neither is what
\* the members it still owes point to.
LEMMA CallObject ==
    ASSUME IInv, NEW t \in Threads, pc[t] \notin Empty
    PROVE  /\ obj[t] \in Addr /\ obj[t] \notin Held
           /\ \A f \in Owed(pc[t]) : field[obj[t]][f] \notin Held
<1>1. t \in Busy
  BY DEF Busy
<1>2. obj[t] \in Addr /\ obj[t] \notin Held /\ Live[obj[t]] = Owed(pc[t])
  BY <1>1, LiveOf DEF IInv, CallsApart
<1>3. \A h \in Held : h \in Addr /\ kind[h] # "bytes"
  BY LiveOf DEF Roots, ObjKinds
<1> QED
  BY SMTT(40), <1>2, <1>3, PointerAssumption DEF IInv, HeapOK

\* A fresh block is held by nobody.
LEMMA FreshBlock ==
    ASSUME IInv
    PROVE  FreeAddr \cap Held = {}
<1>1. \A h \in Held : kind[h] # "free"
  BY LiveOf DEF Roots, ObjKinds
<1> QED
  BY <1>1 DEF FreeAddr

\* Writing a member of the call's own object touches no held object.
LEMMA AllocFieldLease ==
    ASSUME IInv, NEW t \in Threads, pc[t] \notin Empty, NEW f, NEW next, NEW undo,
           AllocField(t, f, next, undo)
    PROVE  LeaseStep
<1>1. Held' = Held
  BY DEF AllocField, client, Held
<1>2. Untouched(Held)
  <2>1. obj[t] \notin Held /\ Held \subseteq Addr /\ DOMAIN field = Addr
    BY CallObject, LiveOf DEF IInv, TypeOK
  <2>2. \E v : field' = [field EXCEPT ![obj[t]][f] = v]
    BY DEF AllocField
  <2> QED
    BY <2>1, <2>2 DEF Untouched
<1> QED
  BY <1>1, <1>2, LeaseSame DEF LeaseStep

\* Freeing a member that the call owes touches no held object.
LEMMA FreeFieldLease ==
    ASSUME IInv, NEW t \in Threads, pc[t] \notin Empty, NEW f \in Owed(pc[t]), NEW next,
           FreeField(t, f, next)
    PROVE  LeaseStep
<1>1. Held' = Held
  BY DEF FreeField, client, Held
<1>2. Held \subseteq Addr
  BY LiveOf
<1>3. Untouched(Held)
  BY <1>2, CallObject DEF FreeField, Free, Untouched
<1> QED
  BY <1>1, <1>3, LeaseSame DEF LeaseStep

\* Nor does freeing the object itself.
LEMMA FreeObjLease ==
    ASSUME IInv, NEW t \in Threads, pc[t] \notin Empty, NEW code, FreeObj(t, code)
    PROVE  LeaseStep
<1>1. Held' = Held
  BY DEF FreeObj, client, Held
<1>2. Held \subseteq Addr
  BY LiveOf
<1>3. Untouched(Held)
  BY <1>2, CallObject DEF FreeObj, Free, Untouched
<1> QED
  BY <1>1, <1>3, LeaseSame DEF LeaseStep

\* A constructor that fills a fresh block without handing it out yet.
LEMMA NewBlockLease ==
    ASSUME IInv, NEW a \in FreeAddr, NEW k, NEW fields, NewBlock(a, k, fields),
           UNCHANGED client
    PROVE  LeaseStep
<1>1. Held' = Held
  BY DEF client, Held
<1>2. Untouched(Held)
  BY SMTT(40), FreshBlock DEF NewBlock, Untouched, IInv, TypeOK
<1> QED
  BY <1>1, <1>2, LeaseSame DEF LeaseStep

\* A call that returns without touching the heap or the handles.
LEMMA QuietLease ==
    ASSUME UNCHANGED memory, UNCHANGED client
    PROVE  LeaseStep
<1>1. Held' = Held
  BY DEF client, Held
<1>2. Untouched(Held)
  BY DEF memory, Untouched
<1> QED
  BY <1>1, <1>2, LeaseSame DEF LeaseStep

\* The first step of a call: a release happens there; everything else is
\* invisible.
LEMMA CallLease ==
    ASSUME IInv, IInv', NEW t \in Threads, Call(t)
    PROVE  LeaseStep
<1>1. CASE InitReject(t)
  BY <1>1, QuietLease DEF InitReject
<1>2. CASE \E c \in Config : InitContext(t, c)
  BY <1>2, QuietLease, NewBlockLease DEF InitContext
<1>3. ASSUME NEW ctx \in contexts, Cleanup(t, ctx) PROVE LeaseStep
  <2>1. ctx \in Held /\ Held' = Held \ {ctx} /\ Untouched(Held')
    BY <1>3, KindsApart DEF Cleanup, memory, Held, Untouched
  <2> QED
    BY <2>1, LeaseRelease DEF LeaseStep
<1>4. ASSUME NEW ctx, NEW ok, NEW next, Enter(t, ctx, ok, next) PROVE LeaseStep
  BY <1>4, QuietLease DEF Enter
<1>5. ASSUME NEW tab \in tables, CloseTable(t, tab) PROVE LeaseStep
  <2>1. tab \in Held /\ Held' = Held \ {tab} /\ Untouched(Held')
    BY <1>5, KindsApart DEF CloseTable, memory, Held, Untouched
  <2> QED
    BY <2>1, LeaseRelease DEF LeaseStep
<1>6. ASSUME NEW txn \in txns \cup {NULL}, EndTransaction(t, txn) PROVE LeaseStep
  <2>1. txns' = txns \ {txn} /\ UNCHANGED <<field, contexts, tables>>
    BY <1>6 DEF EndTransaction
  <2>2. CASE txn \in txns
    <3>1. txn \in Held /\ Held' = Held \ {txn} /\ Untouched(Held')
      BY <2>1, <2>2, KindsApart DEF Held, Untouched
    <3> QED
      BY <3>1, LeaseRelease DEF LeaseStep
  <2>3. CASE txn \notin txns
    <3>1. Held' = Held /\ Untouched(Held)
      BY <2>1, <2>3 DEF Held, Untouched
    <3> QED
      BY <3>1, LeaseSame DEF LeaseStep
  <2> QED
    BY <2>2, <2>3
<1> QED
  BY <1>1, <1>2, <1>3, <1>4, <1>5, <1>6
  DEF Call, CreateTable, OpenTable, DropTable, BeginTransaction,
      CommitTransaction, RollbackTransaction

\* A later step of a call: epiphanydb_init, create_table and begin_transaction
\* hand out a handle in their last step; everything else is invisible.
LEMMA StepLease ==
    ASSUME IInv, IInv', NEW t \in Threads, Step(t)
    PROVE  LeaseStep
<1> USE OwedValues DEF Empty, Looks
<1>1. CASE InitData(t)
  BY <1>1, AllocFieldLease, QuietLease DEF InitData
<1>2. CASE InitLog(t)
  BY <1>2, AllocFieldLease, QuietLease DEF InitLog
<1>3. CASE InitShm(t)
  <2>1. obj[t] \in Addr /\ obj[t] \notin Held
    BY <1>3, CallObject DEF InitShm
  <2>2. CASE InitPublish(t)
    <3>1. Held' = Held \cup {obj[t]}
      BY <2>2 DEF InitPublish, Held
    <3>2. Held \subseteq Addr /\ DOMAIN field = Addr
      BY LiveOf DEF IInv, TypeOK
    <3>3. \/ UNCHANGED field
          \/ \E v : field' = [field EXCEPT ![obj[t]]["shared_memory"] = v]
      BY <1>3 DEF InitShm, memory
    <3>4. Untouched(Held)
      BY <2>1, <3>2, <3>3 DEF Untouched
    <3> QED
      BY <2>1, <3>1, <3>4, LeaseAcquire DEF LeaseStep
  <2>3. CASE UNCHANGED memory /\ UNCHANGED client
    BY <2>3, QuietLease
  <2> QED
    BY <1>3, <2>2, <2>3 DEF InitShm
<1>4. CASE CreateName(t)
  <2>1. obj[t] \in Addr /\ obj[t] \notin Held
    BY <1>4, CallObject DEF CreateName
  <2>2. ASSUME NEW a, field' = [field EXCEPT ![obj[t]]["name"] = a],
               tables' = tables \cup {obj[t]}
        PROVE  LeaseStep
    <3>1. Held' = Held \cup {obj[t]}
      BY <1>4, <2>2 DEF CreateName, Held
    <3>2. Untouched(Held)
      BY SMTT(40), <2>1, <2>2 DEF Untouched, IInv, TypeOK
    <3> QED
      BY <2>1, <3>1, <3>2, LeaseAcquire DEF LeaseStep
  <2>3. CASE UNCHANGED memory /\ UNCHANGED tables
    BY <1>4, <2>3, QuietLease DEF CreateName, client
  <2> QED
    BY <1>4, <2>2, <2>3 DEF CreateName
<1>5. CASE UndoLog(t) \/ UndoData(t)
  BY <1>5, FreeFieldLease DEF UndoLog, UndoData
<1>6. CASE CleanShm(t) \/ CleanData(t) \/ CleanLog(t)
  BY <1>6, FreeFieldLease DEF CleanShm, CleanData, CleanLog
<1>7. CASE CloseName(t)
  BY <1>7, FreeFieldLease DEF CloseName
<1>8. CASE UndoContext(t) \/ UndoTable(t) \/ CleanContext(t) \/ CloseFree(t) \/ EndFree(t)
  BY <1>8, FreeObjLease DEF UndoContext, UndoTable, CleanContext, CloseFree, EndFree
<1>9. ASSUME NEW code, NEW next, Look(t, code, next) PROVE LeaseStep
  BY <1>9, QuietLease DEF Look
<1>10. CASE \/ \E type \in TypeArgs : CreateCheck(t, type)
            \/ OpenCheck(t) \/ OpenCreate(t) \/ BeginCheck(t)
  BY <1>9, <1>10 DEF CreateCheck, OpenCheck, OpenCreate, BeginCheck
<1>11. CASE DropCheck(t)
  BY <1>11, QuietLease DEF DropCheck
<1>12. CASE CreateAlloc(t)
  BY <1>12, QuietLease, NewBlockLease DEF CreateAlloc
<1>13. CASE BeginAlloc(t)
  <2>1. CASE UNCHANGED <<memory, txns>>
    BY <1>13, <2>1, QuietLease DEF BeginAlloc, client
  <2>2. ASSUME NEW a \in FreeAddr, field' = [field EXCEPT ![a] = NoFields],
               txns' = txns \cup {a}
        PROVE  LeaseStep
    <3>1. a \in Addr /\ a \notin Held
      BY FreshBlock DEF FreeAddr
    <3>2. Held' = Held \cup {a}
      BY <1>13, <2>2 DEF BeginAlloc, Held
    <3>3. Untouched(Held)
      BY SMTT(40), <2>2, <3>1 DEF Untouched, IInv, TypeOK
    <3> QED
      BY <3>1, <3>2, <3>3, LeaseAcquire DEF LeaseStep
  <2> QED
    BY <1>13, <2>1, <2>2 DEF BeginAlloc
<1> QED
  BY <1>1, <1>2, <1>3, <1>4, <1>5, <1>6, <1>7, <1>8, <1>10, <1>11, <1>12, <1>13 DEF Step

\* The library is a refinement of the abstract handles: whatever the threads
\* do inside epiphanydb_init, create_table, close_table, cleanup, commit and
\* rollback, clients see leases that are taken and given back atomically.
THEOREM Refinement == Spec => ImplementsLeases
<1>1. Init => Leases!LeaseInit
  BY DEF Init, Leases!LeaseInit, Held
<1>2. ASSUME IInv, IInv', [Next]_vars
      PROVE  LeaseStep
  <2>1. CASE Next
    BY <1>2, <2>1, CallLease, StepLease DEF Next
  <2>2. CASE UNCHANGED vars
    BY <2>2, QuietLease DEF vars, memory, client
  <2> QED
    BY <1>2, <2>1, <2>2
<1>3. IInv /\ IInv' /\ [Next]_vars => [Leases!LeaseNext]_([h \in Held |-> HandleBlocks(h)])
  BY <1>2 DEF LeaseStep
<1> QED
  BY <1>1, <1>3, Invariance, PTL DEF Spec, ImplementsLeases, Leases!LeaseSpec

=============================================================================
