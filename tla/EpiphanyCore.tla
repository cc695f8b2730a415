---------------------------- MODULE EpiphanyCore ----------------------------
(***************************************************************************)
(* The object lifecycles of src/src/epiphanydb_core.c: contexts, tables    *)
(* and transactions, at the grain of one malloc, strdup or free per step,  *)
(* with any number of threads inside the library at once.                  *)
(*                                                                         *)
(* The heap is flattened into one function per struct member: kind[a] says *)
(* which object lives at address a, field[a] holds the owning pointers     *)
(* stored in it, flag[a] its initialized / is_open / is_active member and  *)
(* context[a] the back pointer of a table or transaction.  malloc may fail *)
(* at any time and otherwise returns any free address, so an address just  *)
(* freed by one thread may be handed to another at once.                   *)
(*                                                                         *)
(* What clients hold is kept apart (contexts, tables, txns).  A client     *)
(* passes only handles it holds and passes a handle to one releasing call. *)
(* It releases a context only when no call it gave the context to has yet  *)
(* to read ctx->initialized: the library takes no lock and counts no       *)
(* references, so nothing else keeps such a read off freed memory.  It may *)
(* release the context while tables and transactions created from it are   *)
(* held, and while a call that is past its last read goes on with the      *)
(* address alone.                                                          *)
(***************************************************************************)
EXTENDS Integers, FiniteSets

CONSTANTS
    Addr,      \* the addresses malloc can return
    Threads,   \* the threads that call the library
    NULL,      \* the null pointer
    Caller,    \* a pointer to a string that belongs to the caller
    TypeArgs   \* the storage_type arguments that callers pass

ASSUME PointerAssumption ==
    /\ NULL \notin Addr
    /\ Caller \notin Addr
    /\ NULL # Caller

ASSUME TypeArgsAssumption == TypeArgs \subseteq Int

VARIABLES
    kind,      \* Addr -> what the block at an address is
    field,     \* Addr -> the owning pointers stored in the block
    flag,      \* Addr -> initialized, is_open or is_active
    context,   \* Addr -> the context a table or transaction points back to
    pc,        \* Threads -> where the call of a thread is
    obj,       \* Threads -> the object the call builds or takes apart
    conf,      \* Threads -> the EpiphanyDBConfig given to epiphanydb_init
    arg,       \* Threads -> the ctx argument of a call that was given one
    ret,       \* the code the last step returned, if it ended a call that has one
    contexts,  \* the context handles clients hold
    tables,    \* the table handles clients hold
    txns,      \* the transaction handles clients hold
    fault      \* the first undefined memory access, if there was one

memory == <<kind, field, flag, context>>
client == <<contexts, tables, txns>>
vars == <<kind, field, flag, context, pc, obj, conf, arg, ret,
          contexts, tables, txns, fault>>

-----------------------------------------------------------------------------
(* Types *)

Ptr == Addr \cup {NULL, Caller}
Kinds == {"free", "context", "table", "transaction", "bytes"}
Fields == {"data_directory", "log_directory", "shared_memory", "name"}
Codes == {"none", "SUCCESS", "INVALID_PARAM", "OUT_OF_MEMORY", "STORAGE_ENGINE"}

\* The members of EpiphanyDBConfig that epiphanydb_init looks at: the two
\* strings are null or the caller's, and the size is zero or not.
Config == [data_directory : {NULL, Caller},
           log_directory : {NULL, Caller},
           shared_memory_size : {0, 1}]

NoConfig == [data_directory |-> NULL, log_directory |-> NULL,
             shared_memory_size |-> 0]
NoFields == [f \in Fields |-> NULL]

Steps == {"idle",
          "init_data", "init_log", "init_shm",
          "undo_log", "undo_data", "undo_context",
          "clean_shm", "clean_data", "clean_log", "clean_context",
          "create_check", "open_check", "open_create", "drop_check", "begin_check",
          "create_alloc", "begin_alloc",
          "create_name", "undo_table",
          "close_name", "close_table",
          "end_txn"}

\* Where a call has still to read ctx->initialized, and where it has no object
\* of its own yet.
Looks == {"create_check", "open_check", "open_create", "drop_check", "begin_check"}
Empty == {"idle", "create_alloc", "begin_alloc"} \cup Looks

\* Every variable has its type: the flattened heap, the calls in progress and
\* the handles of the clients.
TypeOK ==
    /\ kind \in [Addr -> Kinds]
    /\ field \in [Addr -> [Fields -> Ptr]]
    /\ flag \in [Addr -> BOOLEAN]
    /\ context \in [Addr -> Addr \cup {NULL}]
    /\ pc \in [Threads -> Steps]
    /\ obj \in [Threads -> Addr \cup {NULL}]
    /\ conf \in [Threads -> Config]
    /\ arg \in [Threads -> Addr \cup {NULL}]
    /\ ret \in Codes
    /\ contexts \in SUBSET Addr
    /\ tables \in SUBSET Addr
    /\ txns \in SUBSET Addr
    /\ fault \in {"none", "use_after_free", "bad_free"}

Init ==
    /\ kind = [a \in Addr |-> "free"]
    /\ field = [a \in Addr |-> NoFields]
    /\ flag = [a \in Addr |-> FALSE]
    /\ context = [a \in Addr |-> NULL]
    /\ pc = [t \in Threads |-> "idle"]
    /\ obj = [t \in Threads |-> NULL]
    /\ conf = [t \in Threads |-> NoConfig]
    /\ arg = [t \in Threads |-> NULL]
    /\ ret = "none"
    /\ contexts = {} /\ tables = {} /\ txns = {}
    /\ fault = "none"

-----------------------------------------------------------------------------
(* malloc, free and returning from a call *)

FreeAddr == {a \in Addr : kind[a] = "free"}

\* malloc returned a and the caller has cleared and filled the block.
NewBlock(a, k, fields) ==
    /\ kind' = [kind EXCEPT ![a] = k]
    /\ field' = [field EXCEPT ![a] = fields]
    /\ UNCHANGED <<flag, context>>

\* free(p): the block is given back and its contents are gone.
Free(p) ==
    /\ kind' = [a \in Addr |-> IF a = p THEN "free" ELSE kind[a]]
    /\ field' = [a \in Addr |-> IF a = p THEN NoFields ELSE field[a]]
    /\ flag' = [a \in Addr |-> IF a = p THEN FALSE ELSE flag[a]]
    /\ context' = [a \in Addr |-> IF a = p THEN NULL ELSE context[a]]

\* free(NULL) does nothing; anything else must be a live block of the heap.
MayFree(p) == p = NULL \/ (p \in Addr /\ kind[p] # "free")

\* What an access of the object o, then a free of p, does to fault.
FaultOf(o, p) ==
    IF fault # "none" THEN fault
    ELSE IF o \in Addr /\ kind[o] = "free" THEN "use_after_free"
    ELSE IF ~ MayFree(p) THEN "bad_free"
    ELSE "none"

Goto(t, step) == pc' = [pc EXCEPT ![t] = step] /\ ret' = "none"

Return(t, code) ==
    /\ pc' = [pc EXCEPT ![t] = "idle"]
    /\ obj' = [obj EXCEPT ![t] = NULL]
    /\ conf' = [conf EXCEPT ![t] = NoConfig]
    /\ arg' = [arg EXCEPT ![t] = NULL]
    /\ ret' = code

\* obj->f = strdup(...) or malloc(...) in the call of t; then on to next, or
\* to undo when there is no memory.
AllocField(t, f, next, undo) ==
    /\ \/ \E a \in FreeAddr :
             /\ kind' = [kind EXCEPT ![a] = "bytes"]
             /\ field' = [field EXCEPT ![obj[t]][f] = a]
             /\ Goto(t, next)
       \/ /\ field' = [field EXCEPT ![obj[t]][f] = NULL]
          /\ Goto(t, undo)
          /\ UNCHANGED kind
    /\ fault' = FaultOf(obj[t], NULL)
    /\ UNCHANGED <<flag, context, obj, conf, arg, client>>

\* free(obj->f), or if (obj->f) free(obj->f), which is the same.
FreeField(t, f, next) ==
    /\ Free(field[obj[t]][f])
    /\ fault' = FaultOf(obj[t], field[obj[t]][f])
    /\ Goto(t, next)
    /\ UNCHANGED <<obj, conf, arg, client>>

\* free(obj) as the last thing a call does.  A memset of the block just
\* before it is part of Free, which forgets the contents.
FreeObj(t, code) ==
    /\ Free(obj[t])
    /\ fault' = FaultOf(obj[t], obj[t])
    /\ Return(t, code)
    /\ UNCHANGED client

-----------------------------------------------------------------------------
(* epiphanydb_init *)

\* ctx or config is null.
InitReject(t) ==
    /\ pc[t] = "idle"
    /\ Return(t, "INVALID_PARAM")
    /\ UNCHANGED <<memory, client, fault>>

\* Clear the struct, then context->config = *config: the copy is shallow, so
\* the string members are the caller's pointers until they are duplicated.
InitFields(c) == [NoFields EXCEPT !["data_directory"] = c.data_directory,
                                  !["log_directory"] = c.log_directory]

InitContext(t, c) ==
    /\ pc[t] = "idle"
    /\ \/ /\ Return(t, "OUT_OF_MEMORY")
          /\ UNCHANGED memory
       \/ /\ \E a \in FreeAddr :
               /\ NewBlock(a, "context", InitFields(c))
               /\ obj' = [obj EXCEPT ![t] = a]
          /\ conf' = [conf EXCEPT ![t] = c]
          /\ Goto(t, "init_data")
          /\ UNCHANGED arg
    /\ UNCHANGED <<client, fault>>

\* Mutant of InitData: a strdup that is tried again until there is memory.
InitDataRetry(t) ==
    /\ pc[t] = "init_data"
    /\ \/ /\ conf[t].data_directory # NULL
          /\ AllocField(t, "data_directory", "init_log", "init_data")
       \/ /\ conf[t].data_directory = NULL
          /\ Goto(t, "init_log")
          /\ UNCHANGED <<memory, obj, conf, arg, client, fault>>

InitData(t) ==
    /\ pc[t] = "init_data"
    /\ \/ /\ conf[t].data_directory # NULL
          /\ AllocField(t, "data_directory", "init_log", "undo_context")
       \/ /\ conf[t].data_directory = NULL
          /\ Goto(t, "init_log")
          /\ UNCHANGED <<memory, obj, conf, arg, client, fault>>

\* Mutant of InitLog: the failed strdup of the log directory forgets the data
\* directory.
InitLogLeak(t) ==
    /\ pc[t] = "init_log"
    /\ \/ /\ conf[t].log_directory # NULL
          /\ AllocField(t, "log_directory", "init_shm", "undo_context")
       \/ /\ conf[t].log_directory = NULL
          /\ Goto(t, "init_shm")
          /\ UNCHANGED <<memory, obj, conf, arg, client, fault>>

InitLog(t) ==
    /\ pc[t] = "init_log"
    /\ \/ /\ conf[t].log_directory # NULL
          /\ AllocField(t, "log_directory", "init_shm", "undo_data")
       \/ /\ conf[t].log_directory = NULL
          /\ Goto(t, "init_shm")
          /\ UNCHANGED <<memory, obj, conf, arg, client, fault>>

\* initialized = true; *ctx = context; return EPIPHANYDB_SUCCESS
InitPublish(t) ==
    /\ flag' = [flag EXCEPT ![obj[t]] = TRUE]
    /\ contexts' = contexts \cup {obj[t]}
    /\ Return(t, "SUCCESS")
    /\ UNCHANGED <<context, tables, txns>>

\* Mutant of InitShm: *ctx is written before the result of malloc is looked at.
InitShmEarly(t) ==
    /\ pc[t] = "init_shm"
    /\ \/ /\ conf[t].shared_memory_size > 0
          /\ \E a \in FreeAddr :
               /\ kind' = [kind EXCEPT ![a] = "bytes"]
               /\ field' = [field EXCEPT ![obj[t]]["shared_memory"] = a]
          /\ InitPublish(t)
       \/ /\ conf[t].shared_memory_size > 0
          /\ contexts' = contexts \cup {obj[t]}
          /\ flag' = [flag EXCEPT ![obj[t]] = TRUE]
          /\ Goto(t, "undo_log")
          /\ UNCHANGED <<kind, field, context, obj, conf, arg, tables, txns>>
       \/ /\ conf[t].shared_memory_size = 0
          /\ InitPublish(t)
          /\ UNCHANGED <<kind, field>>
    /\ fault' = FaultOf(obj[t], NULL)

InitShm(t) ==
    /\ pc[t] = "init_shm"
    /\ \/ \* shared_memory = malloc(shared_memory_size)
          /\ conf[t].shared_memory_size > 0
          /\ \E a \in FreeAddr :
               /\ kind' = [kind EXCEPT ![a] = "bytes"]
               /\ field' = [field EXCEPT ![obj[t]]["shared_memory"] = a]
          /\ InitPublish(t)
       \/ \* no memory: shared_memory stays null
          /\ conf[t].shared_memory_size > 0
          /\ Goto(t, "undo_log")
          /\ UNCHANGED <<memory, obj, conf, arg, client>>
       \/ /\ conf[t].shared_memory_size = 0
          /\ InitPublish(t)
          /\ UNCHANGED <<kind, field>>
    /\ fault' = FaultOf(obj[t], NULL)

UndoLog(t) == pc[t] = "undo_log" /\ FreeField(t, "log_directory", "undo_data")
UndoData(t) == pc[t] = "undo_data" /\ FreeField(t, "data_directory", "undo_context")
UndoContext(t) == pc[t] = "undo_context" /\ FreeObj(t, "OUT_OF_MEMORY")

-----------------------------------------------------------------------------
(* epiphanydb_cleanup *)

Cleanup(t, ctx) ==
    /\ pc[t] = "idle"
    /\ contexts' = contexts \ {ctx}
    /\ obj' = [obj EXCEPT ![t] = ctx]
    /\ Goto(t, "clean_shm")
    /\ UNCHANGED <<memory, conf, arg, tables, txns, fault>>

CleanShm(t) == pc[t] = "clean_shm" /\ FreeField(t, "shared_memory", "clean_data")
CleanData(t) == pc[t] = "clean_data" /\ FreeField(t, "data_directory", "clean_log")
CleanLog(t) == pc[t] = "clean_log" /\ FreeField(t, "log_directory", "clean_context")
CleanContext(t) == pc[t] = "clean_context" /\ FreeObj(t, "none")

-----------------------------------------------------------------------------
(* Tables *)

STORAGE_HEAP == 0
STORAGE_MAX == 5

storage_engine_available(type) == type >= 0 /\ type < STORAGE_MAX

\* The null checks every entry point that takes a context starts with; ok says
\* that the other pointer arguments are not null.
Enter(t, ctx, ok, next) ==
    /\ pc[t] = "idle"
    /\ \/ /\ ctx = NULL \/ ~ ok
          /\ Return(t, "INVALID_PARAM")
       \/ /\ ctx # NULL /\ ok
          /\ arg' = [arg EXCEPT ![t] = ctx]
          /\ Goto(t, next)
          /\ UNCHANGED <<obj, conf>>
    /\ UNCHANGED <<memory, client, fault>>

\* if (!ctx->initialized), alone and followed by the check of the engine.
ContextCode(ctx) == IF flag[ctx] THEN "SUCCESS" ELSE "INVALID_PARAM"
CreateCode(ctx, type) ==
    IF ContextCode(ctx) = "SUCCESS" /\ ~ storage_engine_available(type)
    THEN "STORAGE_ENGINE"
    ELSE ContextCode(ctx)

\* A read of the context of the call of t came out as code: on to next, or out.
Look(t, code, next) ==
    /\ IF code = "SUCCESS"
       THEN Goto(t, next) /\ UNCHANGED <<obj, conf, arg>>
       ELSE Return(t, code)
    /\ fault' = FaultOf(arg[t], NULL)
    /\ UNCHANGED <<memory, client>>

CreateTable(t, ctx, ok) == Enter(t, ctx, ok, "create_check")

\* The checks behind the null checks.  The storage_type argument is chosen
\* here, where it is first looked at.
CreateCheck(t, type) ==
    pc[t] = "create_check" /\ Look(t, CreateCode(arg[t], type), "create_alloc")

\* new_table = malloc(sizeof(EpiphanyDBTable)).  ctx stays in arg: it is
\* written into the new table after the name has been duplicated.
CreateAlloc(t) ==
    /\ pc[t] = "create_alloc"
    /\ \/ /\ Return(t, "OUT_OF_MEMORY")
          /\ UNCHANGED memory
       \/ /\ \E a \in FreeAddr :
               /\ NewBlock(a, "table", NoFields)
               /\ obj' = [obj EXCEPT ![t] = a]
          /\ Goto(t, "create_name")
          /\ UNCHANGED <<conf, arg>>
    /\ UNCHANGED <<client, fault>>

\* epiphanydb_open_table reads initialized itself, then calls
\* epiphanydb_create_table with the heap engine, which reads it again.
OpenTable(t, ctx, ok) == Enter(t, ctx, ok, "open_check")
OpenCheck(t) == pc[t] = "open_check" /\ Look(t, ContextCode(arg[t]), "open_create")
OpenCreate(t) ==
    pc[t] = "open_create" /\ Look(t, CreateCode(arg[t], STORAGE_HEAP), "create_alloc")

\* Mutant of CreateName: is_open is left as memset made it.
CreateNameClosed(t) ==
    /\ pc[t] = "create_name"
    /\ \/ \E a \in FreeAddr :
             /\ kind' = [kind EXCEPT ![a] = "bytes"]
             /\ field' = [field EXCEPT ![obj[t]]["name"] = a]
             /\ context' = [context EXCEPT ![obj[t]] = arg[t]]
             /\ tables' = tables \cup {obj[t]}
             /\ Return(t, "SUCCESS")
             /\ UNCHANGED flag
       \/ /\ Goto(t, "undo_table")
          /\ UNCHANGED <<memory, obj, conf, arg, tables>>
    /\ fault' = FaultOf(obj[t], NULL)
    /\ UNCHANGED <<contexts, txns>>

\* Mutant of CreateName: it looks at the context again before it stores it.
CreateNameLooks(t) ==
    /\ pc[t] = "create_name"
    /\ \/ \E a \in FreeAddr :
             /\ kind' = [kind EXCEPT ![a] = "bytes"]
             /\ field' = [field EXCEPT ![obj[t]]["name"] = a]
             /\ context' = [context EXCEPT ![obj[t]] = arg[t]]
             /\ flag' = [flag EXCEPT ![obj[t]] = TRUE]
             /\ tables' = tables \cup {obj[t]}
             /\ Return(t, "SUCCESS")
             /\ fault' = FaultOf(arg[t], NULL)
       \/ /\ Goto(t, "undo_table")
          /\ UNCHANGED <<memory, obj, conf, arg, tables, fault>>
    /\ UNCHANGED <<contexts, txns>>

CreateName(t) ==
    /\ pc[t] = "create_name"
    /\ \/ \E a \in FreeAddr :
             /\ kind' = [kind EXCEPT ![a] = "bytes"]
             /\ field' = [field EXCEPT ![obj[t]]["name"] = a]
             /\ context' = [context EXCEPT ![obj[t]] = arg[t]]
             /\ flag' = [flag EXCEPT ![obj[t]] = TRUE]
             /\ tables' = tables \cup {obj[t]}
             /\ Return(t, "SUCCESS")
       \/ /\ Goto(t, "undo_table")
          /\ UNCHANGED <<memory, obj, conf, arg, tables>>
    /\ fault' = FaultOf(obj[t], NULL)
    /\ UNCHANGED <<contexts, txns>>

UndoTable(t) == pc[t] = "undo_table" /\ FreeObj(t, "OUT_OF_MEMORY")

CloseTable(t, tab) ==
    /\ pc[t] = "idle"
    /\ tables' = tables \ {tab}
    /\ obj' = [obj EXCEPT ![t] = tab]
    /\ Goto(t, "close_name")
    /\ UNCHANGED <<memory, conf, arg, contexts, txns, fault>>

CloseName(t) == pc[t] = "close_name" /\ FreeField(t, "name", "close_table")
CloseFree(t) == pc[t] = "close_table" /\ FreeObj(t, "none")

\* The checks and nothing else: there is no catalogue to drop from.
DropTable(t, ctx, ok) == Enter(t, ctx, ok, "drop_check")
DropCheck(t) ==
    /\ pc[t] = "drop_check"
    /\ Return(t, ContextCode(arg[t]))
    /\ fault' = FaultOf(arg[t], NULL)
    /\ UNCHANGED <<memory, client>>

-----------------------------------------------------------------------------
(* Transactions *)

BeginTransaction(t, ctx, ok) == Enter(t, ctx, ok, "begin_check")
BeginCheck(t) == pc[t] = "begin_check" /\ Look(t, ContextCode(arg[t]), "begin_alloc")

\* malloc(sizeof(EpiphanyDBTransaction)), filled in and handed over.
BeginAlloc(t) ==
    /\ pc[t] = "begin_alloc"
    /\ \/ /\ Return(t, "OUT_OF_MEMORY")
          /\ UNCHANGED <<memory, txns>>
       \/ /\ \E a \in FreeAddr :
               /\ kind' = [kind EXCEPT ![a] = "transaction"]
               /\ field' = [field EXCEPT ![a] = NoFields]
               /\ context' = [context EXCEPT ![a] = arg[t]]
               /\ flag' = [flag EXCEPT ![a] = TRUE]
               /\ txns' = txns \cup {a}
          /\ Return(t, "SUCCESS")
    /\ UNCHANGED <<contexts, tables, fault>>

\* !txn || !txn->is_active
NotActive(txn) == IF txn = NULL THEN TRUE ELSE ~ flag[txn]

\* The body that commit and rollback share: check is_active, clear it, and
\* free the transaction in the next step.
EndTransaction(t, txn) ==
    /\ pc[t] = "idle"
    /\ \/ /\ NotActive(txn)
          /\ Return(t, "INVALID_PARAM")
          /\ UNCHANGED flag
       \/ /\ ~ NotActive(txn)
          /\ flag' = [flag EXCEPT ![txn] = FALSE]
          /\ obj' = [obj EXCEPT ![t] = txn]
          /\ Goto(t, "end_txn")
          /\ UNCHANGED <<conf, arg>>
    /\ txns' = txns \ {txn}
    /\ fault' = FaultOf(txn, NULL)
    /\ UNCHANGED <<kind, field, context, contexts, tables>>

CommitTransaction(t, txn) == EndTransaction(t, txn)
RollbackTransaction(t, txn) == EndTransaction(t, txn)

EndFree(t) == pc[t] = "end_txn" /\ FreeObj(t, "SUCCESS")

-----------------------------------------------------------------------------
(* The specification *)

\* No call that was given the context has still to look at it.
LookedAt(ctx) == \A u \in Threads : arg[u] = ctx => pc[u] \notin Looks

\* A new call of thread t.
Call(t) ==
    \/ InitReject(t)
    \/ \E c \in Config : InitContext(t, c)
    \/ \E ctx \in contexts : LookedAt(ctx) /\ Cleanup(t, ctx)
    \/ \E ctx \in contexts \cup {NULL}, ok \in BOOLEAN :
          \/ CreateTable(t, ctx, ok)
          \/ OpenTable(t, ctx, ok)
          \/ DropTable(t, ctx, ok)
          \/ BeginTransaction(t, ctx, ok)
    \/ \E tab \in tables : CloseTable(t, tab)
    \/ \E txn \in txns \cup {NULL} :
          \/ CommitTransaction(t, txn)
          \/ RollbackTransaction(t, txn)

\* The next step of the call that thread t is in.
Step(t) ==
    \/ InitData(t) \/ InitLog(t) \/ InitShm(t)
    \/ UndoLog(t) \/ UndoData(t) \/ UndoContext(t)
    \/ CleanShm(t) \/ CleanData(t) \/ CleanLog(t) \/ CleanContext(t)
    \/ (\E type \in TypeArgs : CreateCheck(t, type)) \/ CreateAlloc(t)
    \/ OpenCheck(t) \/ OpenCreate(t) \/ DropCheck(t)
    \/ BeginCheck(t) \/ BeginAlloc(t)
    \/ CreateName(t) \/ UndoTable(t)
    \/ CloseName(t) \/ CloseFree(t)
    \/ EndFree(t)

Next == \E t \in Threads : Call(t) \/ Step(t)

Spec == Init /\ [][Next]_vars

\* Threads inside the library are scheduled: there is no lock to wait for.
FairSpec == Spec /\ \A t \in Threads : WF_vars(Step(t))

-----------------------------------------------------------------------------
(* Ownership *)

\* The members of obj[t] that the rest of the call still has to free, or to
\* hand over with the object.
Owed(step) ==
    {f \in Fields :
       \/ /\ f = "data_directory"
          /\ step \in {"init_log", "init_shm", "undo_log", "undo_data",
                      "clean_shm", "clean_data"}
       \/ /\ f = "log_directory"
          /\ step \in {"init_shm", "undo_log", "clean_shm", "clean_data", "clean_log"}
       \/ f = "shared_memory" /\ step = "clean_shm"
       \/ f = "name" /\ step = "close_name"}

Held == contexts \cup tables \cup txns
Busy == {t \in Threads : pc[t] \notin Empty}

\* The blocks behind a handle, and behind a call that has an object.
Blocks(h, members) == ({h} \cup {field[h][f] : f \in members}) \ {NULL}
HandleBlocks(h) == Blocks(h, Fields)
CallBlocks(t) == Blocks(obj[t], Owed(pc[t]))

-----------------------------------------------------------------------------
(* Properties *)

\* No step of any call touches a freed block, frees one twice or frees a
\* string of the caller: not in the rollback paths of epiphanydb_init, not
\* when tables and transactions are closed after their context is gone, not
\* when the address just freed already belongs to another thread, and not
\* when a context is released right behind the last of the reads that the
\* calls given it make, while they still have to store its address.
NoFault == fault = "none"

\* The state is well typed, and the live blocks are exactly those that a held
\* handle or a call in progress accounts for: no exit path of any call leaks a
\* block, and no handle holds a dangling pointer or a pointer to a string of
\* the caller.
Conservation ==
    /\ TypeOK
    /\ {a \in Addr : kind[a] # "free"} =
          (UNION {HandleBlocks(h) : h \in Held}) \cup (UNION {CallBlocks(t) : t \in Busy})

\* No block has two owners, so what one thread frees is never behind another
\* handle, in another call or in a second member of the same object.
SingleOwner ==
    /\ \A h \in Held, t \in Busy : HandleBlocks(h) \cap CallBlocks(t) = {}
    /\ \A h, g \in Held : h # g => HandleBlocks(h) \cap HandleBlocks(g) = {}
    /\ \A t, u \in Busy : t # u => CallBlocks(t) \cap CallBlocks(u) = {}
    /\ \A h \in Held, f, g \in Fields :
          field[h][f] = field[h][g] => f = g \/ field[h][f] = NULL

\* A handle that a client holds is a finished object of its own type: the
\* context is initialized, the table open and named, the transaction active.
HandlesUsable ==
    /\ \A h \in contexts : kind[h] = "context" /\ flag[h]
    /\ \A h \in tables : kind[h] = "table" /\ flag[h] /\ field[h]["name"] # NULL
    /\ \A h \in txns : kind[h] = "transaction" /\ flag[h]

\* Every call returns, whether or not there is memory.
CallsReturn == \A t \in Threads : pc[t] # "idle" ~> pc[t] = "idle"

\* The library implements the abstract handles of HandleLeases: the steps
\* inside a call are invisible, a handle appears with all its blocks at once
\* and disappears at once, and in between no call of any thread changes what
\* stands behind it.
Leases == INSTANCE HandleLeases WITH
    Block <- Addr,
    lease <- [h \in Held |-> HandleBlocks(h)]

ImplementsLeases == Leases!LeaseSpec

=============================================================================
