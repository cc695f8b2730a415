------------------------- MODULE ExtensionFunctions --------------------------
(***************************************************************************)
(* The SQL functions of src/postgresql/contrib/epiphanydb/epiphanydb.c     *)
(* that take a table name, in one backend with the library loaded.         *)
(*                                                                         *)
(* epiphanydb_create_table_sql allocates three strings under PG_TRY.  Any  *)
(* step under PG_TRY may throw: palloc and elog run out of memory, and the *)
(* checks raise errors of their own.  A throw is a longjmp to the handler  *)
(* in PG_exception_stack.  The three locals are assigned between setjmp    *)
(* and longjmp and are not volatile, so in PG_CATCH each of them has the   *)
(* value it had at setjmp, null, or its last value, as the compiler likes. *)
(***************************************************************************)
EXTENDS Naturals, FiniteSets

CONSTANT Names     \* the table names that clients use, not empty

Empty == "empty"   \* the empty string, as a name or as a schema

ASSUME NameAssumption == Empty \notin Names

VARIABLES
    pc,        \* the place in epiphanydb_create_table_sql, or "idle"
    args,      \* the arguments of the call in progress
    block,     \* the palloc'ed strings: "none", "live" or "freed"
    handler,   \* PG_exception_stack: that of the caller or of the function
    fault,     \* history: a bad pfree, or a longjmp into a dead frame
    told       \* history: the names for which a call has returned true

functionsVars == <<pc, args, block, handler, fault, told>>

-----------------------------------------------------------------------------
(* Helpers *)

Engines == {"heap", "columnar", "vector", "timeseries", "graph"}

Locals == {"table_name", "schema_definition", "storage_type"}

Args == [name : Names \cup {Empty}, engine : Engines,
         schema : {Empty, "columns"}]

NoBlocks == [v \in Locals |-> "none"]
Live == {v \in Locals : block[v] = "live"}

\* pfree of the strings in S: they must be live.
Pfree(S) ==
    /\ block' = [v \in Locals |-> IF v \in S THEN "freed" ELSE block[v]]
    /\ fault' = (fault \/ \E v \in S : block[v] # "live")

\* ereport(ERROR): the handler is the function's or the caller's.  The handler
\* of a function that has returned is no handler.
Throw ==
    /\ pc' = IF handler = "local" THEN "catch" ELSE "abort"
    /\ UNCHANGED <<args, block, handler, fault, told>>

-----------------------------------------------------------------------------
(* Mutants *)

\* The function returns false for an empty name, from inside PG_TRY.
CheckReturns ==
    /\ pc = "check"
    /\ IF args.name = Empty
       THEN /\ pc' = "idle"
            /\ block' = NoBlocks
            /\ UNCHANGED <<args, handler, fault, told>>
       ELSE IF args.schema = Empty
       THEN Throw
       ELSE /\ pc' = "finish"
            /\ handler' = "caller"
            /\ UNCHANGED <<args, block, fault, told>>

\* PG_CATCH frees the locals whether or not they are null.
CatchUnchecked ==
    /\ pc = "catch"
    /\ handler' = "caller"
    /\ Pfree(Locals)
    /\ pc' = "abort"
    /\ UNCHANGED <<args, told>>

-----------------------------------------------------------------------------
(* epiphanydb_create_table_sql *)

FunctionsInit ==
    /\ pc = "idle"
    /\ args \in Args
    /\ block = NoBlocks
    /\ handler = "caller"
    /\ fault = FALSE
    /\ told = {}

\* STRICT: a call with a null argument does not get here.  The first message
\* may throw; then PG_TRY.
epiphanydb_create_table(a) ==
    /\ pc = "idle"
    /\ args' = a
    /\ block' = NoBlocks
    /\ \/ handler' = "local" /\ pc' = "table_name"
       \/ pc' = "abort" /\ UNCHANGED handler
    /\ UNCHANGED <<fault, told>>

\* text_to_cstring twice, then enum_out.  The value of the enum is one that
\* the parser has made, so enum_out finds it; it may still run out of memory.
Following ==
    [table_name |-> "schema_definition", schema_definition |-> "storage_type",
     storage_type |-> "check"]

Convert ==
    /\ pc \in Locals
    /\ \/ /\ block' = [block EXCEPT ![pc] = "live"]
          /\ pc' = Following[pc]
          /\ UNCHANGED <<args, handler, fault, told>>
       \/ Throw

\* The two checks, the messages (which may throw), and PG_END_TRY.
Check ==
    /\ pc = "check"
    /\ \/ Throw
       \/ /\ args.name # Empty /\ args.schema # Empty
          /\ handler' = "caller"
          /\ pc' = "finish"
          /\ UNCHANGED <<args, block, fault, told>>

\* PG_CATCH frees the locals that are not null as it sees them, and rethrows.
Catch ==
    /\ pc = "catch"
    /\ handler' = "caller"
    /\ \E seen \in SUBSET {v \in Locals : block[v] # "none"} : Pfree(seen)
    /\ pc' = "abort"
    /\ UNCHANGED <<args, told>>

\* The frees after PG_END_TRY; the function returns true.
Finish ==
    /\ pc = "finish"
    /\ Pfree({v \in Locals : block[v] # "none"})
    /\ told' = told \cup {args.name}
    /\ pc' = "idle"
    /\ UNCHANGED <<args, handler>>

\* The error reaches the main loop of the backend: the transaction is aborted
\* and its memory contexts are reset.  (external to the extension)
Abort ==
    /\ pc = "abort"
    /\ block' = NoBlocks
    /\ pc' = "idle"
    /\ UNCHANGED <<args, handler, fault, told>>

-----------------------------------------------------------------------------
(* The other functions *)

\* epiphanydb_get_table_storage_engine_sql, epiphanydb_get_table_stats_sql,
\* epiphanydb_vacuum_table_sql and epiphanydb_analyze_table_sql: one string,
\* freed again, unless a step throws (there is no PG_TRY: the abort frees the
\* string).  The first returns a text pointer, which the script declares to be
\* a storage_engine_type: enum_out may throw when it prints it.
WithName ==
    /\ pc = "idle"
    /\ \/ block' = [NoBlocks EXCEPT !["table_name"] = "freed"] /\ pc' = "idle"
       \/ block' = [NoBlocks EXCEPT !["table_name"] = "live"] /\ pc' = "abort"
       \/ block' = NoBlocks /\ pc' = "abort"
    /\ UNCHANGED <<args, handler, fault, told>>

FunctionsNext ==
    \/ \E a \in Args : epiphanydb_create_table(a)
    \/ Convert \/ Check \/ Catch \/ Finish \/ Abort
    \/ WithName

FunctionsSpec == FunctionsInit /\ [][FunctionsNext]_functionsVars

-----------------------------------------------------------------------------
(* Properties *)

\* Every variable has its type; success is told for names that are not empty.
FunctionsTypeOK ==
    /\ pc \in Locals \cup {"idle", "check", "finish", "catch", "abort"}
    /\ args \in Args
    /\ block \in [Locals -> {"none", "live", "freed"}]
    /\ handler \in {"caller", "local"}
    /\ fault \in BOOLEAN
    /\ told \subseteq Names

\* Whatever throws, and whichever values PG_CATCH sees in the locals, no string
\* is freed twice and nothing is freed that was not allocated.
NoBadPfree == ~ fault

\* Every way out of a call leaves the backend as it was.  Between two calls no
\* string of a call is allocated: the function frees all three when it
\* succeeds, and the abort of the transaction what is left.  Outside the
\* function PG_exception_stack is the caller's handler again.  And true is
\* returned only for a name that is not empty.
CleanExit ==
    /\ FunctionsTypeOK
    /\ pc = "idle" => Live = {}
    /\ pc \in {"idle", "abort"} => handler = "caller"
=============================================================================
