--------------------------- MODULE DataOperations ---------------------------
(***************************************************************************)
(* The calls of src/src/epiphanydb_core.c on open tables: the data, index  *)
(* and statistics operations, the name and message lookups, and the table  *)
(* calls as far as they decide which engine a handle belongs to.  Memory   *)
(* is the business of EpiphanyCore and is left out; here allocations       *)
(* succeed and one client makes one call after another.                    *)
(*                                                                         *)
(* The library keeps no catalogue and no rows, so its whole state is in    *)
(* the handles, and the client's in its index variable.                    *)
(***************************************************************************)
EXTENDS Integers

CONSTANTS
    Handles,    \* the table variables of the client
    Names,      \* table names
    TypeArgs,   \* storage_type arguments, in and out of range
    CodeArgs    \* error codes given to epiphanydb_error_message

ASSUME ArgsAssumption == TypeArgs \subseteq Int /\ CodeArgs \subseteq Int

VARIABLES
    open,       \* Handles -> what a handle denotes, or Closed
    index,      \* the client's EpiphanyDBIndex pointer
    last        \* the call that returned last

callsVars == <<open, index, last>>

-----------------------------------------------------------------------------
(* Constants of the code *)

STORAGE_HEAP == 0
STORAGE_MAX == 5

NumEngineNames == 5
NumErrorMessages == 8

-----------------------------------------------------------------------------
(* Lookups *)

\* Mutant of storage_engine_available: one engine too many.
AvailableUpToMax(type) == type >= 0 /\ type <= STORAGE_MAX

storage_engine_available(type) == type >= 0 /\ type < STORAGE_MAX

\* The position that is read in storage_engine_names, or -1 for "unknown".
storage_engine_name(type) == IF type >= 0 /\ type < STORAGE_MAX THEN type ELSE -1

\* The position read in error_messages, or -1 for "Unknown error code".
error_message(error) ==
    IF error >= 0 /\ error < NumErrorMessages THEN error ELSE -1

-----------------------------------------------------------------------------
(* Calls *)

Closed == [name |-> "", type |-> -1]
Unset == "unset"          \* a variable nobody has written
NullPtr == "null"

\* What a call reports: its name, the code, and the value that it returned or
\* wrote to its out-parameters.
Call(op, code, value) == [op |-> op, code |-> code, value |-> value]

\* A call that returns and writes no value.
Plain(op, code) == Call(op, code, Unset)

\* Checked(ok, ...): INVALID_PARAM without touching anything when a required
\* argument is null or a size is zero, and otherwise what the stub writes.
Checked(op, ok, value) ==
    IF ok THEN Call(op, "SUCCESS", value) ELSE Plain(op, "INVALID_PARAM")

IsOpen(h) == open[h] # Closed

CallsInit ==
    /\ open = [h \in Handles |-> Closed]
    /\ index = Unset
    /\ last = Plain("none", "SUCCESS")

\* epiphanydb_create_table once the context and the pointers are good.
create_table(h, n, type) ==
    /\ ~ IsOpen(h)
    /\ \/ /\ ~ storage_engine_available(type)
          /\ last' = Plain("create_table", "STORAGE_ENGINE")
          /\ UNCHANGED open
       \/ /\ storage_engine_available(type)
          /\ open' = [open EXCEPT ![h] = [name |-> n, type |-> type]]
          /\ last' = Plain("create_table", "SUCCESS")
    /\ UNCHANGED index

\* epiphanydb_open_table: a new table object of the heap engine.
open_table(h, n) ==
    /\ ~ IsOpen(h)
    /\ open' = [open EXCEPT ![h] = [name |-> n, type |-> STORAGE_HEAP]]
    /\ last' = Plain("open_table", "SUCCESS")
    /\ UNCHANGED index

close_table(h) ==
    /\ IsOpen(h)
    /\ open' = [open EXCEPT ![h] = Closed]
    /\ last' = Plain("close_table", "SUCCESS")
    /\ UNCHANGED index

\* epiphanydb_drop_table: there is no catalogue to drop from.
drop_table(ok) ==
    /\ last' = Checked("drop_table", ok, Unset)
    /\ UNCHANGED <<open, index>>

\* epiphanydb_insert; ok: data is not null and data_size is not zero.
insert(h, ok) ==
    /\ IsOpen(h)
    /\ last' = Checked("insert", ok, Unset)
    /\ UNCHANGED <<open, index>>

update(h, ok) ==
    /\ IsOpen(h)
    /\ last' = Checked("update", ok, Unset)
    /\ UNCHANGED <<open, index>>

delete(h, ok) ==
    /\ IsOpen(h)
    /\ last' = Checked("delete", ok, Unset)
    /\ UNCHANGED <<open, index>>

\* epiphanydb_select: *data = NULL and *data_size = 0, whatever the key.
select(h, ok) ==
    /\ IsOpen(h)
    /\ last' = Checked("select", ok, NullPtr)
    /\ UNCHANGED <<open, index>>

\* epiphanydb_create_index: *index = NULL.
create_index(h, ok) ==
    /\ IsOpen(h)
    /\ last' = Checked("create_index", ok, NullPtr)
    /\ index' = IF ok THEN NullPtr ELSE index
    /\ UNCHANGED open

\* epiphanydb_drop_index of the client's variable, once it has a value.
drop_index ==
    /\ index # Unset
    /\ last' = Checked("drop_index", index # NullPtr, Unset)
    /\ index' = Unset
    /\ UNCHANGED open

get_table_stats(h, ok) ==
    /\ IsOpen(h)
    /\ last' = Checked("get_table_stats", ok, 0)
    /\ UNCHANGED <<open, index>>

\* epiphanydb_vacuum_table, epiphanydb_analyze_table
maintain(op, h) ==
    /\ IsOpen(h)
    /\ last' = Plain(op, "SUCCESS")
    /\ UNCHANGED <<open, index>>

\* epiphanydb_storage_engine_name of a table's engine or of any number.
ask_name(type) ==
    /\ last' = Call("storage_engine_name", "SUCCESS", storage_engine_name(type))
    /\ UNCHANGED <<open, index>>

ask_message(error) ==
    /\ last' = Call("error_message", "SUCCESS", error_message(error))
    /\ UNCHANGED <<open, index>>

OnTable(h) ==
    \/ \E n \in Names :
          \/ \E type \in TypeArgs : create_table(h, n, type)
          \/ open_table(h, n)
    \/ close_table(h)
    \/ \E ok \in BOOLEAN :
          \/ insert(h, ok) \/ update(h, ok) \/ delete(h, ok) \/ select(h, ok)
          \/ create_index(h, ok) \/ get_table_stats(h, ok)
    \/ maintain("vacuum_table", h)
    \/ maintain("analyze_table", h)

CallsNext ==
    \/ \E h \in Handles : OnTable(h)
    \/ \E ok \in BOOLEAN : drop_table(ok)
    \/ drop_index
    \/ \E type \in TypeArgs : ask_name(type)
    \/ \E error \in CodeArgs : ask_message(error)

CallsSpec == CallsInit /\ [][CallsNext]_callsVars

-----------------------------------------------------------------------------
(* Properties *)

\* Every variable has its type: a table that is open has the name and the type
\* of an engine, however it was opened.
CallsTypeOK ==
    /\ open \in [Handles -> {Closed} \cup [name : Names, type : 0 .. STORAGE_MAX - 1]]
    /\ index \in {Unset, NullPtr}
    /\ last.code \in {"SUCCESS", "INVALID_PARAM", "STORAGE_ENGINE"}

\* The state is well typed, and however a handle came to be open, the type
\* stored in it names an engine: epiphanydb_storage_engine_name of it is never
\* "unknown".  Neither array is ever read past its end: not the names of the
\* engines, for a type in a table or any other, and not error_messages, for
\* any code.
LookupsInBounds ==
    /\ CallsTypeOK
    /\ \A h \in Handles : IsOpen(h) =>
          storage_engine_name(open[h].type) \in 0 .. NumEngineNames - 1
    /\ last.op = "storage_engine_name" => last.value \in -1 .. NumEngineNames - 1
    /\ last.op = "error_message" => last.value \in -1 .. NumErrorMessages - 1

=============================================================================
