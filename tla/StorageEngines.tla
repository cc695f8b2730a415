--------------------------- MODULE StorageEngines ---------------------------
(***************************************************************************)
(* The engines of src/src/storage/: their init, cleanup and create_table   *)
(* functions, the only ones that allocate memory or touch a file.          *)
(*                                                                         *)
(* The five create_table functions have one shape.  A table struct is      *)
(* allocated and not cleared; its members are allocated in turn, each a    *)
(* strdup whose result is not looked at or a path buffer that sprintf      *)
(* fills at once; the heap engine creates its file; everything is freed.   *)
(* The engines differ in the list of members and in the order of the       *)
(* frees, so each is a record and the steps are shared.                    *)
(*                                                                         *)
(* Blocks are told apart by the call and the member that holds them.       *)
(* Writing through a null pointer ends the process; it may be started      *)
(* again, and then only the files are left.                                *)
(***************************************************************************)
EXTENDS Naturals, Sequences

CONSTANTS
    Threads,    \* threads that call the engines
    NameLens,   \* lengths of table names; a name is known by its length
    MaxInits    \* bound on the number of storage_init calls in one process

ASSUME EngineAssumption == NameLens \subseteq Nat /\ MaxInits \in Nat

VARIABLES
    pc,         \* Threads -> "idle", "alloc", "fopen" or "free"
    call,       \* Threads -> the engine and the name of the create_table call
    at,         \* Threads -> position in the members, or in the frees
    slot,       \* Threads -> what the table struct and its members hold
    code,       \* Threads -> the code the call will return
    exact,      \* every path was as long as its buffer
    badFree,    \* a free of something that is not an allocated block
    inits,      \* successful storage_init calls that no cleanup has followed
    kept,       \* blocks that storage_init calls have left behind
    started,    \* storage_init calls so far
    files,      \* heap files on disk
    created,    \* names for which heap_create_table has returned SUCCESS
    crashed     \* the process has died

threadVars == <<pc, call, at, slot, code>>
vars == <<pc, call, at, slot, code, exact, badFree, inits, kept,
          started, files, created, crashed>>

-----------------------------------------------------------------------------
(* The engines *)

Engines == {"heap", "columnar", "vector", "timeseries", "graph"}

\* member = strdup(...), unchecked.
Dup == [path |-> FALSE, base |-> 0, ext |-> 0, format |-> 0]

\* member = malloc(base + strlen(name) + ext + 1), and then sprintf with a
\* format that has this many characters beside the name.
Path(base, ext, format) == [path |-> TRUE, base |-> base, ext |-> ext, format |-> format]

\* An engine: the members of its table in the order of their allocation,
\* the order of the frees (0 is the table struct itself), the number of
\* strings its context holds, and whether create_table makes a file.
heap == [members |-> <<Dup, Path(12, 5, 17)>>,
         frees |-> <<1, 2, 0>>, strings |-> 1, file |-> TRUE]

columnar == [members |-> <<Dup>>,
             frees |-> <<1, 0>>, strings |-> 1, file |-> FALSE]

\* Mutant of vector: the distance metric is not freed.
vectorKeepsMetric ==
    [members |-> <<Dup, Dup, Path(14, 8, 22), Path(14, 9, 23), Path(14, 6, 20)>>,
     frees |-> <<1, 3, 4, 5, 0>>, strings |-> 2, file |-> FALSE]

vector == [members |-> <<Dup, Dup, Path(14, 8, 22), Path(14, 9, 23), Path(14, 6, 20)>>,
           frees |-> <<1, 3, 4, 5, 2, 0>>, strings |-> 2, file |-> FALSE]

timeseries == [members |-> <<Dup, Path(18, 5, 23), Path(18, 6, 24)>>,
               frees |-> <<1, 2, 3, 0>>, strings |-> 1, file |-> FALSE]

\* Mutant of graph: the properties file is freed in place of the edges file.
graphFreesTwice ==
    [members |-> <<Dup, Path(13, 9, 22), Path(13, 6, 19), Path(13, 11, 24), Path(13, 5, 18)>>,
     frees |-> <<1, 2, 4, 4, 5, 0>>, strings |-> 2, file |-> FALSE]

graph == [members |-> <<Dup, Path(13, 9, 22), Path(13, 6, 19), Path(13, 11, 24), Path(13, 5, 18)>>,
          frees |-> <<1, 2, 3, 4, 5, 0>>, strings |-> 2, file |-> FALSE]

Engine(e) ==
    [heap |-> heap, columnar |-> columnar, vector |-> vector,
     timeseries |-> timeseries, graph |-> graph][e]

Members(e) == Engine(e).members
Frees(e) == Engine(e).frees

\* Mutant of Size: no room for the terminator.
SizeNoTerminator(m, n) == m.base + n + m.ext

Size(m, n) == m.base + n + m.ext + 1
Written(m, n) == m.format + n + 1

Slots == 0 .. 5
NoCall == [engine |-> "columnar", len |-> 0]

-----------------------------------------------------------------------------
(* storage_init, storage_cleanup *)

Init ==
    /\ pc = [t \in Threads |-> "idle"]
    /\ call = [t \in Threads |-> NoCall]
    /\ at = [t \in Threads |-> 0]
    /\ slot = [t \in Threads |-> [i \in Slots |-> "unset"]]
    /\ code = [t \in Threads |-> "SUCCESS"]
    /\ exact = TRUE
    /\ badFree = FALSE
    /\ inits = 0
    /\ kept = 0
    /\ started = 0
    /\ files = {}
    /\ created = {}
    /\ crashed = FALSE

\* The context and the strings that were allocated are reachable only from a
\* local variable that goes out of scope.
storage_init(t, e) ==
    /\ pc[t] = "idle"
    /\ started < MaxInits
    /\ started' = started + 1
    /\ \/ /\ UNCHANGED <<inits, kept>>           \* EPIPHANYDB_ERROR_MEMORY
       \/ /\ \E strings \in 0 .. Engine(e).strings : kept' = kept + 1 + strings
          /\ inits' = inits + 1
    /\ UNCHANGED <<threadVars, exact, badFree, files, created, crashed>>

\* Returns EPIPHANYDB_SUCCESS and does nothing else.
storage_cleanup(t, e) ==
    /\ pc[t] = "idle"
    /\ inits > 0
    /\ inits' = inits - 1
    /\ UNCHANGED <<threadVars, exact, badFree, kept, started, files,
                   created, crashed>>

-----------------------------------------------------------------------------
(* create_table *)

\* malloc(sizeof(table)): the struct is not cleared.
CreateTable(t, e, n) ==
    /\ pc[t] = "idle"
    /\ \/ /\ code' = [code EXCEPT ![t] = "MEMORY"]
          /\ UNCHANGED <<pc, call, at, slot>>
       \/ /\ slot' = [slot EXCEPT ![t] = [i \in Slots |-> IF i = 0 THEN "live" ELSE "unset"]]
          /\ call' = [call EXCEPT ![t] = [engine |-> e, len |-> n]]
          /\ at' = [at EXCEPT ![t] = 1]
          /\ pc' = [pc EXCEPT ![t] = "alloc"]
          /\ code' = [code EXCEPT ![t] = "SUCCESS"]
    /\ UNCHANGED <<exact, badFree, inits, kept, started, files, created, crashed>>

\* The process dies of a write through a null pointer: every call is over
\* and every block is gone.
Crash ==
    /\ crashed' = TRUE
    /\ pc' = [t \in Threads |-> "idle"]
    /\ call' = [t \in Threads |-> NoCall]
    /\ at' = [t \in Threads |-> 0]
    /\ slot' = [t \in Threads |-> [i \in Slots |-> "unset"]]
    /\ code' = [t \in Threads |-> "SUCCESS"]
    /\ inits' = 0 /\ kept' = 0 /\ started' = 0
    /\ UNCHANGED <<exact, badFree, files, created>>

\* On to the next member, to the file or to the frees.
Advance(t) ==
    LET e == call[t].engine IN
    IF at[t] < Len(Members(e))
    THEN /\ at' = [at EXCEPT ![t] = at[t] + 1]
         /\ UNCHANGED pc
    ELSE /\ at' = [at EXCEPT ![t] = 1]
         /\ pc' = [pc EXCEPT ![t] = IF Engine(e).file THEN "fopen" ELSE "free"]

AllocMember(t) ==
    LET m == Members(call[t].engine)[at[t]] IN
    /\ pc[t] = "alloc"
    /\ \/ /\ slot' = [slot EXCEPT ![t][at[t]] = "live"]
          /\ exact' = (exact /\ (m.path => Written(m, call[t].len) = Size(m, call[t].len)))
          /\ Advance(t)
          /\ UNCHANGED <<call, code, badFree, inits, kept, started, files,
                         created, crashed>>
       \/ /\ ~ m.path
          /\ slot' = [slot EXCEPT ![t][at[t]] = "null"]
          /\ Advance(t)
          /\ UNCHANGED <<call, code, exact, badFree, inits, kept, started, files,
                         created, crashed>>
       \/ /\ m.path
          /\ Crash

\* Mutant of OpenFile: the result of fopen is not looked at.
OpenFileUnchecked(t) ==
    /\ pc[t] = "fopen"
    /\ files' \in {files, files \cup {call[t].len}}
    /\ pc' = [pc EXCEPT ![t] = "free"]
    /\ UNCHANGED <<call, at, slot, code, exact, badFree, inits, kept, started,
                   created, crashed>>

\* fopen(path, "w+b") and fclose, or EPIPHANYDB_ERROR_IO.
OpenFile(t) ==
    /\ pc[t] = "fopen"
    /\ \/ /\ files' = files \cup {call[t].len}
          /\ UNCHANGED code
       \/ /\ code' = [code EXCEPT ![t] = "IO"]
          /\ UNCHANGED files
    /\ pc' = [pc EXCEPT ![t] = "free"]
    /\ UNCHANGED <<call, at, slot, exact, badFree, inits, kept, started,
                   created, crashed>>

\* free(member) or, at last, free(table) and the return.
FreeMember(t) ==
    LET e == call[t].engine
        i == Frees(e)[at[t]]
    IN
    /\ pc[t] = "free"
    /\ badFree' = (badFree \/ slot[t][i] \in {"unset", "freed"})
    /\ slot' = [slot EXCEPT ![t][i] = "freed"]
    /\ \/ /\ at[t] < Len(Frees(e))
          /\ at' = [at EXCEPT ![t] = at[t] + 1]
          /\ UNCHANGED <<pc, created>>
       \/ /\ at[t] = Len(Frees(e))
          /\ pc' = [pc EXCEPT ![t] = "idle"]
          /\ at' = [at EXCEPT ![t] = 0]
          /\ created' = IF Engine(e).file /\ code[t] = "SUCCESS"
                        THEN created \cup {call[t].len} ELSE created
    /\ UNCHANGED <<call, code, exact, inits, kept, started, files, crashed>>

\* The process is started again.
Restart ==
    /\ crashed
    /\ crashed' = FALSE
    /\ UNCHANGED <<threadVars, exact, badFree, inits, kept, started, files, created>>

-----------------------------------------------------------------------------
(* The specification *)

Step(t) == AllocMember(t) \/ OpenFile(t) \/ FreeMember(t)

Next ==
    \/ /\ ~ crashed
       /\ \E t \in Threads :
            \/ \E e \in Engines :
                  \/ storage_init(t, e)
                  \/ storage_cleanup(t, e)
                  \/ \E n \in NameLens : CreateTable(t, e, n)
            \/ Step(t)
    \/ Restart

Spec == Init /\ [][Next]_vars

-----------------------------------------------------------------------------
(* Properties *)

\* Every variable has its type, and the counters stay in their bounds.
TypeOK ==
    /\ pc \in [Threads -> {"idle", "alloc", "fopen", "free"}]
    /\ call \in [Threads -> [engine : Engines, len : NameLens \cup {0}]]
    /\ at \in [Threads -> 0 .. 6]
    /\ slot \in [Threads -> [Slots -> {"unset", "null", "live", "freed"}]]
    /\ code \in [Threads -> {"SUCCESS", "MEMORY", "IO"}]
    /\ exact \in BOOLEAN
    /\ badFree \in BOOLEAN
    /\ inits \in 0 .. MaxInits
    /\ kept \in 0 .. 3 * MaxInits
    /\ started \in 0 .. MaxInits
    /\ files \in SUBSET NameLens
    /\ created \in SUBSET NameLens
    /\ crashed \in BOOLEAN

\* Every path that sprintf or snprintf writes fills its buffer to the last
\* byte, terminator included: nothing is written past the end and nothing is
\* cut off, for every engine and every table name.
PathsFit == exact

\* No create_table frees a member it has not set, although the struct is not
\* cleared, and none frees a block twice.
NoBadFree == ~ badFree

\* The state is well typed, so that storage_init has left at most three blocks
\* for each call, and no exit of a create_table leaves a block behind: not the
\* success, not the failed fopen of the heap engine, not a strdup that found no
\* memory.
NothingLeft ==
    /\ TypeOK
    /\ \A t \in Threads : pc[t] = "idle" => \A i \in Slots : slot[t][i] # "live"

\* A name for which heap_create_table has returned SUCCESS has its file, also
\* when another thread's call has crashed the process since.
CreatedHasFile == created \subseteq files

=============================================================================
