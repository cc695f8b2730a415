-------------------------- MODULE ExtensionSettings --------------------------
(***************************************************************************)
(* The settings of the PostgreSQL extension                                *)
(* (src/postgresql/contrib/epiphanydb/), how the server brings them into   *)
(* force, and what the SQL functions report of them.                       *)
(*                                                                         *)
(* The three variables have context PGC_POSTMASTER.  They can be created   *)
(* only while shared_preload_libraries is being processed, they get their  *)
(* value from the configuration file at that moment, and every backend     *)
(* inherits them by fork.  A reload of the file reaches the postmaster and *)
(* each backend at moments of their own.  Before the library is loaded,    *)
(* what the file says of epiphanydb.* is kept in placeholders.             *)
(***************************************************************************)
EXTENDS Naturals

CONSTANTS
    Backends,     \* the slots in which backends run
    Postmaster,   \* the postmaster process
    Absent,       \* the file has no line for a setting
    MaxEdits,     \* bound: edits of the configuration file
    MaxRuns       \* bound: starts of the server

ASSUME ProcessAssumption == Postmaster \notin Backends
ASSUME BoundAssumption == MaxEdits \in Nat /\ MaxRuns \in Nat

VARIABLES
    conf,      \* the lines of the configuration file
    preload,   \* shared_preload_libraries of the file names the extension
    alive,     \* the processes that run
    loaded,    \* the processes whose file_list has the library
    val,       \* per process: the variables, or the placeholders for them
    fromFile,  \* per process: settings with reset_source = PGC_S_FILE
    pending,   \* per process: settings with GUC_PENDING_RESTART
    sighup,    \* the backends with ConfigReloadPending
    synced,    \* history: processes that have read the file as it is now
    answers,   \* history: what functions declared IMMUTABLE returned
    run,       \* history: the number of starts of the server
    edits      \* history: the number of edits of the file

vars == <<conf, preload, alive, loaded, val, fromFile, pending, sighup,
          synced, answers, run, edits>>

process == <<alive, loaded, val, fromFile, pending>>

-----------------------------------------------------------------------------
(* The settings *)

Settings == {"enabled", "storage_engines", "shared_memory_size"}

\* What an administrator writes into the file: good values (two lists of
\* engines among them), a word that is no Boolean, and sizes on both sides of
\* both limits.
Lines ==
    [enabled |-> {"on", "off", "maybe"},
     storage_engines |-> {"all", "heap_only"},
     shared_memory_size |-> {0, 1, 1024, 1025}]

FileValues(s) == Lines[s] \cup {Absent}

\* The boot values and limits given to DefineCustom...Variable by _PG_init.
BootVal ==
    [enabled |-> "on", storage_engines |-> "all", shared_memory_size |-> 64]

Limits == 1 .. 1024

\* No line and no boot value looks like a missing line.
ASSUME AbsentAssumption ==
    \A s \in Settings : Absent \notin Lines[s] /\ Absent # BootVal[s]

\* parse_and_validate_value: any string is a list of engines, since the
\* variable has no check hook.
Valid(s, v) ==
    /\ v # Absent
    /\ s = "enabled" => v \in {"on", "off"}
    /\ s = "shared_memory_size" => v \in Limits

\* define_custom_variable: the variable takes its boot value, then the value
\* of the placeholder if there is one and it is valid; otherwise a warning.
Defined(s, placeholder) ==
    IF Valid(s, placeholder) THEN placeholder ELSE BootVal[s]

-----------------------------------------------------------------------------
(* Mutants *)

\* A variable defined as PGC_SIGHUP: a reload changes its value.
SetSighup(s, old, new) == new

\* A reload that does not note the difference.
MarkNothing(s, p, line) == FALSE

-----------------------------------------------------------------------------
(* The configuration machinery of the server *)

\* init_custom_variable: PGC_POSTMASTER variables only during preload; in any
\* other process the attempt is FATAL, and the process exits.
init_custom_variable(during_preload) == during_preload

\* set_config_with_handle, PGC_POSTMASTER variable in context PGC_SIGHUP: the
\* value in force stays (prohibitValueChange).
set_config(s, old, new) == old

\* set_config_with_handle and the loop over removed variables of
\* ProcessConfigFileInternal: is s marked as needing a restart after process p
\* has read the line?
Marked(s, p, line) ==
    IF line = Absent THEN s \in fromFile[p] \/ s \in pending[p]
    ELSE IF Valid(s, line) THEN line # val[p][s]
    ELSE s \in pending[p]

\* ProcessConfigFile(PGC_SIGHUP) in process p.  Placeholders follow the file.
ProcessConfigFile(p) ==
    /\ val' = [val EXCEPT ![p] =
                 [s \in Settings |->
                    IF p \notin loaded THEN conf[s]
                    ELSE IF Valid(s, conf[s])
                         THEN set_config(s, val[p][s], conf[s])
                         ELSE val[p][s]]]
    /\ pending' = [pending EXCEPT ![p] =
                     IF p \in loaded
                     THEN {s \in Settings : Marked(s, p, conf[s])} ELSE {}]
    /\ synced' = synced \cup {p}
    /\ UNCHANGED <<alive, loaded, fromFile>>

\* internal_load_library for a process that has not loaded the library:
\* _PG_init defines the variables from the placeholders ph.
LoadInto(p, ph) ==
    /\ loaded' = loaded \cup {p}
    /\ val' = [val EXCEPT ![p] = [s \in Settings |-> Defined(s, ph[s])]]
    /\ fromFile' = [fromFile EXCEPT ![p] = {s \in Settings : Valid(s, ph[s])}]

-----------------------------------------------------------------------------
(* Actions *)

Init ==
    /\ conf = [s \in Settings |-> Absent]
    /\ preload = TRUE
    /\ alive = {} /\ loaded = {} /\ sighup = {} /\ synced = {}
    /\ val = [p \in Backends \cup {Postmaster} |-> conf]
    /\ fromFile = [p \in Backends \cup {Postmaster} |-> {}]
    /\ pending = [p \in Backends \cup {Postmaster} |-> {}]
    /\ answers = {}
    /\ run = 0
    /\ edits = 0

\* The administrator changes, adds or removes a line of the file.
EditSetting(s, v) ==
    /\ edits < MaxEdits
    /\ v # conf[s]
    /\ conf' = [conf EXCEPT ![s] = v]
    /\ edits' = edits + 1
    /\ synced' = {}
    /\ UNCHANGED <<preload, process, sighup, answers, run>>

EditPreload ==
    /\ edits < MaxEdits
    /\ preload' = ~ preload
    /\ edits' = edits + 1
    /\ UNCHANGED <<conf, process, sighup, synced, answers, run>>

\* The postmaster reads the file, then process_shared_preload_libraries.
StartServer ==
    /\ alive = {}
    /\ run < MaxRuns
    /\ run' = run + 1
    /\ alive' = {Postmaster}
    /\ synced' = {Postmaster}
    /\ pending' = [pending EXCEPT ![Postmaster] = {}]
    /\ IF preload
       THEN LoadInto(Postmaster, conf)
       ELSE /\ val' = [val EXCEPT ![Postmaster] = conf]
            /\ fromFile' = [fromFile EXCEPT ![Postmaster] = {}]
            /\ UNCHANGED loaded
    /\ UNCHANGED <<conf, preload, sighup, answers, edits>>

\* A shutdown ends all processes; what a process knew is gone.
StopServer ==
    /\ alive # {}
    /\ alive' = {} /\ loaded' = {} /\ sighup' = {} /\ synced' = {}
    /\ UNCHANGED <<conf, preload, val, fromFile, pending, answers, run, edits>>

ForkBackend(b) ==
    /\ Postmaster \in alive
    /\ b \notin alive
    /\ alive' = alive \cup {b}
    /\ loaded' = IF Postmaster \in loaded THEN loaded \cup {b} ELSE loaded
    /\ val' = [val EXCEPT ![b] = val[Postmaster]]
    /\ fromFile' = [fromFile EXCEPT ![b] = fromFile[Postmaster]]
    /\ pending' = [pending EXCEPT ![b] = pending[Postmaster]]
    /\ synced' = IF Postmaster \in synced THEN synced \cup {b} ELSE synced
    /\ UNCHANGED <<conf, preload, sighup, answers, run, edits>>

Exit(b) ==
    /\ alive' = alive \ {b} /\ loaded' = loaded \ {b}
    /\ sighup' = sighup \ {b} /\ synced' = synced \ {b}
    /\ UNCHANGED <<conf, preload, val, fromFile, pending, answers, run, edits>>

BackendExit(b) == b \in alive /\ Exit(b)

\* process_pm_reload_request: the postmaster reads the file and passes the
\* signal on to its children.
ReloadServer ==
    /\ Postmaster \in alive
    /\ ProcessConfigFile(Postmaster)
    /\ sighup' = sighup \cup (alive \cap Backends)
    /\ UNCHANGED <<conf, preload, answers, run, edits>>

\* The main loop of a backend sees ConfigReloadPending between two commands.
ReloadBackend(b) ==
    /\ b \in sighup
    /\ ProcessConfigFile(b)
    /\ sighup' = sighup \ {b}
    /\ UNCHANGED <<conf, preload, answers, run, edits>>

\* LOAD, or the first call of a function, in a backend without the library.
LateLoad(b) ==
    /\ b \in alive \ loaded
    /\ IF init_custom_variable(FALSE)
       THEN /\ LoadInto(b, val[b])
            /\ UNCHANGED <<conf, preload, alive, pending, sighup, synced,
                           answers, run, edits>>
       ELSE Exit(b)

\* epiphanydb_is_enabled() and epiphanydb_storage_engines_enabled().
Answer(b, s) ==
    /\ b \in (alive \cap loaded) \ {Postmaster}
    /\ answers' = answers \cup {[run |-> run, fn |-> s, value |-> val[b][s]]}
    /\ UNCHANGED <<conf, preload, process, sighup, synced, run, edits>>

epiphanydb_is_enabled(b) == Answer(b, "enabled")

epiphanydb_storage_engines_enabled(b) == Answer(b, "storage_engines")

Next ==
    \/ \E s \in Settings : \E v \in FileValues(s) : EditSetting(s, v)
    \/ EditPreload
    \/ StartServer
    \/ StopServer
    \/ ReloadServer
    \/ \E b \in Backends :
         \/ ForkBackend(b) \/ BackendExit(b) \/ ReloadBackend(b)
         \/ LateLoad(b)
         \/ epiphanydb_is_enabled(b)
         \/ epiphanydb_storage_engines_enabled(b)

Spec == Init /\ [][Next]_vars

-----------------------------------------------------------------------------
(* Properties *)

\* Every variable has its type; a variable of a process that has the library
\* has a value that parse_and_validate_value accepts.
TypeOK ==
    /\ DOMAIN conf = Settings
    /\ \A s \in Settings : conf[s] \in FileValues(s)
    /\ preload \in BOOLEAN
    /\ alive \subseteq Backends \cup {Postmaster}
    /\ loaded \subseteq alive
    /\ sighup \subseteq alive \cap Backends
    /\ synced \subseteq alive
    /\ \A p \in loaded, s \in Settings : Valid(s, val[p][s])
    /\ fromFile \in [Backends \cup {Postmaster} -> SUBSET Settings]
    /\ pending \in [Backends \cup {Postmaster} -> SUBSET Settings]

\* As long as the server runs, all backends give the same answers, before and
\* after any edit and reload, whenever they were started or read the file:
\* that is what PGC_POSTMASTER in _PG_init is for.
AnswersAgree ==
    \A x, y \in answers :
        (x.run = y.run /\ x.fn = y.fn) => x.value = y.value

\* After a process has read the file, it knows of every setting for which a
\* restart would bring another (valid) value.
RestartsKnown ==
    \A p \in synced \cap loaded, s \in Settings :
        (/\ Valid(s, conf[s]) \/ (conf[s] = Absent /\ s \in fromFile[p])
         /\ Defined(s, conf[s]) # val[p][s]) => s \in pending[p]

\* The state is well typed, a process with the library has valid values in
\* force, and no process that has read the file lets go unannounced what a
\* restart would change.
RestartsAnnounced == TypeOK /\ RestartsKnown
=============================================================================
