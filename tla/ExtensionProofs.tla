-------------------------- MODULE ExtensionProofs ---------------------------
(***************************************************************************)
(* The settings and the SQL functions of the extension.                    *)
(*                                                                         *)
(* For any number of backends, edits and starts of the server, all answers *)
(* of one run of the server agree, a process that has read the file knows  *)
(* what waits for a restart, and no value in force is invalid.             *)
(*                                                                         *)
(* The invariant follows the one value that counts: while the server runs, *)
(* every process with the library has the postmaster's values, and so has  *)
(* every answer of the run, because a reload leaves the value in force and *)
(* because no other process can define the variables.                      *)
(*                                                                         *)
(* For any table names, and whichever step of epiphanydb_create_table_sql  *)
(* throws, the handler frees only what is allocated.                       *)
(***************************************************************************)
EXTENDS ExtensionSettings, ExtensionFunctions, TLAPS

\* Zenon proves the leaves that do not name a prover.
USE ZenonT(40)

Processes == Backends \cup {Postmaster}

\* The processes, as far as the arguments need them.
Running ==
    /\ DOMAIN val = Processes
    /\ DOMAIN fromFile = Processes
    /\ DOMAIN pending = Processes
    /\ alive \subseteq Processes
    /\ loaded \subseteq alive
    /\ sighup \subseteq alive \cap Backends
    /\ synced \subseteq alive
    /\ alive # {} => Postmaster \in alive
    /\ run \in Nat

\* The values in force are the postmaster's.
Inherited ==
    \A p \in loaded :
        /\ Postmaster \in loaded
        /\ \A s \in Settings : val[p][s] = val[Postmaster][s]

\* An answer of this run has the postmaster's value.
AnswersInForce ==
    \A x \in answers :
        /\ x.run \in Nat /\ x.run <= run
        /\ x.fn \in Settings
        /\ x.run = run /\ alive # {} =>
             Postmaster \in loaded /\ x.value = val[Postmaster][x.fn]

IInv ==
    /\ Running
    /\ Inherited
    /\ AnswersInForce
    /\ AnswersAgree
    /\ RestartsKnown

-----------------------------------------------------------------------------
(* One lemma for each kind of step *)

\* No process runs before the first start of the server.
LEMMA InitIInv == Init => IInv
<1>. SUFFICES ASSUME Init PROVE IInv
  OBVIOUS
<1>1. Running
  BY DEF Init, Running, Processes
<1>. QED
  BY <1>1
  DEF Init, IInv, Inherited, AnswersInForce, AnswersAgree, RestartsKnown

\* An edit of the file changes no process; who had read the file has not read
\* the new one.
LEMMA EditKeeps ==
    ASSUME IInv,
           \/ \E s \in Settings : \E v \in FileValues(s) : EditSetting(s, v)
           \/ EditPreload
    PROVE  IInv'
<1>1. /\ UNCHANGED <<alive, loaded, val, fromFile, pending, sighup, answers, run>>
      /\ synced' = {} \/ (synced' = synced /\ conf' = conf)
  BY DEF EditSetting, EditPreload, process
<1>2. Running' /\ Inherited' /\ AnswersInForce' /\ AnswersAgree'
  BY <1>1 DEF IInv, Running, Inherited, AnswersInForce, AnswersAgree
<1>3. RestartsKnown'
  BY <1>1 DEF IInv, RestartsKnown
<1>. QED
  BY <1>2, <1>3 DEF IInv

\* The postmaster defines the variables; no answer belongs to the new run.
LEMMA StartKeeps ==
    ASSUME IInv, StartServer
    PROVE  IInv'
<1>1. /\ alive = {} /\ loaded = {} /\ sighup = {} /\ synced = {}
      /\ run \in Nat /\ run' = run + 1
      /\ alive' = {Postmaster} /\ synced' = {Postmaster}
      /\ conf' = conf /\ sighup' = sighup /\ answers' = answers
  BY DEF IInv, Running, StartServer
<1>2. /\ DOMAIN val' = Processes /\ DOMAIN fromFile' = Processes
      /\ DOMAIN pending' = Processes
      /\ loaded' \subseteq {Postmaster}
  BY <1>1 DEF IInv, Running, StartServer, LoadInto
<1>3. Running'
  BY SMTT(40), <1>1, <1>2 DEF Running, Processes
<1>4. Inherited'
  BY <1>2 DEF Inherited
<1>5. \A x \in answers : x.run \in Nat /\ x.run <= run /\ x.fn \in Settings
  BY DEF IInv, AnswersInForce
<1>6. AnswersInForce'
  BY SMTT(40), <1>1, <1>5 DEF AnswersInForce
<1>7. AnswersAgree'
  BY <1>1 DEF IInv, AnswersAgree
<1>8. RestartsKnown'
  <2>1. Postmaster \in loaded' =>
          \A s \in Settings : val'[Postmaster][s] = Defined(s, conf[s])
    BY SMTT(40), <1>1 DEF IInv, Running, Processes, StartServer, LoadInto
  <2>. QED
    BY <1>1, <1>2, <2>1 DEF RestartsKnown, Defined, Valid
<1>. QED
  BY <1>3, <1>4, <1>6, <1>7, <1>8 DEF IInv

\* A new backend has what the postmaster has.
LEMMA ForkKeeps ==
    ASSUME IInv, NEW b \in Backends, ForkBackend(b)
    PROVE  IInv'
<1>1. /\ b \in Processes /\ Postmaster \in Processes /\ b # Postmaster
      /\ b \notin alive /\ b \notin loaded /\ b \notin synced
      /\ Postmaster \in alive
  BY ProcessAssumption DEF IInv, Running, Processes, ForkBackend
<1>2. /\ val'[b] = val[Postmaster]
      /\ fromFile'[b] = fromFile[Postmaster]
      /\ pending'[b] = pending[Postmaster]
      /\ \A p \in Processes \ {b} :
           val'[p] = val[p] /\ fromFile'[p] = fromFile[p] /\ pending'[p] = pending[p]
  BY <1>1 DEF IInv, Running, ForkBackend
<1>3. Running'
  BY <1>1 DEF IInv, Running, ForkBackend, Processes
<1>4. Inherited'
  BY SMTT(40), <1>1, <1>2 DEF IInv, Running, Inherited, ForkBackend
<1>5. AnswersInForce' /\ AnswersAgree'
  BY SMTT(40), <1>1, <1>2 DEF IInv, AnswersInForce, AnswersAgree, ForkBackend
<1>6. RestartsKnown'
  <2>1. ASSUME NEW p \in synced' \cap loaded'
        PROVE  \E q \in synced \cap loaded :
                 val'[p] = val[q] /\ fromFile'[p] = fromFile[q] /\ pending'[p] = pending[q]
    BY SMTT(40), <1>1, <1>2 DEF IInv, Running, ForkBackend
  <2>2. conf' = conf
    BY DEF ForkBackend
  <2>. QED
    BY SMTT(40), <2>1, <2>2 DEF IInv, RestartsKnown, Defined, Valid
<1>. QED
  BY <1>3, <1>4, <1>5, <1>6 DEF IInv

\* A process that ends takes nothing with it that others rely on.
LEMMA ExitKeeps ==
    ASSUME IInv, NEW b \in Backends, Exit(b)
    PROVE  IInv'
<1>1. /\ b # Postmaster
      /\ UNCHANGED <<conf, val, fromFile, pending, answers, run>>
  BY ProcessAssumption DEF Exit
<1>2. Running'
  BY <1>1 DEF IInv, Running, Exit
<1>3. Inherited' /\ AnswersInForce' /\ AnswersAgree'
  BY SMTT(40), <1>1 DEF IInv, Running, Inherited, AnswersInForce, AnswersAgree, Exit
<1>4. RestartsKnown'
  BY <1>1 DEF IInv, RestartsKnown, Exit
<1>. QED
  BY <1>2, <1>3, <1>4 DEF IInv

\* A reload changes no value in force, and notes what differs from the file.
LEMMA ReloadKeeps ==
    ASSUME IInv, NEW p \in alive, ProcessConfigFile(p),
           sighup' \subseteq alive \cap Backends,
           UNCHANGED <<conf, answers, run>>
    PROVE  IInv'
<1>1. /\ p \in Processes
      /\ UNCHANGED <<alive, loaded, fromFile>>
      /\ synced' = synced \cup {p}
  BY DEF IInv, Running, ProcessConfigFile
<1>2. /\ DOMAIN val' = Processes /\ DOMAIN pending' = Processes
      /\ \A q \in Processes \ {p} : val'[q] = val[q] /\ pending'[q] = pending[q]
  BY <1>1 DEF IInv, Running, ProcessConfigFile
<1>3. \A q \in loaded, s \in Settings : val'[q][s] = val[q][s]
  <2>1. ASSUME p \in loaded, NEW s \in Settings PROVE val'[p][s] = val[p][s]
    BY <1>1, <2>1 DEF IInv, Running, ProcessConfigFile, set_config
  <2>. QED
    BY <1>2, <2>1 DEF IInv, Running
<1>4. p \in loaded => pending'[p] = {s \in Settings : Marked(s, p, conf[s])}
  BY <1>1 DEF IInv, Running, ProcessConfigFile
<1>5. Running'
  BY <1>1, <1>2 DEF IInv, Running
<1>6. Inherited'
  BY SMTT(40), <1>1, <1>3 DEF IInv, Inherited
<1>7. AnswersInForce' /\ AnswersAgree'
  BY <1>1, <1>3 DEF IInv, AnswersInForce, AnswersAgree
<1>8. RestartsKnown'
  <2>. SUFFICES ASSUME NEW q \in synced' \cap loaded', NEW s \in Settings,
                       \/ Valid(s, conf[s])
                       \/ conf[s] = Absent /\ s \in fromFile[q],
                       Defined(s, conf[s]) # val[q][s]
                PROVE  s \in pending'[q]
    BY SMTT(40), <1>1, <1>3 DEF RestartsKnown, Valid, Defined
  <2>1. CASE q = p
    BY <1>1, <1>4, <2>1 DEF Marked, Defined, Valid
  <2>2. CASE q # p
    BY <1>1, <1>2, <2>2 DEF IInv, Running, RestartsKnown
  <2>. QED
    BY <2>1, <2>2
<1>. QED
  BY <1>5, <1>6, <1>7, <1>8 DEF IInv

\* A backend that answers has the postmaster's value.
LEMMA AnswerKeeps ==
    ASSUME IInv, NEW b \in Backends, NEW s \in Settings, Answer(b, s)
    PROVE  IInv'
<1>1. /\ b \in loaded /\ b \in alive
      /\ UNCHANGED <<conf, alive, loaded, val, fromFile, pending, sighup, synced, run>>
  BY DEF Answer, process
<1>2. PICK x : x = [run |-> run, fn |-> s, value |-> val[b][s]]
  OBVIOUS
<1>3. answers' = answers \cup {x}
  BY <1>2 DEF Answer
<1>4. /\ x.run = run /\ x.fn = s /\ Postmaster \in loaded
      /\ x.value = val[Postmaster][s] /\ run \in Nat
  BY <1>1, <1>2 DEF IInv, Running, Inherited
<1>5. AnswersInForce'
  BY SMTT(40), <1>1, <1>3, <1>4 DEF IInv, AnswersInForce
<1>6. AnswersAgree'
  BY SMTT(40), <1>1, <1>3, <1>4 DEF IInv, AnswersInForce, AnswersAgree
<1>7. Running' /\ Inherited' /\ RestartsKnown'
  BY <1>1 DEF IInv, Running, Inherited, RestartsKnown
<1>. QED
  BY <1>5, <1>6, <1>7 DEF IInv

\* Every step keeps the invariant.
LEMMA NextKeeps == IInv /\ [Next]_vars => IInv'
<1>. SUFFICES ASSUME IInv, [Next]_vars PROVE IInv'
  OBVIOUS
<1>1. CASE StopServer
  BY <1>1
  DEF IInv, Running, Inherited, AnswersInForce, AnswersAgree, RestartsKnown,
      StopServer
<1>2. CASE ReloadServer
  BY <1>2, ReloadKeeps DEF IInv, Running, ReloadServer
<1>3. ASSUME NEW b \in Backends, ReloadBackend(b) PROVE IInv'
  BY <1>3, ReloadKeeps DEF IInv, Running, ReloadBackend
<1>4. ASSUME NEW b \in Backends, BackendExit(b) \/ LateLoad(b) PROVE IInv'
  BY <1>4, ExitKeeps DEF BackendExit, LateLoad, init_custom_variable
<1>5. ASSUME NEW b \in Backends,
             epiphanydb_is_enabled(b) \/ epiphanydb_storage_engines_enabled(b)
      PROVE  IInv'
  BY <1>5, AnswerKeeps
  DEF epiphanydb_is_enabled, epiphanydb_storage_engines_enabled, Settings
<1>6. CASE UNCHANGED vars
  BY <1>6
  DEF IInv, Running, Inherited, AnswersInForce, AnswersAgree, RestartsKnown,
      vars
<1>. QED
  BY <1>1, <1>2, <1>3, <1>4, <1>5, <1>6, EditKeeps, StartKeeps, ForkKeeps DEF Next

-----------------------------------------------------------------------------
(* What holds in every reachable state *)

\* The postmaster's values are the ones in force, for any number of backends.
THEOREM SettingsInvariant == Spec => []IInv
BY InitIInv, NextKeeps, PTL DEF Spec

\* All answers of epiphanydb_is_enabled() and of
\* epiphanydb_storage_engines_enabled() in one run of the server agree, across
\* any edits, reloads and new connections.
THEOREM SettingsAnswersAgree == Spec => []AnswersAgree
<1>1. IInv => AnswersAgree
  BY DEF IInv
<1>. QED
  BY <1>1, SettingsInvariant, PTL
-----------------------------------------------------------------------------
(* Types and valid values *)

\* What the file and the processes hold, apart from Running.
Typed ==
    /\ DOMAIN conf = Settings
    /\ \A s \in Settings : conf[s] \in FileValues(s)
    /\ preload \in BOOLEAN
    /\ \A p \in loaded, s \in Settings : Valid(s, val[p][s])
    /\ fromFile \in [Processes -> SUBSET Settings]
    /\ pending \in [Processes -> SUBSET Settings]

\* define_custom_variable gives a variable a valid value, whatever the
\* placeholder holds.
LEMMA DefinedValid ==
    ASSUME NEW s \in Settings, NEW v PROVE Valid(s, Defined(s, v))
<1>1. Valid(s, BootVal[s])
  <2>1. BootVal[s] # Absent
    BY AbsentAssumption
  <2>2. s = "enabled" => BootVal[s] \in {"on", "off"}
    BY SMTT(40) DEF BootVal
  <2>3. s = "shared_memory_size" => BootVal[s] \in Limits
    BY SMTT(40) DEF BootVal, Limits
  <2>. QED
    BY <2>1, <2>2, <2>3 DEF Valid
<1>. QED
  BY <1>1 DEF Defined

\* Every step keeps the types.
LEMMA TypedKept == IInv /\ Typed /\ [Next]_vars => Typed'
<1>. SUFFICES ASSUME IInv, Typed, [Next]_vars PROVE Typed'
  OBVIOUS
<1>1. ASSUME NEW s \in Settings, NEW v \in FileValues(s), EditSetting(s, v)
      PROVE  Typed'
  <2>1. /\ conf' = [conf EXCEPT ![s] = v] /\ preload' = preload
        /\ UNCHANGED <<loaded, val, fromFile, pending>>
    BY <1>1 DEF EditSetting, process
  <2>2. DOMAIN conf' = Settings /\ \A r \in Settings : conf'[r] \in FileValues(r)
    BY <2>1 DEF Typed, FileValues
  <2>. QED
    BY <2>1, <2>2 DEF Typed, Valid
<1>2. CASE EditPreload
  BY <1>2 DEF EditPreload, process, Typed, FileValues, Valid
<1>3. CASE StartServer
  <2>1. loaded = {} /\ conf' = conf /\ preload' = preload
    BY <1>3 DEF StartServer, IInv, Running
  <2>2. /\ fromFile' \in [Processes -> SUBSET Settings]
        /\ pending' \in [Processes -> SUBSET Settings]
    <3>1. \E S \in SUBSET Settings : fromFile' = [fromFile EXCEPT ![Postmaster] = S]
      BY <1>3 DEF StartServer, LoadInto
    <3>. QED
      BY <1>3, <3>1 DEF StartServer, Typed
  <2>3. ASSUME NEW p \in loaded', NEW s \in Settings PROVE Valid(s, val'[p][s])
    <3>1. /\ p = Postmaster
          /\ val' = [val EXCEPT ![p] = [r \in Settings |-> Defined(r, conf[r])]]
      BY <1>3, <2>1 DEF StartServer, LoadInto
    <3>2. val'[p][s] = Defined(s, conf[s])
      BY <3>1 DEF IInv, Running, Processes
    <3>. QED
      BY <3>2, DefinedValid
  <2>. QED
    BY <2>1, <2>2, <2>3 DEF Typed, FileValues, Valid
<1>4. CASE StopServer
  BY <1>4 DEF StopServer, Typed, FileValues, Valid
<1>5. ASSUME NEW p \in alive, ProcessConfigFile(p), UNCHANGED <<conf, preload>>
      PROVE  Typed'
  <2>1. p \in Processes /\ UNCHANGED <<loaded, fromFile>>
    BY <1>5 DEF ProcessConfigFile, IInv, Running
  <2>2. pending' \in [Processes -> SUBSET Settings]
    <3>1. \E S \in SUBSET Settings : pending' = [pending EXCEPT ![p] = S]
      BY <1>5 DEF ProcessConfigFile
    <3>. QED
      BY <3>1 DEF Typed
  <2>3. \A q \in loaded, s \in Settings : val'[q][s] = val[q][s]
    BY <1>5, <2>1 DEF ProcessConfigFile, set_config, IInv, Running
  <2>4. \A q \in loaded', s \in Settings : Valid(s, val'[q][s])
    BY <2>1, <2>3 DEF Typed
  <2>. QED
    BY <1>5, <2>1, <2>2, <2>4 DEF Typed, FileValues, Valid
<1>6. CASE ReloadServer
  BY <1>5, <1>6 DEF ReloadServer
<1>7. ASSUME NEW b \in Backends, ReloadBackend(b) PROVE Typed'
  BY <1>5, <1>7 DEF ReloadBackend, IInv, Running
<1>8. ASSUME NEW b \in Backends, ForkBackend(b) PROVE Typed'
  <2>1. UNCHANGED <<conf, preload>>
    BY <1>8 DEF ForkBackend
  <2>2. /\ fromFile' \in [Processes -> SUBSET Settings]
        /\ pending' \in [Processes -> SUBSET Settings]
    BY <1>8 DEF ForkBackend, Typed, Processes
  <2>3. ASSUME NEW p \in loaded' PROVE \E q \in loaded : val'[p] = val[q]
    BY <1>8 DEF ForkBackend, IInv, Running, Processes
  <2>4. \A p \in loaded', s \in Settings : Valid(s, val'[p][s])
    BY <2>3 DEF Typed
  <2>. QED
    BY <2>1, <2>2, <2>4 DEF Typed, FileValues, Valid
<1>9. ASSUME NEW b \in Backends, BackendExit(b) \/ LateLoad(b) PROVE Typed'
  BY <1>9 DEF BackendExit, LateLoad, init_custom_variable, Exit, Typed, FileValues,
              Valid
<1>10. ASSUME NEW b \in Backends,
              epiphanydb_is_enabled(b) \/ epiphanydb_storage_engines_enabled(b)
       PROVE  Typed'
  BY <1>10
  DEF epiphanydb_is_enabled, epiphanydb_storage_engines_enabled, Answer, process,
      Typed, FileValues, Valid
<1>11. CASE UNCHANGED vars
  BY <1>11 DEF vars, Typed, FileValues, Valid
<1>. QED
  BY <1>1, <1>2, <1>3, <1>4, <1>6, <1>7, <1>8, <1>9, <1>10, <1>11 DEF Next

\* The state is well typed, and no process with the library ever has a value in
\* force that parse_and_validate_value rejects, whatever the file says at a
\* start or a reload.
THEOREM SettingsTypeOK == Spec => []TypeOK
<1>1. Init => Typed
  BY DEF Init, Typed, FileValues, Processes
<1>2. IInv /\ Typed => TypeOK
  BY DEF IInv, Running, Typed, TypeOK, Processes
<1>. QED
  BY <1>1, <1>2, TypedKept, SettingsInvariant, PTL DEF Spec

\* A process that has read the file has marked every setting of the extension
\* for which a restart would bring another valid value, and the values in force
\* are valid.
THEOREM SettingsRestartsAnnounced == Spec => []RestartsAnnounced
<1>1. IInv /\ TypeOK => RestartsAnnounced
  BY DEF IInv, RestartsAnnounced
<1>. QED
  BY <1>1, SettingsInvariant, SettingsTypeOK, PTL

-----------------------------------------------------------------------------
(* The functions that take a table name *)

\* What is allocated follows from the place in the function.  The handler is
\* the function's from the start of PG_TRY to its end.
FInv ==
    /\ FunctionsTypeOK
    /\ fault = FALSE
    /\ handler = IF pc \in Locals \cup {"check", "catch"} THEN "local" ELSE "caller"
    /\ pc \in Locals \cup {"check", "finish", "catch"} =>
         \A v \in Locals : block[v] # "freed"
    /\ pc = "finish" => args.name # Empty
    /\ pc = "idle" => Live = {}

\* Every step keeps it.
LEMMA FNextKeeps == FInv /\ [FunctionsNext]_functionsVars => FInv'
<1>. SUFFICES ASSUME FInv, [FunctionsNext]_functionsVars PROVE FInv'
  OBVIOUS
<1>. USE DEF FInv, FunctionsTypeOK, Live, NoBlocks, Locals
<1>1. ASSUME NEW a \in Args, epiphanydb_create_table(a) PROVE FInv'
  BY <1>1 DEF epiphanydb_create_table
<1>2. CASE Convert
  <2>1. Following[pc] \in Locals \cup {"check"}
    BY SMTT(40), <1>2 DEF Convert, Following
  <2>2. /\ UNCHANGED <<args, handler, fault, told>>
        /\ \/ pc' = Following[pc] /\ block' = [block EXCEPT ![pc] = "live"]
           \/ pc' = "catch" /\ block' = block
    BY <1>2 DEF Convert, Throw
  <2>. QED
    BY <1>2, <2>1, <2>2 DEF Convert
<1>3. CASE Check
  BY <1>3 DEF Check, Throw
<1>4. CASE Catch
  BY <1>4 DEF Catch, Pfree
<1>5. CASE Finish
  <2>1. told' \subseteq Names
    BY <1>5 DEF Finish, Args
  <2>2. block' \in [Locals -> {"none", "freed"}]
    BY <1>5 DEF Finish, Pfree
  <2>3. fault' = FALSE
    BY <1>5 DEF Finish, Pfree
  <2>. QED
    BY <1>5, <2>1, <2>2, <2>3 DEF Finish
<1>6. CASE Abort
  BY <1>6 DEF Abort
<1>7. CASE WithName
  BY <1>7 DEF WithName
<1>8. CASE UNCHANGED functionsVars
  BY <1>8 DEF functionsVars
<1>. QED
  BY <1>1, <1>2, <1>3, <1>4, <1>5, <1>6, <1>7, <1>8 DEF FunctionsNext

\* The initial state, then every other one.
THEOREM FunctionsInvariant == FunctionsSpec => []FInv
<1>1. FunctionsInit => FInv
  BY DEF FunctionsInit, FInv, FunctionsTypeOK, Live, NoBlocks, Locals
<1>. QED
  BY <1>1, FNextKeeps, PTL DEF FunctionsSpec

\* Whatever throws in epiphanydb_create_table_sql, and whichever values PG_CATCH
\* sees in the locals that are not volatile, pfree gets only live strings.
THEOREM FunctionsNoBadPfree == FunctionsSpec => []NoBadPfree
<1>1. FInv => NoBadPfree
  BY DEF FInv, NoBadPfree
<1>. QED
  BY <1>1, FunctionsInvariant, PTL

\* Every way out of the functions leaves no string and no handler behind, and
\* success is reported only for names that are not empty.
THEOREM FunctionsCleanExit == FunctionsSpec => []CleanExit
<1>1. FInv => CleanExit
  BY DEF FInv, CleanExit, Locals
<1>. QED
  BY <1>1, FunctionsInvariant, PTL

=============================================================================
