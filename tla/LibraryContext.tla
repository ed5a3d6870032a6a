--------------------------- MODULE LibraryContext ---------------------------
(***************************************************************************)
(* How threads that connect for the first time load the Oracle Client      *)
(* library, initialise ODPI-C and create the context they all share        *)
(* (support/extra.c, dpiContext.c, dpiGlobal.c, dpiOci.c), and what exit   *)
(* takes away.                                                             *)
(*                                                                         *)
(* Until a thread has its own error buffer it reports in the one they all  *)
(* share; the n-th attempt to initialise leaves error n there.  The file   *)
(* system and OCI are external: they decide what is found and what fails.  *)
(***************************************************************************)
EXTENDS Integers, FiniteSets, Sequences

CONSTANTS
    Loaders,
    Nobody,         \* holder of a free mutex
    MaxAttempts     \* bound: attempts to initialise, and contexts

ASSUME LoadersAssumption == IsFiniteSet(Loaders) /\ Nobody \notin Loaders /\ MaxAttempts \in Nat

VARIABLES
    stage,
    oneByOne,       \* the program lets one thread connect at a time
    mutex,          \* dpiGlobalMutex
    initialized,    \* dpiGlobalInitialized
    libHandle,      \* dpiOciLibHandle and, with it, the symbols
    envHandle, key, \* dpiGlobalEnvHandle: null, live, freed; dpiGlobalThreadKey
    attempts,
    shared,         \* the attempt dpiGlobalErrorBuffer tells of, 0 if none
    errorNum,       \* its errorNum is set
    mine, told,     \* a thread's attempt, and the one it is told of when it fails
    nothing,        \* attempts that found no library
    current, contexts,  \* g_context, and the contexts created
    exiting, freedTwice, halfway    \* halfway: some attempt failed after the environment

globals == <<mutex, initialized, libHandle, envHandle, key>>
errors == <<attempts, shared, errorNum, mine, told, nothing>>
atExit == <<exiting, freedTwice, halfway>>
libraryVars == <<stage, oneByOne, globals, errors, current, contexts, atExit>>

LibraryInit ==
    /\ stage = [t \in Loaders |-> "out"] /\ oneByOne \in BOOLEAN
    /\ mutex = Nobody /\ initialized = FALSE /\ libHandle = FALSE
    /\ envHandle = "null" /\ key = FALSE
    /\ attempts = 0 /\ shared = 0 /\ errorNum = FALSE
    /\ mine = [t \in Loaders |-> 0] /\ told = [t \in Loaders |-> 0] /\ nothing = {}
    /\ current = 0 /\ contexts = 0
    /\ exiting = FALSE /\ freedTwice = FALSE /\ halfway = FALSE

moveTo(t, label) == stage' = [stage EXCEPT ![t] = label]
standsAt(t, label) == stage[t] = label

\* MUTANT of Connect: the context is created on every connection.
ConnectAnew(t) ==
    /\ standsAt(t, "out") /\ ~exiting /\ contexts < MaxAttempts
    /\ oneByOne => \A u \in Loaders : standsAt(u, "out")
    /\ told' = [told EXCEPT ![t] = 0]
    /\ moveTo(t, "create")
    /\ UNCHANGED <<oneByOne, globals, attempts, shared, errorNum, mine, nothing, current, contexts, atExit>>

\* oracle_init_context
Connect(t) ==
    /\ standsAt(t, "out") /\ ~exiting /\ contexts < MaxAttempts
    /\ oneByOne => \A u \in Loaders : standsAt(u, "out")
    /\ told' = [told EXCEPT ![t] = 0]
    /\ moveTo(t, IF current = 0 THEN "create" ELSE "call")
    /\ UNCHANGED <<oneByOne, globals, attempts, shared, errorNum, mine, nothing, current, contexts, atExit>>

\* dpiGlobal__ensureInitialized: the flag is read without the mutex.
Look(t) ==
    /\ standsAt(t, "create")
    /\ moveTo(t, IF initialized THEN "buffer" ELSE "lock")
    /\ UNCHANGED <<oneByOne, globals, errors, current, contexts, atExit>>

\* MUTANT of Lock: the flag is not read again.
LockUnchecked(t) ==
    /\ standsAt(t, "lock") /\ mutex = Nobody /\ mutex' = t
    /\ attempts < MaxAttempts /\ attempts' = attempts + 1
    /\ mine' = [mine EXCEPT ![t] = attempts'] /\ moveTo(t, "load")
    /\ UNCHANGED <<oneByOne, initialized, libHandle, envHandle, key, shared, errorNum, told, nothing,
                   current, contexts, atExit>>

\* And with it: only the first initialises.
Lock(t) ==
    /\ standsAt(t, "lock") /\ mutex = Nobody /\ mutex' = t
    /\ IF initialized THEN moveTo(t, "unlock") /\ UNCHANGED <<attempts, mine>>
       ELSE /\ attempts < MaxAttempts /\ attempts' = attempts + 1
            /\ mine' = [mine EXCEPT ![t] = attempts'] /\ moveTo(t, "load")
    /\ UNCHANGED <<oneByOne, initialized, libHandle, envHandle, key, shared, errorNum, told, nothing,
                   current, contexts, atExit>>

---------------------------------------------------------------------------
(* Loading.  A directory may hold the library under its first name, under *)
(* another, not at all, or one that is too old or lacks a symbol.         *)

Found == {"first", "other", "none", "unusable"}

\* dpiOci__loadLibWithDir over dpiOci__loadLibWithName
LoadLibWithDir(found, scanAllNames) ==
    found \in {"first", "unusable"} \/ (found = "other" /\ scanAllNames)

\* dpiOci__loadLib: where it looks, with all names or the first alone.
\* dpiOci__getModuleDir may not know, ORACLE_HOME may not be set.
SearchPath(libDir, moduleDir, home) ==
    IF libDir THEN << <<"param", TRUE>> >>
    ELSE (IF moduleDir THEN << <<"module", FALSE>> >> ELSE <<>>)
         \o << <<"os", TRUE>> >>
         \o (IF home THEN << <<"home", FALSE>> >> ELSE <<>>)

\* What is loaded: the first hit on the path, "none" without one; and
\* dpiOci__loadLibValidate wants version 11.2 and the key symbols.
Loaded(path, found) ==
    LET hits == {k \in 1..Len(path) : LoadLibWithDir(found[path[k][1]], path[k][2])}
    IN  IF hits = {} THEN "none" ELSE found[path[CHOOSE k \in hits : \A h \in hits : k <= h][1]]

\* All that dpiOci__loadLib may come to.
Outcomes ==
    {Loaded(SearchPath(libDir, moduleDir, home), found) :
        libDir, moduleDir, home \in BOOLEAN, found \in [{"param", "module", "os", "home"} -> Found]}

---------------------------------------------------------------------------
\* dpiError__set on the shared buffer
Report(t) == shared' = mine[t] /\ errorNum' = TRUE

\* MUTANT of LoadLib: no failure is reported over another.
LoadLibReportingOnce(t, loaded) ==
    /\ standsAt(t, "load") /\ libHandle' = (loaded \in {"first", "other"})
    /\ nothing' = IF loaded = "none" THEN nothing \union {mine[t]} ELSE nothing
    /\ IF libHandle' THEN moveTo(t, "env") /\ UNCHANGED <<shared, errorNum>>
       ELSE moveTo(t, "unlock") /\ IF errorNum THEN UNCHANGED <<shared, errorNum>> ELSE Report(t)
    /\ UNCHANGED <<oneByOne, mutex, initialized, envHandle, key, attempts, mine, told,
                   current, contexts, atExit>>

\* dpiOci__loadLib.  That nothing could be loaded is reported only if errorNum
\* of the buffer is 0, and nobody clears the shared one after a failure; that
\* what was loaded is unusable is reported always.  Either way the library and
\* its symbols are dropped.
LoadLib(t, loaded) ==
    /\ standsAt(t, "load") /\ libHandle' = (loaded \in {"first", "other"})
    /\ nothing' = IF loaded = "none" THEN nothing \union {mine[t]} ELSE nothing
    /\ IF libHandle' THEN moveTo(t, "env") /\ UNCHANGED <<shared, errorNum>>
       ELSE /\ moveTo(t, "unlock")
            /\ IF loaded = "none" /\ errorNum THEN UNCHANGED <<shared, errorNum>> ELSE Report(t)
    /\ UNCHANGED <<oneByOne, mutex, initialized, envHandle, key, attempts, mine, told,
                   current, contexts, atExit>>

\* MUTANT of CreateEnv: the environment that is refused is freed.
CreateEnvFreeing(t, created, ok) ==
    /\ standsAt(t, "env") /\ (ok => created)
    /\ envHandle' = IF ~created THEN "null" ELSE IF ok THEN "live" ELSE "freed"
    /\ IF ok THEN moveTo(t, "key") /\ UNCHANGED <<shared, errorNum>>
       ELSE /\ moveTo(t, "unlock") /\ shared' = mine[t]
            /\ errorNum' \in IF created THEN {errorNum, TRUE} ELSE {TRUE}
    /\ UNCHANGED <<oneByOne, mutex, initialized, libHandle, key, attempts, mine, told, nothing, current, contexts, atExit>>

\* dpiGlobal__extendedInitialize calls dpiOci__envNlsCreate.  An environment
\* that says why it cannot be used stays; OCI's message leaves errorNum alone.
CreateEnv(t, created, ok) ==
    /\ standsAt(t, "env") /\ (ok => created)
    /\ envHandle' = IF created THEN "live" ELSE "null"
    /\ IF ok THEN moveTo(t, "key") /\ UNCHANGED <<shared, errorNum>>
       ELSE /\ moveTo(t, "unlock") /\ shared' = mine[t]
            /\ errorNum' \in IF created THEN {errorNum, TRUE} ELSE {TRUE}
    /\ UNCHANGED <<oneByOne, mutex, initialized, libHandle, key, attempts, mine, told, nothing, current, contexts, atExit>>

\* The error handle and the thread key; without them the environment is
\* freed, and dpiGlobalEnvHandle still points at it.
CreateKey(t, ok) ==
    /\ standsAt(t, "key") /\ moveTo(t, "unlock")
    /\ IF ok THEN key' = TRUE /\ initialized' = TRUE /\ UNCHANGED <<envHandle, shared, errorNum, halfway>>
       ELSE envHandle' = "freed" /\ halfway' = TRUE /\ Report(t) /\ UNCHANGED <<key, initialized>>
    /\ UNCHANGED <<oneByOne, mutex, libHandle, attempts, mine, told, nothing, current, contexts, exiting, freedTwice>>

Unlock(t) ==
    /\ standsAt(t, "unlock") /\ mutex' = Nobody /\ moveTo(t, "again")
    /\ UNCHANGED <<oneByOne, initialized, libHandle, envHandle, key, errors, current, contexts, atExit>>

LookAgain(t) ==
    /\ standsAt(t, "again") /\ moveTo(t, IF initialized THEN "buffer" ELSE "failed")
    /\ UNCHANGED <<oneByOne, globals, errors, current, contexts, atExit>>

\* dpiContext_createWithParams hands out what the buffer in use says.
Fail(t) ==
    /\ standsAt(t, "failed") /\ moveTo(t, "out")
    /\ told' = [told EXCEPT ![t] = shared]
    /\ UNCHANGED <<oneByOne, globals, attempts, shared, errorNum, mine, nothing, current, contexts, atExit>>

\* dpiGlobal__getErrorBuffer, then dpiContext__create
CreateContext(t) ==
    /\ standsAt(t, "buffer") /\ envHandle = "live" /\ key /\ moveTo(t, "out")
    /\ contexts' = contexts + 1 /\ current' = contexts'
    /\ UNCHANGED <<oneByOne, globals, errors, atExit>>

\* dpiGlobal__initError, with which every other public function starts
CallFunction(t) ==
    /\ standsAt(t, "call") /\ moveTo(t, "out")
    /\ UNCHANGED <<oneByOne, globals, errors, current, contexts, atExit>>

\* dpiGlobal__finalize, at exit, with the other threads still running
Finalize ==
    /\ ~exiting /\ mutex = Nobody /\ exiting' = TRUE
    /\ initialized' = FALSE /\ key' = FALSE /\ envHandle' = "null"
    /\ freedTwice' = (envHandle = "freed")
    /\ UNCHANGED <<stage, oneByOne, mutex, libHandle, errors, current, contexts, halfway>>

LibraryStep(t) ==
    \/ Look(t) \/ Lock(t)
    \/ \E loaded \in Outcomes : LoadLib(t, loaded)
    \/ \E created, ok \in BOOLEAN : CreateEnv(t, created, ok)
    \/ \E ok \in BOOLEAN : CreateKey(t, ok)
    \/ Unlock(t) \/ LookAgain(t) \/ Fail(t) \/ CreateContext(t) \/ CallFunction(t)

LibraryNext == Finalize \/ \E t \in Loaders : Connect(t) \/ LibraryStep(t)

LibrarySpec == LibraryInit /\ [][LibraryNext]_libraryVars

---------------------------------------------------------------------------
\* A thread that found the library initialised finds all of it there, however
\* the threads that initialise it interleave; until the program exits.
ReadyWhenUsed ==
    \A t \in Loaders : stage[t] \in {"buffer", "call"} /\ ~exiting
        => initialized /\ libHandle /\ envHandle = "live" /\ key

\* What the process has once is made once and given back once.  Threads that
\* take turns never create a second context; threads that do not create at most
\* one each, and leak all but the last.  Exit frees the environment a second
\* time only when an attempt to initialise had freed it already, for want of an
\* error handle or a thread key.
OncePerProcess ==
    /\ contexts <= IF oneByOne THEN 1 ELSE Cardinality(Loaders)
    /\ freedTwice => halfway

\* A thread that fails alone is told its own reason, or an earlier one that
\* every attempt since has found no library to replace; until the program exits.
ReasonIsOwnOrInherited ==
    oneByOne /\ ~exiting => \A t \in Loaders : told[t] > 0 => told[t] + 1..mine[t] \subseteq nothing

\* The library is set up before it is used, and once.
SetUpOnce == ReadyWhenUsed /\ OncePerProcess

=============================================================================
