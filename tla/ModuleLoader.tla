----------------------------- MODULE ModuleLoader -----------------------------
(***************************************************************************)
(* OpenAPT::ModuleLoader (src/src/modloader.hpp) composed with the         *)
(* ThreadManager it hands units of work to.  handles_ maps a module name   *)
(* to its dlopen handle; every module is opened RTLD_NOW | RTLD_GLOBAL     *)
(* (line 56), so its symbols also join the process-wide scope that        *)
(* dlsym(NULL, ...) searches in load order.  LoadModule and UnloadModule   *)
(* have no body in the repository and follow spec section 4.2.             *)
(* LoadAndRunFunction and GetHandle are translated from the header.        *)
(***************************************************************************)
EXTENDS Naturals, Sequences

CONSTANTS
  Callers,   \* host threads calling the loader
  Names,     \* thread names
  Modules,   \* module names (one artifact per name)
  Symbols,   \* function names
  Exports,   \* Exports[m]: the functions artifact m defines
  MaxSpawn,  \* bound on the number of threads spawned
  Null       \* nullptr

ASSUME /\ Exports \in [Modules -> SUBSET Symbols]
       /\ Null \notin Modules \cup Symbols

VARIABLES
  loaded,    \* handles_, in dlopen order (the order of the global scope)
  faults,    \* history: ids of threads that called a null pointer or unmapped code
  threads, waiting, spawned   \* the ThreadManager's state

vars == <<loaded, faults, threads, waiting, spawned>>

\* A unit of work: the module whose code the bound function pointer points
\* into and the symbol, or the null function pointer.
NullWork == [mod |-> Null, sym |-> Null]
WorkSet == [mod : Modules, sym : Symbols] \cup {NullWork}

TM == INSTANCE ThreadManager WITH Works <- WorkSet

Handles == {loaded[i] : i \in DOMAIN loaded}

\* GetHandle (lines 158-164): the handle, or nullptr for an unknown name.
GetHandle(name) == IF name \in Handles THEN name ELSE Null

\* dlsym(handle, f): the symbol in that handle's object; with a null handle
\* (RTLD_DEFAULT on glibc) the first object of the global scope defining it.
Dlsym(handle, f) ==
  IF handle # Null
  THEN IF f \in Exports[handle] THEN [mod |-> handle, sym |-> f] ELSE NullWork
  ELSE IF \E i \in DOMAIN loaded : f \in Exports[loaded[i]]
       THEN [mod |-> loaded[CHOOSE i \in DOMAIN loaded :
                               /\ f \in Exports[loaded[i]]
                               /\ \A j \in 1..(i - 1) : f \notin Exports[loaded[j]]],
             sym |-> f]
       ELSE NullWork

-----------------------------------------------------------------------------
Init ==
  /\ loaded = <<>>
  /\ faults = {}
  /\ TM!Init

LoadModule(m) ==
  /\ m \notin Handles
  /\ \/ loaded' = Append(loaded, m)
     \/ UNCHANGED loaded
  /\ UNCHANGED <<faults, threads, waiting, spawned>>

\* UnloadModule(name): NotFoundError for an unknown name; otherwise
\* dlclose releases the handle and the entry is erased.
UnloadModule(m) ==
  /\ \/ /\ m \notin Handles
        /\ UNCHANGED loaded
     \/ /\ m \in Handles
        /\ loaded' = SelectSeq(loaded, LAMBDA x : x # m)
  /\ UNCHANGED <<faults, threads, waiting, spawned>>

\* LoadAndRunFunction<T, Args...>(module_name, func_name, thread_name, args)
\* (lines 126-147): GetHandle, dlsym; a missing symbol is only logged
\* (lines 137-139), and the function pointer, null or not, is bound and
\* handed to addThread.  The result is not waited for.
LoadAndRunFunction(c, m, f, t) ==
  /\ TM!AddThread(c, Dlsym(GetHandle(m), f), t)
  /\ UNCHANGED <<loaded, faults>>

\* A spawned thread runs its unit of work to completion.  Calling the null
\* pointer, or code of a module dlclosed since, faults.
RunWork(id) ==
  /\ TM!Complete(id)
  /\ LET w == TM!EntryOf(id).work
     IN faults' = IF w.mod = Null \/ w.mod \notin Handles
                  THEN faults \cup {id} ELSE faults
  /\ UNCHANGED loaded

\* The host joins or waits on threads through the ThreadManager.
ManageThreads(c) ==
  /\ \/ \E n \in Names : TM!JoinThreadByName(c, n) \/ TM!SleepThreadByName(c, n)
     \/ TM!JoinWake(c) \/ TM!JoinAllThreads(c) \/ TM!JoinAllWake(c)
     \/ TM!SleepWake(c)
  /\ UNCHANGED <<loaded, faults>>

Next ==
  \/ \E m \in Modules : LoadModule(m) \/ UnloadModule(m)
  \/ \E c \in Callers, m \in Modules, f \in Symbols, t \in Names :
       LoadAndRunFunction(c, m, f, t)
  \/ \E id \in TM!Ids : RunWork(id)
  \/ \E c \in Callers : ManageThreads(c)

Spec == Init /\ [][Next]_vars

-----------------------------------------------------------------------------
\* handles_ is an unordered_map (line 167): a name is registered, and its
\* artifact dlopen'ed by the loader, at most once, so that UnloadModule's one
\* dlclose releases it.
TypeOK ==
  /\ loaded \in Seq(Modules)
  /\ \A i, j \in DOMAIN loaded : i # j => loaded[i] # loaded[j]
  /\ faults \subseteq TM!Ids
  /\ TM!TypeOK

\* Spec 4.2: the unit of work LoadAndRunFunction(m, f, ...) submits is f
\* resolved inside m's handle; an unknown module or a missing symbol is an
\* error and spawns nothing.
SubmittedWorkResolvedInNamedModule ==
  [][\A c \in Callers, m \in Modules, f \in Symbols, t \in Names :
       (LoadAndRunFunction(c, m, f, t) /\ spawned' > spawned)
         => threads'[Len(threads')].work = [mod |-> m, sym |-> f]]_vars

=============================================================================
