------------------------------- MODULE Compiler -------------------------------
(***************************************************************************)
(* Compiler::CompileToSharedLibrary and Compiler::RunShellCommand          *)
(* (src/src/components/module/compiler.cpp).                               *)
(*                                                                         *)
(* Every caller runs one call at a time through the steps of the function: *)
(* argument check and cache lookup, output directory and                   *)
(* compile_options.json, syntax-only toolchain run, compile toolchain run  *)
(* and cache insert.  The cache_ map is a plain std::map with no lock, so  *)
(* the steps of different callers interleave.  Strings are abstracted:     *)
(* source code is a model value that is or is not valid C++; a module or a *)
(* function name is a sequence of tokens, among them Sep for "::", so that *)
(* the cache key is their concatenation; Empty is the empty string.        *)
(***************************************************************************)
EXTENDS Integers, Sequences

CONSTANTS
  Callers,       \* threads calling CompileToSharedLibrary
  Modules,       \* moduleName values: sequences of tokens
  Functions,     \* functionName values: sequences of tokens
  Sep,           \* the token "::"
  Codes,         \* source code values
  ValidCodes,    \* the codes the toolchain accepts
  Empty,         \* the empty string
  ConfigFiles,   \* possible contents of compile_options.json
  MkdirMayFail,  \* fs::create_directories may throw
  PopenMayFail,  \* popen may fail to start the shell
  MaxCalls,      \* bound on the number of calls
  NoFile         \* no artifact at an output path

ASSUME /\ ValidCodes \subseteq Codes
       /\ Empty \notin Codes \cup Modules \cup Functions
       /\ ConfigFiles \subseteq {"absent", "complete", "partial", "malformed"}
       /\ MkdirMayFail \in BOOLEAN /\ PopenMayFail \in BOOLEAN
       /\ MaxCalls \in Nat

VARIABLES
  cache,      \* cache_: cache key -> output path
  artifact,   \* the file at each output path: [fn, code] of its source, or NoFile
  dirExists,  \* modules/global/ exists
  config,     \* compile_options.json, fixed for the run
  pc,         \* step each caller is at
  call,       \* arguments (and resolved flags) of each caller's current call
  ret,        \* value each caller's last call returned (FALSE before any)
  toolRuns,   \* history: number of toolchain processes started
  calls       \* number of calls made, bounded by MaxCalls

vars == <<cache, artifact, dirExists, config, pc, call, ret, toolRuns, calls>>

\* moduleName + "::" + functionName (lines 68, 145): a module name holding
\* "::" gives the same key as a function name holding it.
CacheKey(m, f) == m \o <<Sep>> \o f

\* outputDir + moduleName + CMD_SUFFIX (line 120): one path per module name,
\* whatever the function; the fixed prefix and suffix keep it one-to-one.
OutputPath(m) == m

Key(c) == CacheKey(call[c].m, call[c].f)

Call == [code : Codes \cup {Empty}, m : Modules \cup {Empty},
         f : Functions \cup {Empty}, flags : {"default", "user"}]

\* RunShellCommand (lines 254-268) for a child that exits with status s.
\* popen failing returns -1 and starts no child.  Otherwise fclose (263)
\* already waits for the child and frees the stream, and pclose (265) then
\* reads the freed FILE: undefined, so the exit code returned is either the
\* child's status or WEXITSTATUS(-1) = 255.
RunShellCommand(s) == {s, 255} \cup (IF PopenMayFail THEN {-1} ELSE {})

\* The child ran (and so wrote its output) unless popen failed.
ChildRan(r) == r # -1

\* Status of g++ -fsyntax-only on the code (line 124).
SyntaxStatus(c) == IF call[c].code \in ValidCodes THEN 0 ELSE 1

\* Statuses of the compile command (line 134): valid code compiles with the
\* built-in flags; flags read from compile_options.json may be rejected.
CompileStatuses(c) ==
  IF call[c].code \notin ValidCodes THEN {1}
  ELSE IF call[c].flags = "default" THEN {0} ELSE {0, 1}

Return(c, r) ==
  /\ pc' = [pc EXCEPT ![c] = "idle"]
  /\ ret' = [ret EXCEPT ![c] = r]

-----------------------------------------------------------------------------
Init ==
  /\ cache = [k \in {} |-> NoFile]
  /\ artifact = [p \in Modules |-> NoFile]
  /\ dirExists \in BOOLEAN
  /\ config \in ConfigFiles
  /\ pc = [c \in Callers |-> "idle"]
  /\ call = [c \in Callers |-> [code |-> Empty, m |-> Empty, f |-> Empty,
                                flags |-> "default"]]
  /\ ret = [c \in Callers |-> FALSE]
  /\ toolRuns = 0
  /\ calls = 0

\* A caller enters CompileToSharedLibrary(code, moduleName, functionName).
Enter(c, code, m, f) ==
  /\ pc[c] = "idle"
  /\ calls < MaxCalls
  /\ calls' = calls + 1
  /\ call' = [call EXCEPT ![c] = [code |-> code, m |-> m, f |-> f,
                                  flags |-> "default"]]
  /\ pc' = [pc EXCEPT ![c] = "lookup"]
  /\ UNCHANGED <<cache, artifact, dirExists, config, ret, toolRuns>>

\* Mutant of Lookup: the hit is logged but the return is missing, so the
\* call goes on to build the cached key again.
LookupNoReturn(c) ==
  /\ pc[c] = "lookup"
  /\ \/ /\ Empty \in {call[c].code, call[c].m, call[c].f}
        /\ Return(c, FALSE)
     \/ /\ Empty \notin {call[c].code, call[c].m, call[c].f}
        /\ pc' = [pc EXCEPT ![c] = "prepare"]
        /\ UNCHANGED ret
  /\ UNCHANGED <<cache, artifact, dirExists, config, call, toolRuns, calls>>

\* Lines 58-73: parameter check, then the cache lookup.
Lookup(c) ==
  /\ pc[c] = "lookup"
  /\ \/ /\ Empty \in {call[c].code, call[c].m, call[c].f}
        /\ Return(c, FALSE)
     \/ /\ Empty \notin {call[c].code, call[c].m, call[c].f}
        /\ Key(c) \in DOMAIN cache
        /\ Return(c, TRUE)
     \/ /\ Empty \notin {call[c].code, call[c].m, call[c].f}
        /\ Key(c) \notin DOMAIN cache
        /\ pc' = [pc EXCEPT ![c] = "prepare"]
        /\ UNCHANGED ret
  /\ UNCHANGED <<cache, artifact, dirExists, config, call, toolRuns, calls>>

\* Mutant of Prepare: a compile_options.json lacking a field is merged with
\* the defaults instead of failing.
PrepareMergePartial(c) ==
  /\ pc[c] = "prepare"
  /\ \/ /\ ~dirExists
        /\ MkdirMayFail
        /\ Return(c, FALSE)
        /\ UNCHANGED <<dirExists, call>>
     \/ /\ dirExists' = TRUE
        /\ \/ /\ config = "malformed"
              /\ Return(c, FALSE)
              /\ UNCHANGED call
           \/ /\ config \in {"absent", "complete", "partial"}
              /\ call' = [call EXCEPT ![c].flags =
                            IF config = "complete" THEN "user" ELSE "default"]
              /\ pc' = [pc EXCEPT ![c] = "syntax"]
              /\ UNCHANGED ret
  /\ UNCHANGED <<cache, artifact, config, toolRuns, calls>>

\* Lines 75-117: create the output directory if missing, then resolve the
\* compile options: built-in defaults when compile_options.json is absent,
\* the file's three fields when it has all of them, failure otherwise.
Prepare(c) ==
  /\ pc[c] = "prepare"
  /\ \/ /\ ~dirExists
        /\ MkdirMayFail
        /\ Return(c, FALSE)
        /\ UNCHANGED <<dirExists, call>>
     \/ /\ dirExists' = TRUE
        /\ \/ /\ config \in {"partial", "malformed"}
              /\ Return(c, FALSE)
              /\ UNCHANGED call
           \/ /\ config \in {"absent", "complete"}
              /\ call' = [call EXCEPT ![c].flags =
                            IF config = "complete" THEN "user" ELSE "default"]
              /\ pc' = [pc EXCEPT ![c] = "syntax"]
              /\ UNCHANGED ret
  /\ UNCHANGED <<cache, artifact, config, toolRuns, calls>>

\* Lines 122-130: g++ -fsyntax-only with the code on its standard input.
SyntaxCheck(c) ==
  /\ pc[c] = "syntax"
  /\ \E r \in RunShellCommand(SyntaxStatus(c)) :
       /\ toolRuns' = toolRuns + (IF ChildRan(r) THEN 1 ELSE 0)
       /\ \/ /\ r # 0
             /\ Return(c, FALSE)
          \/ /\ r = 0
             /\ pc' = [pc EXCEPT ![c] = "compile"]
             /\ UNCHANGED ret
  /\ UNCHANGED <<cache, artifact, dirExists, config, call, calls>>

\* Mutant of CompileStage: cache_ keyed by the module name alone.
CompileStageKeyByModule(c) ==
  /\ pc[c] = "compile"
  /\ \E s \in CompileStatuses(c) : \E r \in RunShellCommand(s) :
       /\ toolRuns' = toolRuns + (IF ChildRan(r) THEN 1 ELSE 0)
       /\ artifact' = IF s = 0 /\ ChildRan(r)
                      THEN [artifact EXCEPT ![OutputPath(call[c].m)] =
                              [fn |-> call[c].f, code |-> call[c].code]]
                      ELSE artifact
       /\ \/ /\ r # 0
             /\ UNCHANGED cache
          \/ /\ r = 0
             /\ cache' = [k \in DOMAIN cache \cup {call[c].m} |->
                            IF k = call[c].m THEN OutputPath(call[c].m)
                            ELSE cache[k]]
       /\ Return(c, FALSE)
  /\ UNCHANGED <<dirExists, config, call, calls>>

\* Mutant of CompileStage: the exit code of the compile is not checked.
CompileStageIgnoreExit(c) ==
  /\ pc[c] = "compile"
  /\ \E s \in CompileStatuses(c) : \E r \in RunShellCommand(s) :
       /\ toolRuns' = toolRuns + (IF ChildRan(r) THEN 1 ELSE 0)
       /\ artifact' = IF s = 0 /\ ChildRan(r)
                      THEN [artifact EXCEPT ![OutputPath(call[c].m)] =
                              [fn |-> call[c].f, code |-> call[c].code]]
                      ELSE artifact
       /\ cache' = [k \in DOMAIN cache \cup {Key(c)} |->
                      IF k = Key(c) THEN OutputPath(call[c].m) ELSE cache[k]]
       /\ Return(c, FALSE)
  /\ UNCHANGED <<dirExists, config, call, calls>>

\* Lines 132-157: compile to outputDir/moduleName.so, then cache the output
\* path and return false (line 157: the load that would return true is
\* commented out).  The child writes the artifact whenever it exits 0, even
\* when the exit code read back is wrong.
CompileStage(c) ==
  /\ pc[c] = "compile"
  /\ \E s \in CompileStatuses(c) : \E r \in RunShellCommand(s) :
       /\ toolRuns' = toolRuns + (IF ChildRan(r) THEN 1 ELSE 0)
       /\ artifact' = IF s = 0 /\ ChildRan(r)
                      THEN [artifact EXCEPT ![OutputPath(call[c].m)] =
                              [fn |-> call[c].f, code |-> call[c].code]]
                      ELSE artifact
       /\ \/ /\ r # 0
             /\ UNCHANGED cache
          \/ /\ r = 0
             /\ cache' = [k \in DOMAIN cache \cup {Key(c)} |->
                            IF k = Key(c) THEN OutputPath(call[c].m)
                            ELSE cache[k]]
       /\ Return(c, FALSE)
  /\ UNCHANGED <<dirExists, config, call, calls>>

Next ==
  \/ \E c \in Callers, code \in Codes \cup {Empty}, m \in Modules \cup {Empty},
        f \in Functions \cup {Empty} : Enter(c, code, m, f)
  \/ \E c \in Callers :
       Lookup(c) \/ Prepare(c) \/ SyntaxCheck(c) \/ CompileStage(c)

Spec == Init /\ [][Next]_vars

\* The abstract cache, with cache_ as its memo and the output files as its
\* disk.
Memo == INSTANCE CompileCache
          WITH Keys <- Modules \X Functions, Paths <- Modules,
               Accepted <- ValidCodes, PathOf <- LAMBDA k : OutputPath(k[1]),
               memo <- [k \in {p \in Modules \X Functions :
                                CacheKey(p[1], p[2]) \in DOMAIN cache} |->
                          cache[CacheKey(k[1], k[2])]],
               disk <- artifact

-----------------------------------------------------------------------------
TypeOK ==
  /\ DOMAIN cache \subseteq {CacheKey(m, f) : m \in Modules, f \in Functions}
  /\ \A k \in DOMAIN cache : cache[k] \in Modules
  /\ artifact \in [Modules -> [fn : Functions, code : Codes] \cup {NoFile}]
  /\ dirExists \in BOOLEAN
  /\ config \in ConfigFiles
  /\ pc \in [Callers -> {"idle", "lookup", "prepare", "syntax", "compile"}]
  /\ call \in [Callers -> Call]
  /\ ret \in [Callers -> BOOLEAN]
  /\ toolRuns \in Nat
  /\ calls \in 0..MaxCalls

\* Spec 3 and 8: once (moduleName, functionName) is cached, no compile
\* toolchain run is started for it again.  Breaking it takes a lookup that
\* misses (line 69) and an insert (line 145) of the same key in between.
NoRecompileOfCachedKey ==
  [][\A c \in Callers :
       (pc[c] = "compile" /\ toolRuns' > toolRuns) => Key(c) \notin DOMAIN cache
    ]_vars

\* Spec 8: with a compile_options.json that lacks a field or does not parse,
\* no call ever starts the toolchain (lines 100-116 fail closed).
FailClosedConfig ==
  config \in {"partial", "malformed"} => toolRuns = 0

\* Every cached output path names an artifact on disk built from valid code:
\* a cache entry is only made after a compile that exited 0 (lines 137-145).
CacheEntriesHaveArtifacts ==
  \A k \in DOMAIN cache :
    artifact[cache[k]] # NoFile /\ artifact[cache[k]].code \in ValidCodes

\* Spec 4.1 step 1: the cached artifact path stays authoritative: for every
\* (moduleName, functionName) that a lookup (line 68) finds in cache_, the
\* file at the cached path holds that function.  Broken by a later compile
\* into the same path (line 120), or by a key shared by two pairs.
CachedArtifactIntact ==
  \A m \in Modules, f \in Functions :
    LET k == CacheKey(m, f)
    IN  k \in DOMAIN cache =>
          artifact[cache[k]] # NoFile /\ artifact[cache[k]].fn = f

\* CompileToSharedLibrary implements the abstract cache: every step of a
\* call either leaves cache_ and the output files alone or is a build of a
\* key cache_ does not hold, from accepted code, that writes its library and
\* may record it (lines 68-73, 132-145); an entry is never changed or lost.
CacheRefinement == Memo!Spec

=============================================================================
