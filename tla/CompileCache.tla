----------------------------- MODULE CompileCache -----------------------------
(***************************************************************************)
(* What the cache of Compiler::CompileToSharedLibrary promises, without    *)
(* the steps of a call: a memo from a (module, function) key to the path   *)
(* of a shared library, and the libraries on disk.  A library is written   *)
(* only by a build of a key the memo does not hold, from code the          *)
(* toolchain accepts; that build may or may not be recorded.  An entry,    *)
(* once made, is never changed or dropped.  Lookups, rejected builds and   *)
(* failed calls leave both as they are.  Compiler refines this module with *)
(* cache_ as the memo and the output files as the disk.                    *)
(***************************************************************************)
CONSTANTS
  Keys,       \* (moduleName, functionName) pairs
  Paths,      \* output paths
  Accepted,   \* source codes the toolchain accepts
  NoFile,     \* no library at a path
  PathOf(_)   \* the output path a key is built to

VARIABLES
  memo,  \* key -> path, for the keys recorded
  disk   \* path -> [fn, code] of the library there, or NoFile

\* The library a build of key k from code c leaves at its path.
Lib(k, c) == [fn |-> k[2], code |-> c]

Record(k) == [j \in DOMAIN memo \cup {k} |-> IF j = k THEN PathOf(k) ELSE memo[j]]

Init ==
  /\ memo = [k \in {} |-> NoFile]
  /\ disk = [p \in Paths |-> NoFile]

\* A build of a key not in the memo, from accepted code.
Build(k, c) ==
  /\ k \notin DOMAIN memo
  /\ disk' = [disk EXCEPT ![PathOf(k)] = Lib(k, c)]
  /\ memo' \in {memo, Record(k)}

Next == \E k \in Keys, c \in Accepted : Build(k, c)

Spec == Init /\ [][Next]_<<memo, disk>>

=============================================================================
