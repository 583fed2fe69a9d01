# TLA+ models of OpenAPT

These modules model the stateful parts of OpenAPT (`src/src/...`) that a
model checker can say something about. They cover the module compiler, the
dynamic-module loader together with the thread manager it drives, the device
registry, the download manager's task list, the TCP client, and the zlib file
and folder (de)compression. `CompileCache.tla` states what the compiler's
cache promises, and `Compiler.tla` is checked to implement it. Every action is translated
from the C++ named in `PROJECT.json` → `map`. The exceptions are the
ThreadManager operations and `ModuleLoader::LoadModule`/`UnloadModule`, which
have no body in the repository and follow `spec.md` §4.2–4.3.

## 1. Inventory of the system

| Part | Source | State | Operations | Interacts with |
|---|---|---|---|---|
| Compiler | `components/module/compiler.cpp` | `cache_` (key → output path), `modules/global/`, `compile_options.json`, the `.so` files | `CompileToSharedLibrary`, `RunShellCommand`, `CopyFile` | g++ via `popen`; ModuleLoader (the load call is commented out) |
| ModuleLoader | `modloader.hpp` | `handles_` (name → dlopen handle, RTLD_GLOBAL) | `LoadModule`, `UnloadModule` (no body), `LoadAndRunFunction`, `GetHandle` | ThreadManager (`addThread`) |
| ThreadManager | `core/thread.hpp` (header only) | `m_threads` (thread, name, completed), `m_mtx`, `m_cv`, `m_maxThreads` | `addThread`, `joinThreadByName`, `joinAllThreads`, `sleepThreadByName`, `isThreadRunning` | the worker threads it spawns |
| DeviceManager | `device/manager.cpp`, `components/device/device_manager.hpp` | `m_devices[type]`: devices by name; `m_mutex`, never locked | `addDevice` (renaming loop), `removeDevice`, `removeDevicesByName`, `getDevice`, `findDevice`, `findDeviceByName`, `getDeviceList`, the destructor | the six device classes, whose operations are stubs that return true |
| DownloadManager | `package/downloader.cpp` | `tasks_` in memory and the task file on disk | constructor, which reads the file; `add_task`, which appends; `remove_task`, which changes memory only; destructor, which rewrites the file; `start`; `download_task` | libcurl, a thread per task |
| TcpClient | `network/socketclient.cpp` | the socket | `Connect`, `Send`, `Receive`, `ClearSocket`, `Disconnect`, `CheckServerExistence` | a newline-framed JSON server |
| Compression | `components/io/compress.cpp` | the files it writes: `<file>.gz`, `<stem>.out`, `<folder>.gz`, the zip, the extracted `<total_in>.txt` files | `compress_file`, `decompress_file`, `compress_folder`, `create_zip`, `extract_zip` | zlib, the filesystem |
| network utils, search, app shell, INDI exceptions | various | none retained | I/O wrappers, declarations | — |

These behaviours are hard to test:
- **Unsynchronised cache.** `cache_` is shared with no lock, so two calls can interleave between the cache lookup and the insert.
- **Output path.** A module's `.so` path ignores the function name.
- **Key concatenation.** The cache key `moduleName::functionName` is shared by two pairs when a name holds `::`.
- **Return value.** `CompileToSharedLibrary` returns false after a successful compile.
- **Double close.** `RunShellCommand` calls `fclose` and then `pclose` on the same stream.
- **Fallback lookup.** `dlsym(nullptr)` searches the global scope in load order.
- **Null function pointer.** A null pointer is handed to a thread.
- **Reused thread names.** A name can be taken again between a thread's completion and its join.
- **Mid-line stall.** A server that stops in the middle of a line leaves `Receive` blocked despite its timeout.
- **Failed reads.** A read error that is not end of file makes `compress_file` loop for good.
- **Renaming loop.** It must work against names that users chose themselves.
- **Persistence.** The download task list survives through a file that is appended to and rewritten at different times; crashes and failed opens sit in between.
- **Task file format.** The task file is read back word by word, so a task with an empty path, or a path with a space, does not survive a restart.
- **Endless poll.** `download_task`'s progress poll never ends.
- **Lost lines.** `Receive` reads past the first newline into a buffer that dies with the call.
- **Unchecked closes.** `gzclose` and `fclose` results are ignored, and `gzread`'s early end is taken for the end of the data.

`PROJECT.json` → `hazards` lists each of these at its line.

## 2. Plan

The modules are built in this order:

1. `Compiler`: one caller state machine per host thread. Steps: lookup → prepare → syntax → compile.
2. `ThreadManager`: the registry and the blocked callers.
3. `ModuleLoader`: composes ThreadManager through `INSTANCE ThreadManager WITH Works <- WorkSet`.
4. `DeviceManager`: the recursive `FreeName` for the renaming loop.
5. `DownloadManager`: memory, file, crash and restart.

6. `TcpClient`: the client against a server and a network that splits the stream.
7. `Compress`: the five zlib wrappers, block by block, with I/O failures.

8. `CompileCache`: the abstract cache, refined by `Compiler` (`INSTANCE CompileCache WITH memo <- cache, disk <- artifact`).

Planned for later:
- Per-thread references for the `tasks_` reallocation hazard.

The runs are capped at twelve. Each pass run checks one component; ThreadManager is checked through ModuleLoader, which drives all its operations. Each violation run states one claim from `spec.md`, or from the code's own structure, that the code breaks.

## 3. Modules and their correspondence to the code

### Compiler

`Compiler.tla` (`MC_Compiler.tla`)

**State.** `cache` is `cache_`. `artifact` is the file at each output path. `dirExists` and `config` stand for `modules/global/` and `compile_options.json`, which is either absent, complete, partial or malformed. `pc` and `call` hold each caller's progress and arguments, and `ret` holds what its last call returned. `toolRuns` counts the toolchain runs.

**Actions.** One action per block of the function:
- `Lookup`: lines 60-73.
- `Prepare`: lines 75-117.
- `SyntaxCheck`: lines 122-130.
- `CompileStage`: lines 132-157.

`RunShellCommand(s)` is the set of exit codes the POSIX branch can return for a child that exits with `s`:
- `s` itself;
- 255, because `pclose` on a stream that `fclose` already freed is undefined behaviour;
- -1, when `popen` fails.

Source code is a model value. A module or function name is a sequence of tokens, and the token `Sep` stands for `::`. So `CacheKey(m, f)` is the concatenation `m \o <<Sep>> \o f` that lines 68 and 145 build. The output path depends only on the module; the fixed prefix and suffix keep it one-to-one.

The runs use one-token names, which contain no `::`. `MC_Compiler.tla` also defines `ScopedModules` (`m1`, `m1::f1`) and `ScopedFunctions` (`f2`, `f1::f2`). With those sets for `Modules` and `Functions`, the `compiler_overwrite` configuration finds `CachedArtifactIntact` violated after a single compile (277 states). The compile of `("m1::f1", "f2")` makes the key `m1::f1::f2`, which is also the key of `("m1", "f1::f2")`, so a lookup of that pair would return true for a library that does not define it. It is not a run of its own, because all twelve run slots are taken.

**Refinement.** `CompileCache.tla` is the cache without the steps of a call. It has a memo from key to path and the libraries on disk. `Build(k, c)` is the only step. It applies to a key the memo does not hold and code the toolchain accepts. It writes the library for `k` at its path and may record it. Lookups, rejected builds and every other step leave both unchanged. `Compiler.tla` instantiates it as `Memo` with `memo <- cache` and `disk <- artifact`. `CacheRefinement == Memo!Spec` is checked as a `PROPERTY`. It says three things:
- entries are never changed or dropped;
- an entry is made only in the step that writes its library from accepted code;
- no step rebuilds a key the cache holds.

### ThreadManager

`ThreadManager.tla`, checked through `ModuleLoader.tla` (`MC_ModuleLoader.tla`)

**State.** `threads` is `m_threads`. The `std::thread` object becomes an id, and the completed flag becomes `done`. `waiting` records what each host thread is blocked on. `spawned` counts the threads started.

**Actions.** Every operation holds `m_mtx` as spec §4.3 says, so each action is atomic. A join is split into a call (`JoinThreadByName` / `JoinAllThreads`) and a wake on `m_cv` (`JoinWake` / `JoinAllWake`). That split lets other callers act while one waits. `TMNext` and `Spec` describe the manager alone; the `loader` run drives every one of these actions through ModuleLoader's `ManageThreads` from two host threads.

**What is not claimed.** `joinThread` (line 60) takes a `tuple&` into `m_threads` and a `unique_lock` it may release while joining, and its body is missing. The model joins atomically and by id, so it is not a model of concurrent joiners (spec §4.3: `joinAllThreads` is "not safe for concurrent shutdown callers"). For that reason no property is checked on the registry's join behaviour: uniqueness of names, reclaiming only completed threads, and joins returning would all rest on that abstraction. The hazards at `thread.hpp:53` and `:54` say so.

### ModuleLoader

`ModuleLoader.tla` (`MC_ModuleLoader.tla`)

**State.** `loaded` is `handles_`, kept in dlopen order, which is the order of the global scope.

**Functions.**
- `GetHandle` is lines 158-164.
- `Dlsym` is `dlsym`, including the `RTLD_DEFAULT` search for a null handle.
- `LoadAndRunFunction` is lines 126-147 and calls the instantiated `TM!AddThread`.
- Every module is opened `RTLD_GLOBAL` (line 56). With a null handle `Dlsym` finds the first module of the global scope that defines the symbol. `loader_resolve` shows the consequence.
- `TypeOK` also states that `handles_`, an `unordered_map` (line 167), holds a name at most once, so one `dlclose` in `UnloadModule` releases the artifact. Its mutant `LoadModuleNoDupCheck` drops spec §4.2's duplicate-name check.

**Actions.**
- `RunWork` completes a thread. If the work is the null pointer, or its module has been unloaded, the run is recorded in `faults`.
- `LoadModule` and `UnloadModule` are taken from spec §4.2.

### DeviceManager

`DeviceManager.tla` (`MC_DeviceManager.tla`)

**State.** `m_devices[type]` is the sequence of device names. A name is its `-`-separated parts, `<<a, 1>>` for `a-1`, so a name the user typed and a name the loop generated compare equal, exactly as the strings do.

**Functions.** The `while (findDevice(...) != -1)` loop is the `RECURSIVE` operator `FreeName`. `GetDeviceList`, `GetDevice` and `FindDeviceByName` are the lookups; the last searches the types in `DeviceType` order (`TypeOrder`). Each device class (`Camera` … `Guider`) is a record: its `getStatus` constant and the operations it adds. `ClassOf` picks the class `addDevice` instantiates.

**Actions.**
- `AddDevice`, `RemoveDevice` and `RemoveDevicesByName`.
- `UseDevice`: the host calls any operation on a device a lookup returned. The stubs change nothing, and a null result is not used.
- `Destroy`: the destructor. It disconnects every device and then nothing more can be called. `alive` records this.

`TypeOK` also requires every slot of every vector to hold a named device, because the lookups call `getName()` on each slot. Its mutant `RemoveDevicesByNameNoErase` is `std::remove_if` without the `erase`, which leaves null `shared_ptr`s at the tail.

### DownloadManager

`DownloadManager.tla` (`MC_DownloadManager.tla`)

**State.**
- `file` is the task file, as the sequence of words its lines hold. A string is the sequence of its whitespace-separated words, so `""` is `<<>>`. `Tokens` is what one `url << " " << filepath << std::endl` line adds. `Written` is the destructor's rewrite. `ReadTasks` is the constructor's `infile >> url >> filepath` loop, which takes the next two words wherever they are.
- `tasks` is `tasks_`.
- `phase` is down, up, or closing. Closing is the point between the destructor's truncate and its write.
- `worker[i]` is where `download_task(i)` is.

**Actions.**
- `Construct`: the constructor.
- `AddTask`: `add_task`. Its append may fail.
- `RemoveTask`: `remove_task`.
- `CloseOpen` / `CloseWrite`: the destructor. The open may fail.
- `Start`, `WorkerStep`, `Transfer`, `StartReturn`: `start` and `download_task`.
- `Crash`: loses memory and keeps the file.

**History variables.** `expected` holds the tasks added and not removed. `clean` means there has been no crash and no failed rewrite so far.

### TcpClient

`TcpClient.tla` (`MC_TcpClient.tla`)

**State.** The byte stream to the client is a sequence of items: the body of line `k` (the number `k`), `NL`, and `EOF` after the server closed. `inflight` is what the network still holds, `rbuf` what `socket_.available()` counts, `local` the `streambuf` of a running `Receive`. `got` and `discarded` are histories of the lines returned and of the lines the client dropped on purpose (a reconnect, `Disconnect`, `ClearSocket`).

**Actions.**
- `Connect` (lines 13-29): `asio::connect` closes the socket first, so undelivered bytes are dropped; it succeeds when the server listens.
- `Send` (31-45): may succeed or fail; the server side does not depend on it.
- `Receive` is split at its blocking reads: `RecvBegin` (47-62, 73-77, returning false when nothing is available), `RecvMore` (63, another `read_some`), `RecvFinish` (64-72, `getline` on the first line, the rest destroyed with `local`), `RecvEof` (78-83).
- `Disconnect` (86-95) and `ClearSocket` (129-139).
- `CheckServerExistence` (97-116) opens and closes a temporary socket and leaves the client's state alone. Its `else` branch is dead: a failed `asio::connect` throws, and nothing catches it.
- The environment: `ServerWrite` writes a line's body and `ServerEndLine` its newline. The server may stop between the two for good. `ServerClose` ends the stream, also mid-line. `Arrive` moves any nonempty prefix of `inflight` into `rbuf`.

### Compress

`Compress.tla` (`MC_Compress.tla`)

**State.** A file's data is a sequence of blocks, one per `CHUNK`-sized read. A gzip file is its data and `complete`, whether the stream was finished with its trailer. A reader (`Readable`) gets all of a finished stream and any prefix of an unfinished one, then `gzread` returns 0 or -1. `compressed` and `decompressed` record that the last `compress_file`, and a `decompress_file` after it, returned true.

**Actions.** One host thread makes one call at a time (`pc`), each split into its begin, its loop body and its end:
- `compress_file`: `CompressBegin` (54-77), `CompressStep` (79-92, with the `eofbit` rule: a file whose size is a multiple of `CHUNK` ends with an empty read; a read may also fail without reaching the end), `CompressSpin` (the loop after such a failure: `eofbit` never comes and the call never returns), `CompressEnd` (94-98, `gzclose` may fail unseen).
- `decompress_file`: `DecompressBegin` (100-123), `DecompressStep` (125-136), `DecompressEnd` (138-142, `fclose` may lose the buffered tail unseen).
- `compress_folder` (POSIX): `FolderBegin`, `FolderEntry` (a subdirectory's recursive call writes `<folder>/sub.gz`, which `readdir` may or may not list later; unreadable files are skipped), `FolderRead`, `FolderEnd`.
- `create_zip`: `ZipBegin`, `ZipOpen`, `ZipRead` (`deflate(..., Z_FINISH)` on every block: the first ends the stream, later blocks get `Z_BUF_ERROR` and are dropped), `ZipEnd`.
- `extract_zip`: `ExtractBegin`, `ExtractStep` (appends each piece to the file named by `total_in`), `ExtractEnd`.

Every open, write and close may fail, and each failure takes the code's error path.

## 4. Runs

| Run | Expect | What it shows |
|---|---|---|
| `compiler_seq` | pass | With one caller, any config file, and mkdir and popen failures: a partial or malformed config never starts the toolchain, every cache entry names an artifact built from valid code, and `CompileToSharedLibrary` implements `CompileCache` (`CacheRefinement`). |
| `compiler_race` | violation | Two callers miss the cache for the same key, and both run g++. The cache has no lock (§5 says it is guarded). |
| `compiler_overwrite` | violation | `f2` overwrites `m1.so`, which the cache entry for `m1::f1` still names. |
| `loader` | pass | With two host threads loading, unloading, running and joining, a module name is registered, and its artifact opened, at most once. The run fires every loader and thread-manager action that `loader_resolve` builds on. |
| `loader_resolve` | violation | An unloaded module's function resolves to another module's symbol or to null, and is still run. |
| `devices` | pass | Through adds, removals, calls on looked-up devices and the destructor, renaming keeps names unique per type, even against user names such as `a-1`. |
| `downloads` | pass | Without a crash or a failed destructor open, the tasks not completed after any restart are exactly those added and not removed. Failed appends are included. |
| `downloads_start` | violation | `start()` never returns: the progress bar it polls is never completed. |
| `tcp` | pass | Through reconnects, a server that may stall or close mid-line, and any splitting of the stream, `Receive` returns lines in the server's order, never one twice. A `Receive` blocked in `read_until` returns once the server has closed (`ReceiveReturnsOnClose`); after a mid-line stall without a close it does not, which is the hazard at line 59. |
| `tcp_loss` | violation | Two lines reach the socket together; `Receive` returns the first and the second, already in its local `streambuf`, is lost (line 63). |
| `compress` | pass | Whatever open, read, write or close fails, `compress_file` and `decompress_file` only ever lose a tail of the data. |
| `compress_roundtrip` | violation | `compress_file` returns true though `gzclose` failed to finish the stream (line 95), and `decompress_file` returns true on that archive with part of the data (line 127). |

Three checks of the first version were retired to stay within twelve runs. Their defects are still in the models and in `PROJECT.json` → `hazards`:
- `CompileToSharedLibrary` returns false after a successful compile (line 157);
- `pclose` runs on a stream `fclose` already freed (line 265);
- spec §3 and §4.3 disagree on whether a completed, unjoined thread's name may be reused.

The fourth, the standalone ThreadManager run, was folded into `loader`.

Every property of a pass run has a mutant in `PROJECT.json`. A mutant is a plausible bug in a mapped definition, and TLC finds the property violated under the run's own configuration.

## 5. Bounds

**Compiler.**
- One module, two functions and `MaxCalls = 4` are enough for a compile, a cache hit, a recompile attempt and a second function's overwrite.
- The race needs two callers and only two calls.

**ModuleLoader and ThreadManager.**
- Two modules both export `f1`, which is what makes the `RTLD_DEFAULT` fallback pick a different module.
- Two host threads let one thread join or sleep while the other loads, unloads and spawns, and let both load the same module, which is what the duplicate-name check must refuse.

**DeviceManager.**
- With two types, requested names `a` and `a-1`, and `MaxDevices = 3`, the loop must skip a user-made `a-1` when it generates names.
- Removals can also reopen names the loop generated earlier.
- The run does not check for deadlock, because nothing can be called after the destructor.

**DownloadManager.**
- The two tasks have one-word urls and paths, so the file round trip is exact. `MC_DownloadManager.tla` also defines `OddLines`, with an empty filepath and a filepath with a space. With `TaskLines <- OddLines`, the `downloads` configuration finds `PendingTasksPersist` violated at the first restart: the task `add_task(u1, "")` wrote is dropped (306 states). It is not a run of its own, because all twelve run slots are taken.
- Two task lines, two task slots and three constructions give two full destructor/constructor rounds, with removals and failed appends between them.
- Three slots and more lines add nothing new and take minutes.

**TcpClient.**
- `MaxLines = 3` lets two lines reach the socket together behind a third.
- One `Send` is enough: nothing the server does depends on it.
- The loss needs only two lines.

**Compress.**
- Two block values and files of up to two blocks distinguish a prefix, a duplicate and a reordering.
- Three calls give compress then decompress then a third call, or a folder compressed twice, so that the `sub.gz` made by the first call is listed by the second.
- Three folders of two entries put a subdirectory before and after a file, and an unreadable file first.

## 6. Fairness

**ThreadManager and ModuleLoader.** No liveness is checked, so no fairness is assumed (see "What is not claimed" above).

**DownloadManager.** Every download thread's step and the joining return of `start` are weakly fair. Crash and the user operations are not.

**TcpClient.**
- TCP eventually delivers what is in flight (`WF` on `Arrive`).
- The host thread blocked in `read_until` runs when it can progress (`WF` on `RecvMore`, `RecvFinish` and `RecvEof`).
- The server and the client's own calls are not fair. The server may stall mid-line forever, so `ReceiveReturnsOnClose` claims a return only once the server has closed.

**Compress.** Only safety is checked, so no fairness is assumed. A call need not return: a failed read makes `compress_file` loop for good (`CompressSpin`).

**Compiler.** Only safety is checked, so no fairness is assumed.

## 7. Not modelled

- **TcpClient:**
  - the setters only set socket options (the receive timeout is not honoured by the synchronous read);
  - `IsConnected` and `GetLocalEndpoint` only read.
- **Compress:**
  - the Windows branch of `compress_folder`;
  - `snprintf` truncation of long paths;
  - write errors of `create_zip`'s `ofstream`, whose results the code never looks at.

  Compression itself is abstracted to which data reaches which file.
- **Network utilities** (`IsConnectedToInternet`, `GetNetworkStatus`, `CheckAndKillProgramOnPort`):
  - each is a single call against the operating system (a socket, `netstat`, `lsof`, `kill`) and keeps no state;
  - nothing in the repository calls them;
  - their hazards are listed with notes: a kill of several PIDs, a port still held after `kill` returns, and `lsof` matching both ends of a connection.
- **Search interface, `MyApp` and INDI exception classes**: declarations only.
- **Compiler:** `CopyFile` and the Windows branch of `RunShellCommand`, which does not compile.
- **ModuleLoader:** the member-function overload of `LoadAndRunFunction`, which calls an `addThread` signature that does not exist, and the Python entry points.

What is left is either I/O without state (the socket setters, `CopyFile`), code nothing in the repository calls (the network utilities), declarations only, or Windows-only branches. Several defects that the models already reach are not their own runs, because every one of the twelve run slots is taken. Each is listed in `PROJECT.json` → `hazards`:
- the cache-key collision and the task-file format, each with the property that catches it and the instantiation that shows it;
- the download tasks lost in a crash, with a note, because `PendingTasksPersist` is deliberately limited to runs without a crash.
