--------------------------- MODULE DownloadManager ---------------------------
(***************************************************************************)
(* DownloadManager (src/src/package/downloader.cpp): tasks_ in memory, the *)
(* task file on disk.  The constructor reads the file, add_task appends to *)
(* it, remove_task only marks the task completed in memory, and the        *)
(* destructor truncates the file and writes the tasks not completed.       *)
(* start() runs download_task(i) on one thread per task not completed and  *)
(* joins them.  A string is the sequence of its whitespace-separated      *)
(* words (model values), so "" is <<>>; the task file is the sequence of   *)
(* words the lines written to it hold, which is all that operator>> reads  *)
(* back.  The process may crash at any step and is restarted by running    *)
(* the constructor on the file.                                            *)
(***************************************************************************)
EXTENDS Naturals, Sequences, SequencesExt

CONSTANTS
  Words,        \* words of urls and file paths
  TaskLines,    \* [url, filepath] pairs add_task is called with
  MaxTasks,     \* bound on the length of tasks_
  MaxRestarts   \* bound on constructions of the manager

ASSUME MaxTasks \in Nat /\ MaxRestarts \in Nat

VARIABLES
  file,      \* the task file: its words, in order
  tasks,     \* tasks_: [line, completed]
  phase,     \* "down", "up", or "closing" (destructor between truncate and write)
  worker,    \* worker[i]: where download_task(i) is
  starting,  \* a caller is inside start()
  restarts,  \* number of constructions
  expected,  \* history: the (url, filepath) pairs added and not removed
  clean      \* history: no crash and no failed rewrite of the task file so far

vars == <<file, tasks, phase, worker, starting, restarts, expected, clean>>

Indices == 1..MaxTasks

\* The lines of the tasks not completed, in order.
Pending(ts) == [k \in 1..Len(SelectSeq(ts, LAMBDA e : ~e.completed)) |->
                  SelectSeq(ts, LAMBDA e : ~e.completed)[k].line]

NoWorkers == [i \in Indices |-> "none"]

\* The words of the line url << " " << filepath << std::endl (lines 86,
\* 108): an empty string leaves none, a string with spaces several.
Tokens(line) == line.url \o line.filepath

\* The words of the lines of some tasks, in order.
Written(lines) == FlattenSeq([k \in DOMAIN lines |-> Tokens(lines[k])])

\* The constructor's loop (lines 53-61): infile >> url >> filepath takes the
\* next two words, whatever line they are on; a last single word leaves
\* filepath empty and is dropped.
RECURSIVE ReadTasks(_)
ReadTasks(words) ==
  IF Len(words) < 2 THEN <<>>
  ELSE <<[url |-> <<words[1]>>, filepath |-> <<words[2]>>]>>
         \o ReadTasks(SubSeq(words, 3, Len(words)))

-----------------------------------------------------------------------------
Init ==
  /\ file = <<>>
  /\ tasks = <<>>
  /\ phase = "down"
  /\ worker = NoWorkers
  /\ starting = FALSE
  /\ restarts = 0
  /\ expected = <<>>
  /\ clean = TRUE

\* DownloadManager(task_file) (lines 41-69): every line of the file becomes
\* a task not completed.
Construct ==
  /\ phase = "down"
  /\ restarts < MaxRestarts
  /\ restarts' = restarts + 1
  /\ tasks' = LET read == ReadTasks(file)
              IN [k \in DOMAIN read |-> [line |-> read[k], completed |-> FALSE]]
  /\ phase' = "up"
  /\ clean' = clean
  /\ UNCHANGED <<file, worker, starting, expected>>

\* add_task (lines 97-116): push to tasks_, then append the line to the
\* file; when the file cannot be opened the exception leaves the task in
\* tasks_ only.
AddTask(line) ==
  /\ phase = "up"
  /\ Len(tasks) < MaxTasks
  /\ tasks' = Append(tasks, [line |-> line, completed |-> FALSE])
  /\ expected' = Append(expected, line)
  /\ \/ file' = file \o Tokens(line)
     \/ UNCHANGED file
  /\ UNCHANGED <<phase, worker, starting, restarts, clean>>

\* remove_task(index) (lines 118-126): an index past the end is refused;
\* otherwise the task is marked completed, in memory only.
RemoveTask(i) ==
  /\ phase = "up"
  /\ \/ /\ i > Len(tasks)
        /\ UNCHANGED <<tasks, expected>>
     \/ /\ i \in DOMAIN tasks
        /\ tasks' = [tasks EXCEPT ![i].completed = TRUE]
        /\ expected' = IF tasks[i].completed \/ ~clean THEN expected
                       ELSE LET before == Len(Pending(SubSeq(tasks, 1, i - 1)))
                            IN SubSeq(expected, 1, before)
                               \o SubSeq(expected, before + 2, Len(expected))
  /\ UNCHANGED <<file, phase, worker, starting, restarts, clean>>

\* Mutant of Start: the loop runs over every slot, not up to tasks_.size().
StartEveryIndex ==
  /\ phase = "up"
  /\ ~starting
  /\ starting' = TRUE
  /\ worker' = [i \in Indices |->
                  IF i \in DOMAIN tasks /\ tasks[i].completed THEN "none" ELSE "curl"]
  /\ UNCHANGED <<file, tasks, phase, restarts, expected, clean>>

\* start() (lines 128-140): one thread running download_task(i) for each
\* task not completed; the caller then joins them.
Start ==
  /\ phase = "up"
  /\ ~starting
  /\ starting' = TRUE
  /\ worker' = [i \in Indices |->
                  IF i \in DOMAIN tasks /\ ~tasks[i].completed THEN "curl" ELSE "none"]
  /\ UNCHANGED <<file, tasks, phase, restarts, expected, clean>>

\* download_task (lines 164-179): curl_easy_init or fopen(filepath) fails
\* and the thread returns, or the transfer thread is started and the
\* thread polls bar.is_completed() (lines 194-206).
WorkerStep(i) ==
  /\ phase = "up"
  /\ \/ /\ worker[i] = "curl"
        /\ worker' = [worker EXCEPT ![i] = "done"]
     \/ /\ worker[i] = "curl"
        /\ worker' = [worker EXCEPT ![i] = "open"]
     \/ /\ worker[i] = "open"
        /\ worker' = [worker EXCEPT ![i] = "done"]
     \/ /\ worker[i] = "open"
        /\ worker' = [worker EXCEPT ![i] = "transfer"]
  /\ UNCHANGED <<file, tasks, phase, starting, restarts, expected, clean>>

\* The transfer thread (lines 194-201): curl_easy_perform, fclose.  Nothing
\* moves the progress bar: CURLOPT_NOPROGRESS is left at 1, so
\* progress_callback (lines 151-160) is never called and the polling loop
\* of lines 203-206 does not end.
Transfer(i) ==
  /\ phase = "up"
  /\ worker[i] = "transfer"
  /\ worker' = [worker EXCEPT ![i] = "polling"]
  /\ UNCHANGED <<file, tasks, phase, starting, restarts, expected, clean>>

\* start() returns once every download_task thread has returned.
StartReturn ==
  /\ phase = "up"
  /\ starting
  /\ \A i \in Indices : worker[i] \in {"none", "done"}
  /\ starting' = FALSE
  /\ worker' = NoWorkers
  /\ UNCHANGED <<file, tasks, phase, restarts, expected, clean>>

\* Mutant of CloseWrite: every task is written back, completed or not.
CloseWriteAll ==
  /\ phase = "closing"
  /\ file' = Written([k \in DOMAIN tasks |-> tasks[k].line])
  /\ phase' = "down"
  /\ UNCHANGED <<tasks, worker, starting, restarts, expected, clean>>

\* ~DownloadManager (lines 71-95): std::ofstream truncates the file; when it
\* cannot be opened the error is logged and the file is left as it was.
CloseOpen ==
  /\ phase = "up"
  /\ ~starting
  /\ \/ /\ file' = <<>>
        /\ phase' = "closing"
        /\ UNCHANGED clean
     \/ /\ UNCHANGED file
        /\ phase' = "down"
        /\ clean' = FALSE
  /\ UNCHANGED <<tasks, worker, starting, restarts, expected>>

\* ~DownloadManager, lines 82-89: the lines of the tasks not completed.
CloseWrite ==
  /\ phase = "closing"
  /\ file' = Written(Pending(tasks))
  /\ phase' = "down"
  /\ UNCHANGED <<tasks, worker, starting, restarts, expected, clean>>

\* The process dies: tasks_ and the threads are gone, the file stays.
Crash ==
  /\ phase # "down"
  /\ phase' = "down"
  /\ tasks' = <<>>
  /\ worker' = NoWorkers
  /\ starting' = FALSE
  /\ clean' = FALSE
  /\ UNCHANGED <<file, restarts, expected>>

Next ==
  \/ Construct \/ Start \/ StartReturn \/ CloseOpen \/ CloseWrite \/ Crash
  \/ \E line \in TaskLines : AddTask(line)
  \/ \E i \in Indices \cup {MaxTasks + 1} : RemoveTask(i)
  \/ \E i \in Indices : WorkerStep(i) \/ Transfer(i)

\* The OS runs every download thread, and the caller of start() returns
\* once they have; nothing else is bound to happen.
Fairness ==
  /\ \A i \in Indices : WF_vars(WorkerStep(i)) /\ WF_vars(Transfer(i))
  /\ WF_vars(StartReturn)

Spec == Init /\ [][Next]_vars /\ Fairness

-----------------------------------------------------------------------------
TypeOK ==
  /\ file \in Seq(Words)
  /\ tasks \in Seq([line : [url : Seq(Words), filepath : Seq(Words)],
                    completed : BOOLEAN])
  /\ phase \in {"down", "up", "closing"}
  /\ worker \in [Indices -> {"none", "curl", "open", "done", "transfer", "polling"}]
  /\ starting \in BOOLEAN
  /\ restarts \in 0..MaxRestarts
  /\ expected \in Seq(TaskLines)
  /\ clean \in BOOLEAN
  /\ \A i \in Indices : worker[i] # "none" => i \in DOMAIN tasks

\* The task file carries the task list from one run to the next: while no
\* crash has happened and every destructor could open the file, the tasks
\* not completed are exactly the ones added and not removed, across any
\* number of destructor / constructor rounds and failed appends of add_task.
PendingTasksPersist ==
  (phase = "up" /\ clean) => Pending(tasks) = expected

\* start() returns: every download_task thread comes back and is joined.
StartReturns == starting ~> ~starting

=============================================================================
