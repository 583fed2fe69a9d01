---------------------------- MODULE ThreadManager ----------------------------
(***************************************************************************)
(* OpenAPT::ThreadManager (src/src/core/thread.hpp).  The header declares  *)
(* the state: m_threads, a vector of (thread, name, completed flag), one   *)
(* mutex m_mtx and a condition variable m_cv; the bodies of the operations *)
(* are not in the repository, so the operations follow spec section 4.3:   *)
(* every operation holds m_mtx, a completing thread signals m_cv, and a    *)
(* join waits on m_cv for its condition.  A caller is a thread of the host *)
(* that calls the manager; a worker is a thread the manager spawned.       *)
(***************************************************************************)
EXTENDS Naturals, Sequences

CONSTANTS
  Callers,   \* host threads calling the manager
  Names,     \* thread names
  Works,     \* units of work (zero-argument callables)
  MaxSpawn   \* bound on the number of threads spawned

ASSUME MaxSpawn \in Nat

VARIABLES
  threads,   \* m_threads: sequence of [id, name, work, done]
  waiting,   \* what each caller is blocked on
  spawned    \* number of threads spawned; the next id is spawned + 1

tmVars == <<threads, waiting, spawned>>

Ids == 1..MaxSpawn

Entry == [id : Ids, name : Names, work : Works, done : BOOLEAN]

\* A caller is idle, or blocked in a join or sleep on a thread id, or in
\* joinAllThreads (id 0 when no thread is meant).
Waits == [op : {"idle", "joinAll", "join", "sleep"}, id : Ids \cup {0}]

Idle == [op |-> "idle", id |-> 0]

TrackedIds == {threads[i].id : i \in DOMAIN threads}

\* The first tracked entry with a name (the vector is searched in order).
FirstNamed(n) ==
  threads[CHOOSE i \in DOMAIN threads :
            /\ threads[i].name = n
            /\ \A j \in 1..(i - 1) : threads[j].name # n]

Named(n) == \E i \in DOMAIN threads : threads[i].name = n

EntryOf(id) == threads[CHOOSE i \in DOMAIN threads : threads[i].id = id]

Erase(id) == SelectSeq(threads, LAMBDA e : e.id # id)

Block(c, w) == waiting' = [waiting EXCEPT ![c] = w]

-----------------------------------------------------------------------------
\* ThreadManager(): m_threads empty, m_maxThreads(10), m_stopFlag(false).
Init ==
  /\ threads = <<>>
  /\ waiting = [c \in Callers |-> Idle]
  /\ spawned = 0

\* addThread(func, name): under m_mtx, a running thread with the same name
\* is a DuplicateNameError; otherwise the thread is spawned and tracked.
AddThread(c, work, name) ==
  /\ waiting[c].op = "idle"
  /\ spawned < MaxSpawn
  /\ \/ /\ \E i \in DOMAIN threads : threads[i].name = name /\ ~threads[i].done
        /\ UNCHANGED <<threads, spawned>>
     \/ /\ \A i \in DOMAIN threads : threads[i].name = name => threads[i].done
        /\ threads' = Append(threads, [id |-> spawned + 1, name |-> name,
                                       work |-> work, done |-> FALSE])
        /\ spawned' = spawned + 1
  /\ UNCHANGED waiting

\* The unit of work of a tracked thread returns: its completed flag is set
\* under m_mtx and m_cv is notified.
Complete(id) ==
  /\ id \in TrackedIds
  /\ ~EntryOf(id).done
  /\ threads' = [i \in DOMAIN threads |->
                   IF threads[i].id = id THEN [threads[i] EXCEPT !.done = TRUE]
                   ELSE threads[i]]
  /\ UNCHANGED <<waiting, spawned>>

\* joinThreadByName(name): an unknown name is logged and ignored; otherwise
\* the caller waits for the first thread of that name.
JoinThreadByName(c, name) ==
  /\ waiting[c].op = "idle"
  /\ \/ /\ ~Named(name)
        /\ UNCHANGED tmVars
     \/ /\ Named(name)
        /\ Block(c, [op |-> "join", id |-> FirstNamed(name).id])
        /\ UNCHANGED <<threads, spawned>>

\* A joining caller wakes on m_cv: once its thread has completed the thread
\* is joined and erased; if another caller already reclaimed it, it returns.
\* This is an abstraction: joinThread (line 60) takes a tuple& into
\* m_threads and a unique_lock it may release while joining, and its body
\* is missing, so the model joins atomically and by id.  It is therefore
\* not a model of concurrent joiners, and no property rests on it.
JoinWake(c) ==
  /\ waiting[c].op = "join"
  /\ \/ /\ waiting[c].id \in TrackedIds
        /\ EntryOf(waiting[c].id).done
        /\ threads' = Erase(waiting[c].id)
     \/ /\ waiting[c].id \notin TrackedIds
        /\ UNCHANGED threads
  /\ Block(c, Idle)
  /\ UNCHANGED spawned

\* joinAllThreads(): the caller waits until every tracked thread completed.
JoinAllThreads(c) ==
  /\ waiting[c].op = "idle"
  /\ Block(c, [op |-> "joinAll", id |-> 0])
  /\ UNCHANGED <<threads, spawned>>

\* The joinAllThreads caller wakes on m_cv with every tracked thread
\* completed: all are joined and the registry is emptied.
JoinAllWake(c) ==
  /\ waiting[c].op = "joinAll"
  /\ \A i \in DOMAIN threads : threads[i].done
  /\ threads' = <<>>
  /\ Block(c, Idle)
  /\ UNCHANGED spawned

\* sleepThreadByName(name, seconds): false for an unknown name; otherwise
\* the caller waits on that thread for a bounded time.
SleepThreadByName(c, name) ==
  /\ waiting[c].op = "idle"
  /\ \/ /\ ~Named(name)
        /\ UNCHANGED tmVars
     \/ /\ Named(name)
        /\ Block(c, [op |-> "sleep", id |-> FirstNamed(name).id])
        /\ UNCHANGED <<threads, spawned>>

\* The sleeping caller returns when its thread has completed (or is gone)
\* or when the time runs out, whichever comes first.
SleepWake(c) ==
  /\ waiting[c].op = "sleep"
  /\ Block(c, Idle)
  /\ UNCHANGED <<threads, spawned>>

TMNext ==
  \/ \E c \in Callers, w \in Works, n \in Names : AddThread(c, w, n)
  \/ \E id \in Ids : Complete(id)
  \/ \E c \in Callers, n \in Names :
       JoinThreadByName(c, n) \/ SleepThreadByName(c, n)
  \/ \E c \in Callers :
       JoinWake(c) \/ JoinAllThreads(c) \/ JoinAllWake(c) \/ SleepWake(c)

Spec == Init /\ [][TMNext]_tmVars

-----------------------------------------------------------------------------
TypeOK ==
  /\ threads \in Seq(Entry)
  /\ waiting \in [Callers -> Waits]
  /\ spawned \in 0..MaxSpawn
  /\ \A i \in DOMAIN threads : threads[i].id <= spawned

=============================================================================
