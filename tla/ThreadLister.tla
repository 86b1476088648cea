----------------------------- MODULE ThreadLister -----------------------------
(***************************************************************************)
(* ListAllProcessThreads (base/threads.cpp): a process that is cloned for  *)
(* the purpose looks for the threads of its parent in /proc, attaches to   *)
(* each, which stops it, calls a function when a whole pass has found no   *)
(* new one, and lets them go.                                              *)
(*                                                                         *)
(* The threads of the program run on while they are looked for: they make  *)
(* new ones, exit, and hold the lock of the allocator for a while.  /proc  *)
(* and ptrace are the kernel's: a pass over a directory meets every thread *)
(* that is there from its beginning to its end, and perhaps those that     *)
(* come meanwhile, and a process that ends lets go what it has stopped.    *)
(* Entries of other processes and of those that do not share the marker    *)
(* are left out, as are the open files and the signal stack.  An old       *)
(* kernel has no /proc/self/task, and lists the threads in /proc.          *)
(***************************************************************************)
EXTENDS Integers, FiniteSets, FiniteSetsExt

CONSTANTS Threads,
          Main,      \* the thread whose id is the process's
          Slack,     \* 100: entries of pids beyond those that are there at first
          Null

ASSUME ThreadListerAssumption ==
    /\ Main \in Threads /\ Null \notin Threads
    /\ Slack \in Nat

VARIABLES
    alive, stopped,   \* the threads; those ptrace has stopped
    task_dir,         \* there is a /proc/self/task
    holder,           \* who has the allocator's lock, or Null
    caller,           \* the thread that waits for the lister, or Null
    lister,           \* where the lister is
    path,             \* proc_path: 1 /proc/self/task/, 2 /proc/
    pids,             \* pids[0 .. num_threads-1]
    max_threads, found_parent,
    added,            \* added_entries # 0
    todo,             \* threads this pass has still to meet
    missed,           \* history: a thread was not stopped when the last pass should have
    result            \* what ListAllProcessThreads returns

program == <<alive, task_dir, holder>>
scan    == <<path, pids, max_threads, found_parent, added, todo, missed>>
vars_L  == <<program, stopped, caller, lister, scan, result>>

Init_L ==
    /\ \E others \in SUBSET (Threads \ {Main}) : alive = others \cup {Main}
    /\ task_dir \in BOOLEAN
    /\ stopped = {} /\ holder = Null
    /\ caller = Null /\ lister = "none"
    /\ path = 1 /\ pids = {} /\ max_threads = 0
    /\ found_parent = FALSE /\ added = FALSE
    /\ todo = {} /\ missed = FALSE /\ result = 0

-----------------------------------------------------------------------------
(* The program                                                               *)

\* What the directory lists: the threads, or the process alone.
Lists   == path = 1 \/ ~ task_dir
Entries == IF Lists THEN alive ELSE {Main}

Running == alive \ (stopped \cup {caller})

\* A pass that is under way may meet the new thread or not.
CreateThread ==
    /\ Running # {}
    /\ \E t \in Threads \ alive :
         /\ alive' = alive \cup {t}
         /\ todo' \in {todo} \cup (IF lister = "scan" /\ Lists THEN {todo \cup {t}} ELSE {})
    /\ UNCHANGED <<stopped, task_dir, holder, caller, lister, path, pids, max_threads,
                   found_parent, added, missed, result>>

Exit(t) ==
    /\ t \in Running \ {Main, holder}
    /\ alive' = alive \ {t}
    /\ todo' = todo \ {t}
    /\ missed' = (missed \/ t \in todo)
    /\ UNCHANGED <<stopped, task_dir, holder, caller, lister, path, pids, max_threads,
                   found_parent, added, result>>

\* malloc or free in the central lists or the page heap.
TakeLock(t) ==
    /\ t \in Running /\ holder = Null
    /\ holder' = t
    /\ UNCHANGED <<alive, task_dir, stopped, caller, lister, scan, result>>
DropLock ==
    /\ holder \in Running
    /\ holder' = Null
    /\ UNCHANGED <<alive, task_dir, stopped, caller, lister, scan, result>>

-----------------------------------------------------------------------------
(* The lister                                                                *)

Links == Cardinality(Entries)

\* The lister is no more, with what ListAllProcessThreads makes of its status.
\* What it did not let go the kernel does.
Ends(r) ==
    /\ lister' = "done"
    /\ result' = r
    /\ stopped' = {}
    /\ pids' = {} /\ todo' = {} /\ path' = 1 /\ max_threads' = 0
    /\ found_parent' = FALSE /\ added' = FALSE /\ missed' = FALSE

ResumeAllProcessThreads == stopped' = stopped \ pids

\* clone, by thread t; it may fail.
ListAllProcessThreads(t) ==
    /\ caller' = t
    /\ \/ lister' = "open" /\ UNCHANGED result
       \/ lister' = "done" /\ result' = -1
    /\ UNCHANGED <<program, stopped, scan>>

\* failure: nothing that is attached is let go, but the process ends.
Failure == lister \in {"open", "scan"} /\ Ends(-1) /\ UNCHANGED <<program, caller>>

\* PTRACE_KILL is SIGKILL: with one of its threads the program ends.
KillAllProcessThreads == alive' = IF pids \cap stopped = {} THEN alive ELSE {}

\* SIGABRT kills what is attached; another signal lets it go, and so does the
\* kernel when the process dies without a handler.
SignalHandler ==
    /\ lister \notin {"none", "done"}
    /\ KillAllProcessThreads \/ UNCHANGED alive
    /\ Ends(-1)
    /\ UNCHANGED <<task_dir, holder, caller>>

\* /proc, where only the process is listed, will not show its other threads.
NextPath ==
    /\ lister = "open" /\ path = 1
    /\ path' = 2
    /\ missed' = (task_dir /\ alive # {Main})
    /\ UNCHANGED <<program, stopped, caller, lister, pids, max_threads, found_parent, added,
                   todo, result>>

NewPassStillAdded ==
    /\ todo' = Entries
    /\ missed' = (missed /\ ~ Lists)
    /\ UNCHANGED added
NewPass ==
    /\ added' = FALSE
    /\ todo' = Entries
    /\ missed' = (missed /\ ~ Lists)

OpenDirectory ==
    /\ lister = "open" /\ (path = 1 => task_dir)
    /\ lister' = "scan"
    /\ max_threads' = IF max_threads < Links + Slack THEN Links + Slack ELSE max_threads
    /\ NewPass
    /\ UNCHANGED <<program, stopped, caller, path, pids, found_parent, result>>

Room == Cardinality(pids) < max_threads

\* PTRACE_ATTACH, waitpid and two words that must be the same on both sides.
Attach(t) ==
    /\ Room
    /\ t \notin stopped
    /\ stopped' = stopped \cup {t}
    /\ pids' = pids \cup {t}
    /\ found_parent' = (found_parent \/ t = Main)
    /\ added' = TRUE
    /\ UNCHANGED missed
Refused(t) ==
    /\ Room
    /\ missed' = (missed \/ t \notin stopped)
    /\ UNCHANGED <<stopped, pids, found_parent, added>>

Known(t) == t \in pids
Visit(t) ==
    /\ lister = "scan" /\ t \in todo
    /\ todo' = todo \ {t}
    /\ \/ Known(t) /\ UNCHANGED <<stopped, pids, found_parent, added, missed>>
       \/ ~ Known(t) /\ (Attach(t) \/ Refused(t))
    /\ UNCHANGED <<program, caller, lister, path, max_threads, result>>

\* detach_threads: all are let go, and a directory is opened again.  That the
\* parent was found is not forgotten.
DetachThreads ==
    /\ ResumeAllProcessThreads
    /\ pids' = {}
    /\ max_threads' = max_threads + Slack
    /\ lister' = "open" /\ todo' = {}
    /\ UNCHANGED <<program, caller, found_parent, added, missed, result>>

TooMany ==
    /\ lister = "scan" /\ ~ Room /\ \E t \in todo : ~ Known(t)
    /\ DetachThreads
    /\ UNCHANGED path

\* The end of the directory: once more if the pass has found any.
PassOnce == FALSE
PassAgain == added
NextPass ==
    /\ lister = "scan" /\ todo = {} /\ PassAgain
    /\ NewPass
    /\ UNCHANGED <<program, stopped, caller, lister, path, pids, max_threads, found_parent, result>>

\* What nobody reads after the last pass.
NoMoreScan ==
    /\ path' = 1 /\ max_threads' = 0 /\ found_parent' = FALSE
    /\ UNCHANGED <<pids, added, todo, missed>>

AllFound == Cardinality(pids) > 1 \/ path = 2
OtherDirectory ==
    /\ lister = "scan" /\ todo = {} /\ ~ PassAgain /\ ~ AllFound
    /\ path' = 2
    /\ DetachThreads
LastPass ==
    /\ lister = "scan" /\ todo = {} /\ ~ PassAgain /\ AllFound
    /\ \/ found_parent /\ lister' = "callback" /\ NoMoreScan /\ UNCHANGED <<stopped, result>>
       \/ ~ found_parent /\ Ends(-1)
    /\ UNCHANGED <<program, caller>>

\* After the callback, which has let the threads go and returned r: to let go
\* any here makes it an error.
Leave(r) ==
    /\ lister = "resume"
    /\ Ends(IF \E t \in pids : t \in stopped THEN -1 ELSE r)
    /\ UNCHANGED <<program, caller>>

Program == CreateThread \/ DropLock \/ \E t \in Threads : TakeLock(t)
Scan == NextPath \/ OpenDirectory \/ TooMany \/ NextPass \/ OtherDirectory \/ LastPass
        \/ \E t \in Threads : Visit(t)

-----------------------------------------------------------------------------
(* Properties                                                                *)

\* When the callback is called every thread of the program is stopped, those
\* too that were made while the lister looked for threads, and those that it let
\* go to start over or to look in /proc.  Excepted are a last pass in which a
\* thread refused, or exited before its turn and may have made another, and a
\* program of several threads of which /proc shows the process alone.
AllStopped == lister = "callback" => alive \subseteq stopped \/ missed

===============================================================================
