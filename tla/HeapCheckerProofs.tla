--------------------------- MODULE HeapCheckerProofs ---------------------------
(***************************************************************************)
(* Proofs about HeapChecker and the thread lister under it, for any        *)
(* threads, checkers and objects.  The invariant has these parts: what     *)
(* each checker's name is at each stage of its life; what has been marked  *)
(* in each phase of a check, given where the lister is; which threads the  *)
(* lister has stopped, and when a directory that lists no threads is       *)
(* enough; and that what was marked is what can be reached.                *)
(***************************************************************************)
EXTENDS HeapChecker, FiniteSetTheorems, WellFoundedInduction, TLAPS

-----------------------------------------------------------------------------
(* The names of the checkers.                                                *)

Names ==
    /\ checker \in [Threads -> {"none", "named", "ignored", "made", "reported", "unignored"}]
    /\ names = {t \in Threads : checker[t] # "none"}
    /\ ignored_names = {t \in Threads : checker[t] \in {"ignored", "made", "reported"}}
    /\ dead \in {Null, "interrupted"}

LEMMA InitNames == Init => Names
<1> SUFFICES ASSUME Init PROVE Names  OBVIOUS
<1>1. checker = [t \in Threads |-> "none"] /\ names = {} /\ ignored_names = {} /\ dead = Null
    BY DEF Init
<1> QED  BY <1>1 DEF Names

\* A step that leaves the checkers where they are.
LEMMA SameNames ==
    ASSUME Names, UNCHANGED own, dead' \in {dead, Null, "interrupted"}
    PROVE  Names'
<1>1. checker' = checker /\ names' = names /\ ignored_names' = ignored_names  BY DEF own
<1> QED  BY <1>1 DEF Names

LEMMA MarkNames ==
    ASSUME Names, NEW found, NEW got, Mark(found, got)
    PROVE  dead' = dead
<1>1. ignored_names \subseteq names  BY DEF Names
<1> QED  BY <1>1 DEF Mark

LEMMA NextNames ==
    ASSUME Names, [Next]_vars
    PROVE  Names'
<1> USE HeapCheckerAssumption
<1>1. CASE UNCHANGED vars  BY <1>1, SameNames DEF vars
<1>2. CASE UNCHANGED <<draconian, own, check, dead>>  BY <1>2, SameNames
<1>3. ASSUME NEW t \in Checkers, NewName(t) PROVE Names'
    BY <1>3 DEF Names, NewName, Step
<1>4. ASSUME NEW t \in Checkers, IgnoreName(t) PROVE Names'
    BY <1>4 DEF Names, IgnoreName, Step
<1>5. ASSUME NEW t \in Checkers, StartCheck(t) PROVE Names'
    BY <1>5 DEF Names, StartCheck, Step
<1>6. ASSUME NEW t \in Checkers, UnIgnoreName(t) PROVE Names'
    BY <1>6 DEF Names, UnIgnoreName, Step
<1>7. ASSUME NEW t \in Checkers, DeleteName(t) PROVE Names'
    BY <1>7 DEF Names, DeleteName, Step
<1>8. CASE Listing(Failure \/ SignalHandler) \/ Listing(Scan \/ Leave(result))
    BY <1>8, SameNames DEF Listing
<1>9. CASE IgnoreLiveThreads \/ Allocate \/ Completed \/ Marked \/ Dump
    BY <1>9, SameNames DEF IgnoreLiveThreads, Allocate, Completed, Marked, Dump
<1>10. CASE MarkThreads
    BY <1>10, MarkNames, SameNames DEF MarkThreads
<1>11. CASE Listed
    BY <1>11, MarkNames, SameNames DEF Listed
<1> QED  BY <1>1, <1>2, <1>3, <1>4, <1>5, <1>6, <1>7, <1>8, <1>9, <1>10, <1>11
         DEF Next, Check

-----------------------------------------------------------------------------
(* What has been marked in each phase, and where the lister is then.         *)

\* A check that waits for the lister: nothing is marked before the callback, and
\* the status tells how far that has come; without it the lister has failed.
Waiting ==
    \/ lister \in {"open", "scan", "callback"} /\ status = "NOT_STARTED" /\ nonthread = 0
    \/ lister \in {"resume", "done"} /\ status = "COMPLETED" /\ nonthread = 1
    \/ lister = "done" /\ result = -1 /\ status = "NOT_STARTED" /\ nonthread = 0
    \/ lister = "done" /\ result = -1 /\ status = "STARTED"

Phases ==
    \/ phase = "idle" /\ lister = "none"
    \/ phase = "list" /\ Waiting
    \/ phase \in {"allocate", "threads"} /\ lister = "callback" /\ status = "STARTED"
       /\ nonthread = 0
    \/ phase = "marked" /\ lister = "callback" /\ status = "STARTED" /\ nonthread = 1
    \/ phase \in {"marked", "dump"} /\ lister = "none" /\ nonthread = 1
    \/ phase = "list" /\ lister = "none" /\ dead = "interrupted"

LEMMA InitPhases == Init => Phases
BY DEF Init, Init_L, Phases

LEMMA ScanPhases ==
    ASSUME Phases, Listing(Scan \/ Failure) PROVE Phases'
<1>1. phase = "list" /\ lister \in {"open", "scan"} /\ status = "NOT_STARTED" /\ nonthread = 0
    BY DEF Phases, Waiting, Listing, Scan, NextPath, OpenDirectory, TooMany, NextPass,
           OtherDirectory, LastPass, Visit, Failure
<1>2. phase' = "list" /\ status' = status /\ nonthread' = nonthread  BY DEF Listing
<1>3. lister' \in {"open", "scan", "callback"} \/ (lister' = "done" /\ result' = -1)
    BY <1>1 DEF Listing, Scan, NextPath, OpenDirectory, TooMany, NextPass, OtherDirectory,
           LastPass, Visit, DetachThreads, Failure, Ends
<1> QED  BY <1>1, <1>2, <1>3 DEF Phases, Waiting

LEMMA EndPhases ==
    ASSUME Phases, Listing(SignalHandler) \/ Listing(Leave(result)) PROVE Phases'
<1>1. phase' = "list" /\ status' = status /\ nonthread' = nonthread /\ lister' = "done"
    BY DEF Listing, SignalHandler, Leave, Ends
<1>2. CASE Listing(SignalHandler)
    <2>1. lister \notin {"none", "done"} /\ result' = -1
        BY <1>2 DEF Listing, SignalHandler, Ends
    <2>2. \/ status = "NOT_STARTED" /\ nonthread = 0
          \/ status = "STARTED"
          \/ status = "COMPLETED" /\ nonthread = 1
        BY <2>1 DEF Phases, Waiting
    <2> QED  BY <1>1, <2>1, <2>2 DEF Phases, Waiting
<1>3. CASE Listing(Leave(result))
    <2>1. lister = "resume"  BY <1>3 DEF Listing, Leave
    <2>2. status = "COMPLETED" /\ nonthread = 1  BY <2>1 DEF Phases, Waiting
    <2> QED  BY <1>1, <2>2 DEF Phases, Waiting
<1> QED  BY <1>2, <1>3

LEMMA ListedPhases ==
    ASSUME Phases, Listed PROVE Phases'
<1>1. /\ lister = "done" /\ phase = "list" /\ lister' = "none"
    BY DEF Listed
<1>2. Waiting  BY <1>1 DEF Phases
<1>3. CASE ~ NeedNonThread /\ phase' = "dump" /\ UNCHANGED <<marking, nonthread, dead>>
    <2>1. status = "COMPLETED" /\ nonthread = 1  BY <1>1, <1>2, <1>3 DEF Waiting, NeedNonThread
    <2> QED  BY <1>1, <1>3, <2>1 DEF Phases
<1>4. CASE dead' = "interrupted" /\ UNCHANGED <<phase, marking, nonthread>>
    BY <1>1, <1>4 DEF Phases
<1>5. CASE NeedNonThread /\ status # "STARTED" /\ Mark({}, {}) /\ phase' = "marked"
    <2>1. nonthread = 0  BY <1>1, <1>2, <1>5 DEF Waiting, NeedNonThread
    <2>2. nonthread' = 1  BY <1>5, <2>1 DEF Mark
    <2> QED  BY <1>1, <1>5, <2>2 DEF Phases
<1> QED  BY <1>3, <1>4, <1>5 DEF Listed

LEMMA NextPhases ==
    ASSUME Names, Phases, [Next]_vars PROVE Phases'
<1> USE HeapCheckerAssumption
<1>1. CASE UNCHANGED <<phase, status, nonthread, lister, result, dead>>
    BY <1>1 DEF Phases, Waiting
<1>2. CASE UNCHANGED vars  BY <1>1, <1>2 DEF vars, vars_L, check
<1>3. CASE (Program \/ \E t \in Threads : Exit(t)) /\ UNCHANGED <<draconian, own, check, dead>>
    <2>1. lister' = lister /\ result' = result
        BY <1>3 DEF Program, CreateThread, TakeLock, DropLock, Exit
    <2> QED  BY <1>1, <1>3, <2>1 DEF check
<1>4. ASSUME NEW t \in Checkers,
             NewName(t) \/ IgnoreName(t) \/ UnIgnoreName(t) \/ DeleteName(t)
      PROVE Phases'
    <2>1. phase = "idle" /\ lister = "none"
        BY <1>4 DEF NewName, IgnoreName, UnIgnoreName, DeleteName, Step, Idle, Phases
    <2>2. phase' = phase /\ lister' = lister
        BY <1>4 DEF NewName, IgnoreName, UnIgnoreName, DeleteName, check, vars_L
    <2> QED  BY <2>1, <2>2 DEF Phases
<1>5. ASSUME NEW t \in Checkers, StartCheck(t) PROVE Phases'
    BY <1>5 DEF StartCheck, ListAllProcessThreads, Phases, Waiting
<1>6. CASE Listing(Failure \/ SignalHandler)
    BY <1>6, ScanPhases, EndPhases DEF Listing
<1>7. CASE Listing(Scan \/ Leave(result))
    BY <1>7, ScanPhases, EndPhases DEF Listing
<1>8. CASE IgnoreLiveThreads
    BY <1>8 DEF IgnoreLiveThreads, vars_L, Phases, Waiting
<1>9. CASE Allocate
    BY <1>9 DEF Allocate, vars_L, Phases, Waiting
<1>10. CASE MarkThreads
    BY <1>10 DEF MarkThreads, Mark, vars_L, Phases, Waiting
<1>11. CASE Completed
    BY <1>11 DEF Completed, Phases, Waiting
<1>12. CASE Listed  BY <1>12, ListedPhases
<1>13. CASE Marked
    BY <1>13 DEF Marked, vars_L, Phases, Waiting
<1>14. CASE Dump
    <2>1. lister = "none"  BY <1>14 DEF Dump, Phases, Waiting
    <2> QED  BY <1>14, <2>1 DEF Dump, Phases
<1> QED  BY <1>2, <1>3, <1>4, <1>5, <1>6, <1>7, <1>8, <1>9, <1>10, <1>11, <1>12, <1>13, <1>14
         DEF Next, Check

-----------------------------------------------------------------------------
(* Which threads are stopped.                                                *)

\* Nothing is attached before a directory is open, and then what pids has is
\* what is stopped.
Held ==
    /\ lister \in {"none", "open", "scan", "done"} => pids = stopped
    /\ lister \in {"none", "open", "done"} => stopped = {}
    /\ lister \in {"none", "done"} => path = 1

\* A pass that has found nothing has one that runs before it, or none runs: a
\* running thread that it has met was found, and only one that runs makes others.
Ahead ==
    lister = "scan" /\ ~ added /\ ~ missed
    => alive \subseteq stopped \/ (alive \ stopped) \cap todo # {}

\* Where only the process is listed there is no other thread, if none was missed:
\* what the first directory showed was the one that waits for the lister, so that
\* none is made though it is let go.
OnlyMain ==
    lister \in {"open", "scan"} /\ path = 2 /\ task_dir /\ ~ missed
    => alive = {Main} /\ caller = Main

Stops ==
    /\ alive \subseteq Threads /\ (alive = {} \/ Main \in alive)
    /\ lister \in {"open", "scan"} => caller \in alive
    /\ path \in {1, 2} /\ pids \subseteq Threads
    /\ Held /\ Ahead /\ OnlyMain /\ AllStopped

LEMMA InitStops == Init => Stops
<1> SUFFICES ASSUME Init PROVE Stops  OBVIOUS
<1>1. /\ alive \subseteq Threads /\ Main \in alive /\ stopped = {} /\ lister = "none" /\ path = 1
      /\ pids = {}
    BY ThreadListerAssumption DEF Init, Init_L
<1> QED  BY <1>1 DEF Stops, Held, Ahead, OnlyMain, AllStopped

LEMMA SameStops ==
    ASSUME Stops,
           UNCHANGED <<alive, stopped, task_dir, caller, lister, path, pids, added, todo, missed>>
    PROVE  Stops'
BY DEF Stops, Held, Ahead, OnlyMain, AllStopped

\* Whatever ends the lister, and perhaps the program.
LEMMA EndsStops ==
    ASSUME Stops, NEW r, Ends(r), alive' \in {alive, {}}
    PROVE  Stops'
BY DEF Stops, Ends, Held, Ahead, OnlyMain, AllStopped

LEMMA CreateThreadStops ==
    ASSUME Stops, CreateThread PROVE Stops'
<1>1. PICK t \in Threads \ alive :
        /\ alive' = alive \cup {t}
        /\ todo' \in {todo} \cup (IF lister = "scan" /\ Lists THEN {todo \cup {t}} ELSE {})
    BY DEF CreateThread
<1>2. UNCHANGED <<stopped, task_dir, caller, lister, path, pids, added, missed>>
    BY DEF CreateThread
<1>3. alive \ stopped # {} /\ alive \ {caller} # {}  BY DEF CreateThread, Running
<1>4. /\ alive' \subseteq Threads /\ Main \in alive' /\ path' \in {1, 2} /\ pids' \subseteq Threads
      /\ lister' \in {"open", "scan"} => caller' \in alive'
    BY <1>1, <1>2, <1>3 DEF Stops
<1>5. Held'  BY <1>2 DEF Stops, Held
<1>6. Ahead'
    <2>1. todo \subseteq todo' /\ alive \subseteq alive'  BY <1>1
    <2> QED  BY <1>2, <1>3, <2>1 DEF Stops, Ahead
<1>7. OnlyMain'
    <2>1. ~ (lister \in {"open", "scan"} /\ path = 2 /\ task_dir /\ ~ missed)
        BY <1>3 DEF Stops, OnlyMain
    <2> QED  BY <1>2, <2>1 DEF OnlyMain
<1>8. AllStopped'  BY <1>2, <1>3 DEF Stops, AllStopped
<1> QED  BY <1>4, <1>5, <1>6, <1>7, <1>8 DEF Stops

LEMMA ExitStops ==
    ASSUME Stops, NEW t \in Threads, Exit(t) PROVE Stops'
<1>1. /\ t \in alive \ stopped /\ t # Main /\ t # caller
      /\ alive' = alive \ {t} /\ todo' = todo \ {t} /\ missed' = (missed \/ t \in todo)
      /\ UNCHANGED <<stopped, task_dir, caller, lister, path, pids, added>>
    BY DEF Exit, Running
<1>2. Ahead'
    <2> SUFFICES ASSUME lister = "scan", ~ added, ~ missed, t \notin todo
                 PROVE  alive' \subseteq stopped \/ (alive' \ stopped) \cap todo' # {}
        BY <1>1 DEF Ahead
    <2> QED  BY <1>1 DEF Stops, Ahead
<1>3. OnlyMain'  BY <1>1 DEF Stops, OnlyMain
<1> QED  BY <1>1, <1>2, <1>3 DEF Stops, Held, AllStopped

LEMMA NextPathStops ==
    ASSUME Stops, NextPath PROVE Stops'
<1>1. /\ lister = "open" /\ path = 1 /\ path' = 2
      /\ missed' = (task_dir /\ alive # {Main})
      /\ UNCHANGED <<alive, task_dir, stopped, caller, lister, pids, added, todo>>
    BY DEF NextPath, program
<1>2. OnlyMain'  BY <1>1 DEF Stops, OnlyMain
<1> QED  BY <1>1, <1>2 DEF Stops, Held, Ahead, AllStopped

\* A new pass has all before it that the directory lists.
LEMMA NewPassStops ==
    ASSUME Stops, NewPass, lister \in {"open", "scan"}, lister' = "scan",
           UNCHANGED <<alive, task_dir, stopped, caller, path, pids>>
    PROVE  Stops'
<1>1. Held'  BY DEF Stops, Held
<1>2. OnlyMain'
    <2> SUFFICES ASSUME path = 2, task_dir, ~ missed'
                 PROVE  alive = {Main} /\ caller = Main
        BY DEF OnlyMain
    <2>1. ~ Lists  BY DEF Lists
    <2>2. ~ missed  BY <2>1, Zenon DEF NewPass
    <2> QED  BY <2>2 DEF Stops, OnlyMain
<1>3. Ahead'
    <2> SUFFICES ASSUME ~ missed'
                 PROVE  alive \subseteq stopped \/ (alive \ stopped) \cap todo' # {}
        BY DEF Ahead
    <2>1. todo' = IF Lists THEN alive ELSE {Main}  BY DEF NewPass, Entries
    <2>2. CASE Lists  BY <2>1, <2>2
    <2>3. CASE ~ Lists
        <3>1. path = 2 /\ task_dir  BY <2>3 DEF Lists, Stops
        <3>2. alive = {Main}  BY <1>2, <3>1 DEF OnlyMain
        <3> QED  BY <2>1, <2>3, <3>2
    <2> QED  BY <2>2, <2>3
<1> QED  BY <1>1, <1>2, <1>3 DEF Stops, AllStopped

LEMMA OpenStops ==
    ASSUME Stops, OpenDirectory \/ NextPass PROVE Stops'
<1>1. CASE NextPass  BY <1>1, NewPassStops DEF NextPass, program
<1>2. CASE OpenDirectory  BY <1>2, NewPassStops DEF OpenDirectory, program
<1> QED  BY <1>1, <1>2

LEMMA VisitStops ==
    ASSUME Stops, NEW t \in Threads, Visit(t) PROVE Stops'
<1>1. /\ lister = "scan" /\ t \in todo /\ todo' = todo \ {t}
      /\ UNCHANGED <<alive, task_dir, caller, lister, path>>
    BY DEF Visit, program
<1>2. CASE Known(t) /\ UNCHANGED <<stopped, pids, found_parent, added, missed>>
    <2>1. t \in stopped  BY <1>1, <1>2 DEF Known, Stops, Held
    <2>2. Ahead'  BY <1>1, <1>2, <2>1 DEF Stops, Ahead
    <2>3. OnlyMain'  BY <1>1, <1>2 DEF Stops, OnlyMain
    <2> QED  BY <1>1, <1>2, <2>2, <2>3 DEF Stops, Held, AllStopped
<1>3. CASE Attach(t)
    <2>1. /\ stopped' = stopped \cup {t} /\ pids' = pids \cup {t} /\ added' = TRUE
          /\ missed' = missed
        BY <1>3 DEF Attach
    <2>2. Held'  BY <1>1, <2>1 DEF Stops, Held
    <2>3. OnlyMain'  BY <1>1, <2>1 DEF Stops, OnlyMain
    <2> QED  BY <1>1, <2>1, <2>2, <2>3 DEF Stops, Ahead, AllStopped
<1>4. CASE Refused(t)
    <2>1. /\ missed' = (missed \/ t \notin stopped) /\ UNCHANGED <<stopped, pids, added>>
        BY <1>4 DEF Refused
    <2>2. Ahead'  BY <1>1, <2>1 DEF Stops, Ahead
    <2>3. OnlyMain'  BY <1>1, <2>1 DEF Stops, OnlyMain
    <2> QED  BY <1>1, <2>1, <2>2, <2>3 DEF Stops, Held, AllStopped
<1> QED  BY <1>2, <1>3, <1>4 DEF Visit

\* All are let go.
LEMMA DetachStops ==
    ASSUME Stops, DetachThreads, lister = "scan"
    PROVE  /\ lister' = "open" /\ stopped' = {} /\ pids' = {}
           /\ UNCHANGED <<alive, task_dir, caller, missed>>
BY DEF Stops, Held, DetachThreads, ResumeAllProcessThreads, program

LEMMA TooManyStops ==
    ASSUME Stops, TooMany PROVE Stops'
<1>1. lister = "scan" /\ path' = path /\ DetachThreads  BY DEF TooMany
<1>2. /\ lister' = "open" /\ stopped' = {} /\ pids' = {}
      /\ UNCHANGED <<alive, task_dir, caller, missed>>
    BY <1>1, DetachStops
<1>3. OnlyMain'  BY <1>1, <1>2 DEF Stops, OnlyMain
<1> QED  BY <1>1, <1>2, <1>3 DEF Stops, Held, Ahead, AllStopped

\* A finite set of at most one element, with one that is known.
LEMMA OnlyElement ==
    ASSUME NEW S, NEW x \in S, IsFiniteSet(S), ~ Cardinality(S) > 1
    PROVE  S = {x}
<1> SUFFICES ASSUME NEW y \in S, y # x PROVE FALSE  OBVIOUS
<1>1. IsFiniteSet({x}) /\ Cardinality({x}) = 1  BY FS_Singleton
<1>2. Cardinality({x} \cup {y}) = 2  BY <1>1, FS_AddElement
<1>3. {x} \cup {y} \subseteq S  OBVIOUS
<1>4. Cardinality({x} \cup {y}) <= Cardinality(S)  BY <1>3, FS_Subset
<1>5. Cardinality(S) \in Nat  BY FS_CardinalityType
<1> QED  BY <1>2, <1>4, <1>5

LEMMA OtherDirectoryStops ==
    ASSUME Stops, OtherDirectory PROVE Stops'
<1>1. lister = "scan" /\ todo = {} /\ ~ added /\ path' = 2 /\ DetachThreads
    BY DEF OtherDirectory, PassAgain
<1>2. /\ lister' = "open" /\ stopped' = {} /\ pids' = {}
      /\ UNCHANGED <<alive, task_dir, caller, missed>>
    BY <1>1, DetachStops
<1>3. ~ Cardinality(pids) > 1  BY DEF OtherDirectory, AllFound
<1>4. OnlyMain'
    <2> SUFFICES ASSUME ~ missed PROVE alive = {Main} /\ caller = Main
        BY <1>2 DEF OnlyMain
    <2>1. alive \subseteq stopped  BY <1>1 DEF Stops, Ahead
    <2>2. caller \in alive /\ Main \in alive  BY <1>1 DEF Stops
    <2>3. pids = stopped /\ Main \in pids  BY <1>1, <2>1, <2>2 DEF Stops, Held
    <2>4. IsFiniteSet(pids)  BY HeapCheckerAssumption, FS_Subset DEF Stops
    <2>5. pids = {Main}  BY <1>3, <2>3, <2>4, OnlyElement
    <2> QED  BY <2>1, <2>2, <2>3, <2>5
<1> QED  BY <1>1, <1>2, <1>4 DEF Stops, Held, Ahead, AllStopped

LEMMA LastPassStops ==
    ASSUME Stops, LastPass PROVE Stops'
<1>1. /\ lister = "scan" /\ todo = {} /\ ~ added /\ alive' = alive
    BY DEF LastPass, PassAgain, program
<1>2. CASE ~ found_parent  BY <1>1, <1>2, EndsStops DEF LastPass
<1>3. CASE lister' = "callback" /\ NoMoreScan /\ UNCHANGED <<stopped, result>>
    <2>1. path' = 1 /\ pids' = pids /\ missed' = missed /\ stopped' = stopped
        BY <1>3 DEF NoMoreScan
    <2>2. ~ missed => alive \subseteq stopped  BY <1>1 DEF Stops, Ahead
    <2> QED  BY <1>1, <1>3, <2>1, <2>2 DEF Stops, Held, Ahead, OnlyMain, AllStopped
<1> QED  BY <1>2, <1>3 DEF LastPass

LEMMA NextStops ==
    ASSUME Stops, Phases, [Next]_vars PROVE Stops'
<1> USE HeapCheckerAssumption
<1> DEFINE same == <<alive, stopped, task_dir, caller, lister, path, pids, added, todo, missed>>
<1>1. CASE UNCHANGED same  BY <1>1, SameStops
<1>2. CASE UNCHANGED vars \/ UNCHANGED vars_L
    BY <1>1, <1>2 DEF vars, vars_L, program, scan
<1>3. CASE CreateThread  BY <1>3, CreateThreadStops
<1>4. ASSUME NEW t \in Threads, TakeLock(t) PROVE Stops'
    BY <1>1, <1>4 DEF TakeLock, scan
<1>5. CASE DropLock  BY <1>1, <1>5 DEF DropLock, scan
<1>6. ASSUME NEW t \in Threads, Exit(t) PROVE Stops'  BY <1>6, ExitStops
<1>7. ASSUME NEW t \in Checkers, StartCheck(t) PROVE Stops'
    <2>1. lister = "none" /\ t \in alive
        BY <1>7 DEF StartCheck, Step, Idle, Phases, Running
    <2>2. lister' \in {"open", "done"} /\ caller' = t /\ UNCHANGED <<program, stopped, scan>>
        BY <1>7 DEF StartCheck, ListAllProcessThreads
    <2> QED  BY <2>1, <2>2 DEF program, scan, Stops, Held, Ahead, OnlyMain, AllStopped
<1>8. CASE Scan
    BY <1>8, NextPathStops, OpenStops, VisitStops, TooManyStops, OtherDirectoryStops,
       LastPassStops DEF Scan
<1>9. CASE Failure \/ SignalHandler \/ Leave(result)
    <2>1. alive' \in {alive, {}} /\ \E r : Ends(r)
        BY <1>9 DEF Failure, SignalHandler, KillAllProcessThreads, Leave, program
    <2> QED  BY <2>1, EndsStops
<1>10. CASE Completed
    BY <1>10 DEF Completed, program, scan, Stops, Held, Ahead, OnlyMain, AllStopped
<1>11. CASE Listed
    BY <1>11 DEF Listed, program, scan, Stops, Held, Ahead, OnlyMain, AllStopped
<1>12. CASE Dump
    <2>1. lister = "none"  BY <1>12 DEF Dump, Phases, Waiting
    <2> QED  BY <1>12, <2>1 DEF Dump, program, scan, Stops, Held, Ahead, OnlyMain, AllStopped
<1>13. ASSUME NEW t \in Checkers,
              NewName(t) \/ IgnoreName(t) \/ UnIgnoreName(t) \/ DeleteName(t)
       PROVE Stops'
    BY <1>2, <1>13 DEF NewName, IgnoreName, UnIgnoreName, DeleteName
<1>14. CASE IgnoreLiveThreads \/ Allocate \/ MarkThreads \/ Marked
    <2>1. UNCHANGED vars_L
        BY <1>14 DEF IgnoreLiveThreads, Allocate, MarkThreads, Marked
    <2> QED  BY <1>2, <2>1
<1> QED  BY <1>2, <1>3, <1>4, <1>5, <1>6, <1>7, <1>8, <1>9, <1>10, <1>11, <1>12, <1>13, <1>14
         DEF Next, Check, Program, Listing

-----------------------------------------------------------------------------
(* The loop of IgnoreLiveObjectsLocked comes to an end: each turn takes an     *)
(* object from live_objects, and what it puts there was not ignored before.    *)

\* A nonempty set of naturals has a least element.
LEMMA LeastNat ==
    ASSUME NEW T \in SUBSET Nat, T # {}
    PROVE  \E x \in T : \A y \in T : x <= y
<1> DEFINE R == {ss \in Nat \X Nat : ss[1] < ss[2]}
<1>1. IsWellFoundedOn(R, Nat)  BY NatLessThanWellFounded DEF OpToRel
<1>2. PICK x \in T : \A y \in T : ~ (<<y, x>> \in R)
    <2> HIDE DEF R
    <2> QED  BY <1>1, WFMin
<1>3. ASSUME NEW y \in T PROVE x <= y
    <2>1. ~ (y < x)  BY <1>2
    <2> QED  BY <2>1
<1> QED  BY <1>3

\* Induction, with a set in the place of a predicate.
LEMMA InductNat ==
    ASSUME NEW Good, 0 \in Good, \A n \in Nat : n \in Good => n + 1 \in Good
    PROVE  Nat \subseteq Good
<1> DEFINE Bad == Nat \ Good
<1> SUFFICES ASSUME Bad # {} PROVE FALSE  OBVIOUS
<1>1. PICK m \in Bad : \A k \in Bad : m <= k
    <2>1. Bad \in SUBSET Nat  OBVIOUS
    <2> HIDE DEF Bad
    <2> QED  BY <2>1, LeastNat
<1>2. m \in Nat /\ m # 0  BY <1>1
<1>3. m - 1 \in Nat /\ ~ (m <= m - 1)  BY <1>2
<1>4. m - 1 \in Good  BY <1>1, <1>3
<1>5. (m - 1) + 1 \in Good  BY <1>3, <1>4
<1>6. (m - 1) + 1 = m  BY <1>2
<1> QED  BY <1>1, <1>5, <1>6

Marks(live, done) ==
    [live : SUBSET (live \cup Objects), ignored : SUBSET (live \cup Objects \cup done)]

\* A state of the loop and a bound of the turns it still takes.
Turns(s) == Cardinality(s.live) + 2 * Cardinality(Objects \ s.ignored)

\* Where something is taken from.
First(s) == CHOOSE x \in s.live : TRUE

\* What it brings.
Brings(mem, s) == Contents(mem, First(s)) \ s.ignored

LEMMA FollowIs ==
    ASSUME NEW mem, NEW s
    PROVE  /\ Follow(mem, s).live = (s.live \ {First(s)}) \cup Brings(mem, s)
           /\ Follow(mem, s).ignored =
                 s.ignored \cup Brings(mem, s) \cup {y \in {First(s)} : OnHeap(y)}
           /\ Brings(mem, s) = {o \in Objects : mem.points[o] = First(s)} \ s.ignored
BY DEF Follow, First, Brings, Contents

LEMMA FollowMarks ==
    ASSUME NEW mem, NEW live, NEW done, NEW s \in Marks(live, done), s.live # {}
    PROVE  Follow(mem, s) \in Marks(live, done) /\ First(s) \in s.live
<1>1. First(s) \in s.live  BY DEF First
<1>2. s.live \subseteq live \cup Objects /\ s.ignored \subseteq live \cup Objects \cup done
    BY DEF Marks
<1>3. Brings(mem, s) \subseteq Objects  BY FollowIs
<1>4. Follow(mem, s).live \subseteq live \cup Objects  BY <1>2, <1>3, FollowIs
<1>5. Follow(mem, s).ignored \subseteq live \cup Objects \cup done
    BY <1>1, <1>2, <1>3, FollowIs
<1>6. Follow(mem, s) = [live |-> Follow(mem, s).live, ignored |-> Follow(mem, s).ignored]
    BY DEF Follow
<1> QED  BY <1>1, <1>4, <1>5, <1>6 DEF Marks

LEMMA TurnsNat ==
    ASSUME NEW live, IsFiniteSet(live), NEW done, NEW s \in Marks(live, done)
    PROVE  /\ IsFiniteSet(s.live) /\ IsFiniteSet(Objects \ s.ignored)
           /\ Cardinality(s.live) \in Nat /\ Cardinality(Objects \ s.ignored) \in Nat
           /\ Turns(s) \in Nat
<1>1. IsFiniteSet(live \cup Objects)  BY HeapCheckerAssumption, FS_Union
<1>2. s.live \in SUBSET (live \cup Objects) /\ Objects \ s.ignored \in SUBSET (live \cup Objects)
    BY DEF Marks
<1>3. IsFiniteSet(s.live) /\ IsFiniteSet(Objects \ s.ignored)  BY <1>1, <1>2, FS_Subset
<1>4. Cardinality(s.live) \in Nat /\ Cardinality(Objects \ s.ignored) \in Nat
    BY <1>3, FS_CardinalityType
<1> QED  BY <1>3, <1>4 DEF Turns

\* Each turn is one of them.
LEMMA TurnsFall ==
    ASSUME NEW mem, NEW live, IsFiniteSet(live), NEW done, NEW s \in Marks(live, done),
           s.live # {}
    PROVE  Turns(Follow(mem, s)) < Turns(s)
<1> DEFINE t == Follow(mem, s)
           new == Brings(mem, s)
           x == First(s)
           rest == s.live \ {x}
           seen == Objects \ s.ignored
           left == Objects \ t.ignored
<1>1. x \in s.live /\ t \in Marks(live, done)  BY FollowMarks
<1>2. /\ IsFiniteSet(s.live) /\ IsFiniteSet(seen) /\ IsFiniteSet(t.live) /\ IsFiniteSet(left)
      /\ Cardinality(s.live) \in Nat /\ Cardinality(seen) \in Nat
      /\ Cardinality(t.live) \in Nat /\ Cardinality(left) \in Nat
    BY <1>1, TurnsNat
<1>3. /\ t.live = rest \cup new
      /\ t.ignored = s.ignored \cup new \cup {y \in {x} : OnHeap(y)}
      /\ new = {o \in Objects : mem.points[o] = x} \ s.ignored
    BY FollowIs
<1> HIDE DEF t, new, x
<1>4. IsFiniteSet(rest) /\ Cardinality(rest) = Cardinality(s.live) - 1
    BY <1>1, <1>2, FS_RemoveElement
<1>5. new \subseteq seen /\ left \subseteq seen \ new  BY <1>3
<1>6. IsFiniteSet(new) /\ Cardinality(new) \in Nat  BY <1>2, <1>5, FS_Subset, FS_CardinalityType
<1>7. Cardinality(t.live) <= Cardinality(rest) + Cardinality(new)
    <2>1. Cardinality(rest \cup new) = Cardinality(rest) + Cardinality(new) - Cardinality(rest \cap new)
        BY <1>4, <1>6, FS_Union
    <2>2. Cardinality(rest \cap new) \in Nat
        BY <1>4, FS_Intersection, FS_CardinalityType
    <2>3. Cardinality(rest) \in Nat  BY <1>4, FS_CardinalityType
    <2> HIDE DEF rest
    <2> QED  BY <1>3, <1>6, <2>1, <2>2, <2>3
<1>8. Cardinality(left) <= Cardinality(seen) - Cardinality(new)
    <2>1. IsFiniteSet(seen \ new) /\ Cardinality(seen \ new) = Cardinality(seen) - Cardinality(seen \cap new)
        BY <1>2, FS_Difference
    <2>2. seen \cap new = new  BY <1>5
    <2>3. Cardinality(left) <= Cardinality(seen \ new)  BY <1>5, <2>1, FS_Subset
    <2> HIDE DEF seen, left
    <2> QED  BY <2>1, <2>2, <2>3
<1> HIDE DEF rest, seen, left
<1>9. /\ Turns(s) = Cardinality(s.live) + 2 * Cardinality(seen)
      /\ Turns(t) = Cardinality(t.live) + 2 * Cardinality(left)
    BY DEF Turns, seen, left
<1>10. Turns(t) < Turns(s)  BY <1>2, <1>4, <1>6, <1>7, <1>8, <1>9
<1> QED  BY <1>10 DEF t

\* So there is a function that the loop computes.
Turn(mem, f, s) == IF s.live = {} THEN s.ignored ELSE f[Follow(mem, s)]
IsLoop(f, mem, live, done) == f = [s \in Marks(live, done) |-> Turn(mem, f, s)]
IsLoopUpTo(f, mem, live, done, n) ==
    f = [s \in Marks(live, done) |-> IF Turns(s) < n THEN Turn(mem, f, s) ELSE {}]

LEMMA LoopLonger ==
    ASSUME NEW mem, NEW live, IsFiniteSet(live), NEW done, NEW n \in Nat,
           NEW f, IsLoopUpTo(f, mem, live, done, n)
    PROVE  \E g : IsLoopUpTo(g, mem, live, done, n + 1)
<1> DEFINE D == Marks(live, done)
           g == [s \in D |-> IF Turns(s) < n + 1 THEN Turn(mem, f, s) ELSE {}]
<1>1. ASSUME NEW s \in D, Turns(s) < n + 1 PROVE Turn(mem, g, s) = Turn(mem, f, s)
    <2>1. CASE s.live = {}  BY <2>1 DEF Turn
    <2>2. CASE s.live # {}
        <3> DEFINE t == Follow(mem, s)
        <3>1. t \in D  BY <2>2, FollowMarks
        <3>2. Turns(t) < Turns(s)  BY <2>2, TurnsFall
        <3> HIDE DEF t
        <3>3. Turns(t) \in Nat /\ Turns(s) \in Nat  BY <3>1, TurnsNat
        <3>4. Turns(t) < n /\ Turns(t) < n + 1  BY <1>1, <3>2, <3>3
        <3>5. g[t] = Turn(mem, f, t)  BY <3>1, <3>4
        <3>6. f[t] = Turn(mem, f, t)  BY <3>1, <3>4 DEF IsLoopUpTo
        <3> HIDE DEF g
        <3>7. Turn(mem, g, s) = g[t] /\ Turn(mem, f, s) = f[t]  BY <2>2 DEF Turn, t
        <3> QED  BY <3>5, <3>6, <3>7
    <2> QED  BY <2>1, <2>2
<1>2. g = [s \in D |-> IF Turns(s) < n + 1 THEN Turn(mem, g, s) ELSE {}]
    <2>1. \A s \in D : (IF Turns(s) < n + 1 THEN Turn(mem, f, s) ELSE {})
                          = IF Turns(s) < n + 1 THEN Turn(mem, g, s) ELSE {}
        <3> HIDE DEF g, D
        <3> QED  BY <1>1
    <2>2. g = [s \in D |-> IF Turns(s) < n + 1 THEN Turn(mem, f, s) ELSE {}]  OBVIOUS
    <2> HIDE DEF g, D
    <2> QED  BY <2>1, <2>2
<1> HIDE DEF g
<1>3. IsLoopUpTo(g, mem, live, done, n + 1)  BY <1>2 DEF IsLoopUpTo
<1> QED  BY <1>3

LEMMA LoopExists ==
    ASSUME NEW mem, NEW live, IsFiniteSet(live), NEW done
    PROVE  \E f : IsLoop(f, mem, live, done)
<1> DEFINE Upto(n) == \E f : IsLoopUpTo(f, mem, live, done, n)
           Good == {n \in Nat : Upto(n)}
           most == Cardinality(live \cup Objects) + 2 * Cardinality(Objects)
<1>1. 0 \in Good
    <2> DEFINE f == [s \in Marks(live, done) |-> {}]
    <2>1. \A s \in Marks(live, done) : ~ (Turns(s) < 0)
        <3> SUFFICES ASSUME NEW s \in Marks(live, done) PROVE ~ (Turns(s) < 0)  OBVIOUS
        <3>1. Turns(s) \in Nat  BY TurnsNat
        <3> QED  BY <3>1
    <2>2. IsLoopUpTo(f, mem, live, done, 0)  BY <2>1 DEF IsLoopUpTo
    <2> QED  BY <2>2
<1>2. ASSUME NEW n \in Nat, n \in Good PROVE n + 1 \in Good
    <2>1. PICK f : IsLoopUpTo(f, mem, live, done, n)  BY <1>2
    <2> QED  BY <2>1, LoopLonger
<1> HIDE DEF Good
<1>3. Nat \subseteq Good  BY <1>1, <1>2, InductNat
<1>4. IsFiniteSet(live \cup Objects) /\ IsFiniteSet(Objects)
    BY HeapCheckerAssumption, FS_Union
<1>5. Cardinality(live \cup Objects) \in Nat /\ Cardinality(Objects) \in Nat
    BY <1>4, FS_CardinalityType
<1>6. most \in Nat /\ most + 1 \in Nat  BY <1>5
<1>7. PICK f : IsLoopUpTo(f, mem, live, done, most + 1)
    <2> HIDE DEF most
    <2> QED  BY <1>3, <1>6 DEF Good
<1>8. ASSUME NEW s \in Marks(live, done) PROVE Turns(s) < most + 1
    <2>1. s.live \in SUBSET (live \cup Objects) /\ Objects \ s.ignored \in SUBSET Objects
        BY DEF Marks
    <2>2. /\ Cardinality(s.live) <= Cardinality(live \cup Objects)
          /\ Cardinality(Objects \ s.ignored) <= Cardinality(Objects)
        BY <1>4, <2>1, FS_Subset
    <2>3. Cardinality(s.live) \in Nat /\ Cardinality(Objects \ s.ignored) \in Nat  BY TurnsNat
    <2> QED  BY <1>5, <2>2, <2>3 DEF Turns
<1> HIDE DEF most
<1>9. IsLoop(f, mem, live, done)  BY <1>7, <1>8 DEF IsLoop, IsLoopUpTo
<1> QED  BY <1>9

\* What IgnoreLiveObjects computes it turn by turn.
Loop(mem, live, done) == CHOOSE f : IsLoop(f, mem, live, done)

LEMMA LoopUnfolds ==
    ASSUME NEW mem, NEW live, IsFiniteSet(live), NEW done
    PROVE  \A s \in Marks(live, done) :
              Loop(mem, live, done)[s] = Turn(mem, Loop(mem, live, done), s)
<1> DEFINE f == Loop(mem, live, done)
<1>1. IsLoop(f, mem, live, done)  BY LoopExists DEF Loop
<1> HIDE DEF f
<1>2. \A s \in Marks(live, done) : f[s] = Turn(mem, f, s)  BY <1>1 DEF IsLoop
<1> QED  BY <1>2 DEF f

LEMMA IgnoreLiveObjectsIs ==
    ASSUME NEW mem, NEW live, NEW done
    PROVE  IgnoreLiveObjects(mem, live, done) = Loop(mem, live, done)[[live |-> live, ignored |-> done]]
BY DEF IgnoreLiveObjects, Loop, IsLoop, Turn, Marks

-----------------------------------------------------------------------------
(* What it computes: what was ignored, with the least that has the live        *)
(* objects and what is behind them.                                            *)

FollowedIn(mem, S) == \A y \in S : Contents(mem, y) \subseteq S
LiveIn(mem, live, S) ==
    \A x \in live : Contents(mem, x) \subseteq S /\ (OnHeap(x) => x \in S)

\* Of what is ignored, what was taken from live_objects is done with.
DoneWith(mem, s) == \A y \in s.ignored \ s.live : Contents(mem, y) \subseteq s.ignored

IsLeast(mem, live, done, R) ==
    /\ done \subseteq R /\ LiveIn(mem, live, R) /\ FollowedIn(mem, R)
    /\ \A S : done \subseteq S /\ LiveIn(mem, live, S) /\ FollowedIn(mem, S) => R \subseteq S

LEMMA TurnKeepsDone ==
    ASSUME NEW mem, NEW s, s.live # {}, DoneWith(mem, s)
    PROVE  DoneWith(mem, Follow(mem, s))
<1> DEFINE t == Follow(mem, s)
           x == First(s)
           new == Brings(mem, s)
<1>1. /\ t.live = (s.live \ {x}) \cup new
      /\ t.ignored = s.ignored \cup new \cup {y \in {x} : OnHeap(y)}
    BY FollowIs
<1>2. Contents(mem, x) \subseteq s.ignored \cup new  BY DEF Brings
<1> HIDE DEF t, x, new
<1>3. ASSUME NEW y \in t.ignored \ t.live PROVE Contents(mem, y) \subseteq t.ignored
    <2>1. CASE y = x  BY <1>1, <1>2, <2>1
    <2>2. CASE y # x
        <3>1. y \in s.ignored \ s.live  BY <1>1, <1>3, <2>2
        <3> QED  BY <1>1, <3>1 DEF DoneWith
    <2> QED  BY <2>1, <2>2
<1> QED  BY <1>3 DEF DoneWith, t

LEMMA TurnKeepsLeast ==
    ASSUME NEW mem, NEW s, s.live # {}, NEW R,
           IsLeast(mem, Follow(mem, s).live, Follow(mem, s).ignored, R)
    PROVE  IsLeast(mem, s.live, s.ignored, R)
<1> DEFINE t == Follow(mem, s)
           x == First(s)
           new == Brings(mem, s)
<1>1. /\ t.live = (s.live \ {x}) \cup new
      /\ t.ignored = s.ignored \cup new \cup {y \in {x} : OnHeap(y)}
    BY FollowIs
<1>2. Contents(mem, x) \subseteq s.ignored \cup new /\ new \subseteq Contents(mem, x)
    BY DEF Brings
<1>3. x \in s.live  BY DEF First
<1>4. IsLeast(mem, t.live, t.ignored, R)  OBVIOUS
<1> HIDE DEF t, x, new
<1>5. s.ignored \subseteq R /\ FollowedIn(mem, R)  BY <1>1, <1>4 DEF IsLeast
<1>6. LiveIn(mem, s.live, R)
    <2> SUFFICES ASSUME NEW y \in s.live
                 PROVE  Contents(mem, y) \subseteq R /\ (OnHeap(y) => y \in R)
        BY DEF LiveIn
    <2>1. t.ignored \subseteq R /\ LiveIn(mem, t.live, R)  BY <1>4 DEF IsLeast
    <2>2. CASE y = x  BY <1>1, <1>2, <2>1, <2>2
    <2>3. CASE y # x  BY <1>1, <2>1, <2>3 DEF LiveIn
    <2> QED  BY <2>2, <2>3
<1>7. ASSUME NEW S, s.ignored \subseteq S, LiveIn(mem, s.live, S), FollowedIn(mem, S)
      PROVE  R \subseteq S
    <2>1. Contents(mem, x) \subseteq S /\ (OnHeap(x) => x \in S)  BY <1>3, <1>7 DEF LiveIn
    <2>2. t.ignored \subseteq S  BY <1>1, <1>2, <1>7, <2>1
    <2>3. LiveIn(mem, t.live, S)
        <3> SUFFICES ASSUME NEW y \in t.live
                     PROVE  Contents(mem, y) \subseteq S /\ (OnHeap(y) => y \in S)
            BY DEF LiveIn
        <3>1. CASE y \in s.live  BY <1>7, <3>1 DEF LiveIn
        <3>2. CASE y \in new  BY <1>2, <1>7, <2>1, <3>2 DEF FollowedIn
        <3> QED  BY <1>1, <3>1, <3>2
    <2> QED  BY <1>4, <1>7, <2>2, <2>3 DEF IsLeast
<1> QED  BY <1>5, <1>6, <1>7 DEF IsLeast

LEMMA LoopLeast ==
    ASSUME NEW mem, NEW live, IsFiniteSet(live), NEW done,
           NEW s \in Marks(live, done), DoneWith(mem, s)
    PROVE  IsLeast(mem, s.live, s.ignored, Loop(mem, live, done)[s])
<1> DEFINE f == Loop(mem, live, done)
           Right(x) == DoneWith(mem, x) => IsLeast(mem, x.live, x.ignored, f[x])
           Upto(n) == \A x \in Marks(live, done) : Turns(x) < n => Right(x)
           Good == {n \in Nat : Upto(n)}
<1>1. \A x \in Marks(live, done) : f[x] = Turn(mem, f, x)  BY LoopUnfolds
<1> HIDE DEF f
<1>2. 0 \in Good
    <2>1. \A x \in Marks(live, done) : ~ (Turns(x) < 0)
        <3> SUFFICES ASSUME NEW x \in Marks(live, done) PROVE ~ (Turns(x) < 0)  OBVIOUS
        <3>1. Turns(x) \in Nat  BY TurnsNat
        <3> QED  BY <3>1
    <2> QED  BY <2>1
<1>3. ASSUME NEW n \in Nat, n \in Good PROVE n + 1 \in Good
    <2> SUFFICES ASSUME NEW x \in Marks(live, done), Turns(x) < n + 1, DoneWith(mem, x)
                 PROVE  IsLeast(mem, x.live, x.ignored, f[x])
        OBVIOUS
    <2>1. f[x] = Turn(mem, f, x)  BY <1>1
    <2>2. CASE x.live = {}
        <3>1. f[x] = x.ignored  BY <2>1, <2>2 DEF Turn
        <3>2. FollowedIn(mem, x.ignored)  BY <2>2 DEF DoneWith, FollowedIn
        <3>3. LiveIn(mem, x.live, x.ignored)  BY <2>2 DEF LiveIn
        <3> QED  BY <3>1, <3>2, <3>3 DEF IsLeast
    <2>3. CASE x.live # {}
        <3> DEFINE t == Follow(mem, x)
        <3>1. f[x] = f[t]  BY <2>1, <2>3 DEF Turn
        <3>2. t \in Marks(live, done)  BY <2>3, FollowMarks
        <3>3. Turns(t) < Turns(x)  BY <2>3, TurnsFall
        <3>4. DoneWith(mem, t)  BY <2>3, TurnKeepsDone
        <3>5. Turns(t) < n
            <4> HIDE DEF t
            <4>1. Turns(t) \in Nat /\ Turns(x) \in Nat  BY <3>2, TurnsNat
            <4> QED  BY <3>3, <4>1
        <3>6. IsLeast(mem, t.live, t.ignored, f[t])
            <4> HIDE DEF t
            <4>1. Upto(n)  BY <1>3
            <4> QED  BY <3>2, <3>4, <3>5, <4>1
        <3> QED  BY <2>3, <3>1, <3>6, TurnKeepsLeast
    <2> QED  BY <2>2, <2>3
<1> HIDE DEF Good
<1>4. Nat \subseteq Good  BY <1>2, <1>3, InductNat
<1>5. Turns(s) + 1 \in Good /\ Turns(s) < Turns(s) + 1
    <2>1. Turns(s) \in Nat  BY TurnsNat
    <2> QED  BY <1>4, <2>1
<1> QED  BY <1>5 DEF Good, f

LEMMA IgnoreLeast ==
    ASSUME NEW mem, NEW live, IsFiniteSet(live), NEW done, FollowedIn(mem, done)
    PROVE  IsLeast(mem, live, done, IgnoreLiveObjects(mem, live, done))
<1> DEFINE s == [live |-> live, ignored |-> done]
<1>1. s \in Marks(live, done) /\ s.live = live /\ s.ignored = done  BY DEF Marks
<1>2. DoneWith(mem, s)  BY <1>1 DEF DoneWith, FollowedIn
<1> HIDE DEF s
<1>3. IsLeast(mem, live, done, Loop(mem, live, done)[s])  BY <1>1, <1>2, LoopLeast
<1> QED  BY <1>3, IgnoreLiveObjectsIs DEF s

-----------------------------------------------------------------------------
(* The sets of live objects one after the other.                               *)

LEMMA LeastThen ==
    ASSUME NEW mem, NEW A, NEW B, NEW done, NEW R, NEW Q,
           IsLeast(mem, A, done, R), IsLeast(mem, B, R, Q)
    PROVE  IsLeast(mem, A \cup B, done, Q)
<1>1. done \subseteq Q /\ R \subseteq Q /\ FollowedIn(mem, Q)  BY DEF IsLeast
<1>2. LiveIn(mem, A, R) /\ LiveIn(mem, B, Q)  BY DEF IsLeast
<1>3. LiveIn(mem, A \cup B, Q)  BY <1>1, <1>2 DEF LiveIn
<1>4. ASSUME NEW S, done \subseteq S, LiveIn(mem, A \cup B, S), FollowedIn(mem, S)
      PROVE  Q \subseteq S
    <2>1. LiveIn(mem, A, S) /\ LiveIn(mem, B, S)  BY <1>4 DEF LiveIn
    <2>2. R \subseteq S  BY <1>4, <2>1 DEF IsLeast
    <2> QED  BY <1>4, <2>1, <2>2 DEF IsLeast
<1> QED  BY <1>1, <1>3, <1>4 DEF IsLeast

\* One more of them.
LEMMA IgnoreThen ==
    ASSUME NEW mem, NEW A, NEW B, IsFiniteSet(B), NEW R, IsLeast(mem, A, {}, R)
    PROVE  IsLeast(mem, A \cup B, {}, IgnoreLiveObjects(mem, B, R))
<1>1. FollowedIn(mem, R)  BY DEF IsLeast
<1>2. IsLeast(mem, B, R, IgnoreLiveObjects(mem, B, R))  BY <1>1, IgnoreLeast
<1> QED  BY <1>2, LeastThen

NamesOf(T) == {Name(t) : t \in T}
Code(mem, known) == {o \in mem.disabled : \A t \in known : StackIn[t] # o}
GlobalRoots == IF draconian THEN {} ELSE {Globals}

LEMMA SmallSets ==
    ASSUME NEW T \in SUBSET Threads, NEW mem \in Memories, NEW known
    PROVE  /\ IsFiniteSet(T) /\ IsFiniteSet(NamesOf(T)) /\ IsFiniteSet(RegistersOf(T))
           /\ IsFiniteSet(OwnStack(mem))
           /\ IsFiniteSet(Code(mem, known)) /\ IsFiniteSet(GlobalRoots)
<1>1. IsFiniteSet(T)  BY HeapCheckerAssumption, FS_Subset
<1>2. IsFiniteSet(NamesOf(T))
    <2> DEFINE f == [t \in T |-> Name(t)]
    <2>1. f \in Surjection(T, NamesOf(T))  BY DEF Surjection, NamesOf
    <2> HIDE DEF f
    <2> QED  BY <1>1, <2>1, FS_Surjection
<1>3. IsFiniteSet(OwnStack(mem)) /\ IsFiniteSet(GlobalRoots)
    BY FS_EmptySet, FS_Singleton DEF OwnStack, GlobalRoots
<1>6. IsFiniteSet(RegistersOf(T))
    <2> DEFINE f == [t \in T |-> Registers(t)]
    <2>1. f \in Surjection(T, RegistersOf(T))  BY DEF Surjection, RegistersOf
    <2> HIDE DEF f
    <2> QED  BY <1>1, <2>1, FS_Surjection
<1>4. Code(mem, known) \in SUBSET Objects
    BY HeapCheckerAssumption DEF Code, Memories
<1>5. IsFiniteSet(Code(mem, known))  BY <1>4, HeapCheckerAssumption, FS_Subset
<1> QED  BY <1>1, <1>2, <1>3, <1>5, <1>6

\* All that a check starts from, where the stacks of found are known and the
\* registers of got.
Starts(mem, found, got) ==
    LET known == found \cup OwnStack(mem)
    IN  known \cup RegistersOf(got) \cup GlobalRoots \cup Code(mem, known)

LEMMA MarkedLeast ==
    ASSUME NEW mem \in Memories, NEW found \in SUBSET Threads, NEW got \in SUBSET Threads,
           ignored_names \subseteq Threads
    PROVE  IsLeast(mem, Starts(mem, found, got) \cup NamesOf(ignored_names), {},
                   IgnoreNonThreadLiveObjects(mem, found,
                     IgnoreLiveObjects(mem, RegistersOf(got),
                       IgnoreLiveObjects(mem, found, {}))))
<1> DEFINE known == found \cup OwnStack(mem)
           N == NamesOf(ignored_names)
           G == RegistersOf(got)
           r0 == IgnoreLiveObjects(mem, found, {})
           r1 == IgnoreLiveObjects(mem, G, r0)
           r2 == IgnoreLiveObjects(mem, OwnStack(mem), r1)
           r3 == IgnoreLiveObjects(mem, N, r2)
           r4 == IgnoreLiveObjects(mem, Code(mem, known), r3)
           r5 == IgnoreLiveObjects(mem, GlobalRoots, r4)
<1>1. {o \in mem.disabled : ~ StackInside(o, known)} = Code(mem, known)
    BY DEF Code, StackInside
<1>2. IgnoreNonThreadLiveObjects(mem, found, r1) = r5
    BY <1>1 DEF IgnoreNonThreadLiveObjects, NamesOf, GlobalRoots
<1>3. /\ IsFiniteSet(found) /\ IsFiniteSet(OwnStack(mem)) /\ IsFiniteSet(N)
      /\ IsFiniteSet(Code(mem, known)) /\ IsFiniteSet(GlobalRoots) /\ IsFiniteSet(G)
    BY SmallSets
<1>4. IsLeast(mem, found, {}, r0)
    <2>1. FollowedIn(mem, {})  BY DEF FollowedIn
    <2> QED  BY <1>3, <2>1, IgnoreLeast
<1> HIDE DEF r0
<1>5. IsLeast(mem, found \cup G, {}, r1)  BY <1>3, <1>4, IgnoreThen
<1> HIDE DEF r1
<1>6. IsLeast(mem, (found \cup G) \cup OwnStack(mem), {}, r2)  BY <1>3, <1>5, IgnoreThen
<1> HIDE DEF r2
<1>7. IsLeast(mem, ((found \cup G) \cup OwnStack(mem)) \cup N, {}, r3)
    BY <1>3, <1>6, IgnoreThen
<1> HIDE DEF r3
<1>8. IsLeast(mem, (((found \cup G) \cup OwnStack(mem)) \cup N) \cup Code(mem, known), {}, r4)
    BY <1>3, <1>7, IgnoreThen
<1> HIDE DEF r4
<1>9. IsLeast(mem, ((((found \cup G) \cup OwnStack(mem)) \cup N) \cup Code(mem, known))
                   \cup GlobalRoots, {}, r5)
    BY <1>3, <1>8, IgnoreThen
<1> HIDE DEF r5
<1>10. ((((found \cup G) \cup OwnStack(mem)) \cup N) \cup Code(mem, known)) \cup GlobalRoots
       = Starts(mem, found, got) \cup N
    BY DEF Starts
<1> QED  BY <1>2, <1>9, <1>10 DEF r0, r1

-----------------------------------------------------------------------------
(* That is what can be reached, and the names.                                 *)

ClosedFrom(mem, roots, S) ==
    \A o \in Objects : o \in roots \/ mem.points[o] \in roots \cup S => o \in S
ReachableFrom(mem, roots) ==
    {o \in Objects : \A S \in SUBSET Objects : ClosedFrom(mem, roots, S) => o \in S}

LEMMA NameNoRegisters ==
    ASSUME NEW t, NEW u PROVE Name(t) # Registers(u)
<1>1. DOMAIN Name(t) = 1..1 /\ DOMAIN Registers(u) = 1..2  BY DEF Name, Registers
<1> QED  BY <1>1

LEMMA LeastIsReachable ==
    ASSUME NEW mem \in Memories, alive \subseteq Threads, NEW T \in SUBSET names,
           names \subseteq Threads,
           NEW roots,
           roots \subseteq Threads \cup RegistersOf(Threads) \cup Objects \cup {Globals},
           NEW R, IsLeast(mem, roots \cup NamesOf(T), {}, R)
    PROVE  R = ReachableFrom(mem, roots) \cup NamesOf(T)
<1> DEFINE N == NamesOf(T)
<1>1. \A x \in N : x \in Named /\ \E t \in Threads : x = Name(t)
    BY DEF NamesOf, Named
<1>2. \A x \in Named : \E t \in Threads : x = Name(t)  BY DEF Named
<1>3. \A t \in Threads :
        Name(t) \notin Threads \cup RegistersOf(Threads) \cup Objects \cup {Globals, Null}
    BY HeapCheckerAssumption, NameNoRegisters DEF RegistersOf
<1>4. \A o \in Objects :
        mem.points[o] \in Threads \cup RegistersOf(Threads) \cup Objects \cup {Globals, Null}
    <2>1. RegistersOf(alive) \subseteq RegistersOf(Threads)  BY DEF RegistersOf
    <2> QED  BY <2>1 DEF Memories
<1>5. \A x \in N : Contents(mem, x) = {}  BY <1>1, <1>3, <1>4 DEF Contents
<1>6. \A x \in roots : OnHeap(x) => x \in Objects
    BY <1>2, <1>3 DEF OnHeap
<1>7. \A x \in N : OnHeap(x)  BY <1>1 DEF OnHeap
<1>8. \A x, o : o \in Contents(mem, x) <=> o \in Objects /\ mem.points[o] = x
    BY DEF Contents
<1> HIDE DEF N
<1>9. /\ LiveIn(mem, roots \cup N, R) /\ FollowedIn(mem, R)
      /\ \A S : LiveIn(mem, roots \cup N, S) /\ FollowedIn(mem, S) => R \subseteq S
    BY DEF IsLeast, N
<1>10. N \subseteq R  BY <1>7, <1>9 DEF LiveIn
<1>11. ASSUME NEW S \in SUBSET Objects, ClosedFrom(mem, roots, S)
       PROVE  R \subseteq S \cup N
    <2>1. \A x \in roots \cup S : Contents(mem, x) \subseteq S
        BY <1>8, <1>11 DEF ClosedFrom
    <2>2. \A x \in roots : x \in Objects => x \in S  BY <1>11 DEF ClosedFrom
    <2>3. LiveIn(mem, roots \cup N, S \cup N)  BY <1>5, <1>6, <2>1, <2>2 DEF LiveIn
    <2>4. FollowedIn(mem, S \cup N)  BY <1>5, <2>1 DEF FollowedIn
    <2> QED  BY <1>9, <2>3, <2>4
<1>12. R \subseteq ReachableFrom(mem, roots) \cup N
    <2>1. ClosedFrom(mem, roots, Objects)  BY DEF ClosedFrom
    <2>2. R \subseteq Objects \cup N  BY <1>11, <2>1
    <2> QED  BY <1>11, <2>2 DEF ReachableFrom
<1>13. ReachableFrom(mem, roots) \subseteq R
    <2> DEFINE S == R \cap Objects
    <2>1. ClosedFrom(mem, roots, S)
        <3> SUFFICES ASSUME NEW o \in Objects, o \in roots \/ mem.points[o] \in roots \cup S
                     PROVE  o \in R
            BY DEF ClosedFrom
        <3>1. CASE o \in roots
            <4>1. OnHeap(o)  BY DEF OnHeap
            <4> QED  BY <1>9, <3>1, <4>1 DEF LiveIn
        <3>2. CASE mem.points[o] \in roots
            <4>1. o \in Contents(mem, mem.points[o])  BY <1>8
            <4> QED  BY <1>9, <3>2, <4>1 DEF LiveIn
        <3>3. CASE mem.points[o] \in S
            <4>1. o \in Contents(mem, mem.points[o])  BY <1>8
            <4> QED  BY <1>9, <3>3, <4>1 DEF FollowedIn
        <3> QED  BY <3>1, <3>2, <3>3
    <2> QED  BY <2>1 DEF ReachableFrom
<1> QED  BY <1>10, <1>12, <1>13 DEF N

\* Who waits for the lister is a thread.
CallerThere == phase # "idle" => caller \in Threads

\* What a check ignores is right at once, and stays so.
LEMMA MarkRight ==
    ASSUME Names, alive \subseteq Threads, caller \in Threads,
           NEW got \in SUBSET Threads, NEW found \in SUBSET got, Mark(found, got),
           UNCHANGED <<caller, draconian, ignored_names>>
    PROVE  IgnoredRight'
<1>1. PICK mem \in Memories :
        /\ memory' = mem
        /\ ignored' = IgnoreNonThreadLiveObjects(mem, found,
                        IgnoreLiveObjects(mem, RegistersOf(got),
                          IgnoreLiveObjects(mem, found, {})))
    BY DEF Mark
<1>2. stacks' = found /\ registers' = got  BY DEF Mark
<1> DEFINE roots == Starts(mem, found, got)
<1>3. ignored_names \in SUBSET names /\ names \subseteq Threads  BY DEF Names
<1>4. IsLeast(mem, roots \cup NamesOf(ignored_names), {}, ignored')
    <2>1. found \in SUBSET Threads  OBVIOUS
    <2> QED  BY <1>1, <1>3, <2>1, MarkedLeast
<1>5. roots \subseteq Threads \cup RegistersOf(Threads) \cup Objects \cup {Globals}
    <2>1. RegistersOf(got) \subseteq RegistersOf(Threads)  BY DEF RegistersOf
    <2> QED  BY <2>1, HeapCheckerAssumption DEF Starts, OwnStack, GlobalRoots, Code, Memories
<1>6. Roots' = roots
    BY <1>1, <1>2 DEF Roots, Starts, OwnStack, GlobalRoots, Code, RegistersOf, Registers
<1> HIDE DEF roots
<1>7. ignored' = ReachableFrom(mem, roots) \cup NamesOf(ignored_names)
    BY <1>3, <1>4, <1>5, LeastIsReachable
<1>8. Reachable' = ReachableFrom(mem, roots)
    BY <1>1, <1>6 DEF Reachable, ReachableFrom, Closed, ClosedFrom
<1>9. {Name(t) : t \in ignored_names'} = NamesOf(ignored_names)  BY DEF NamesOf
<1> QED  BY <1>7, <1>8, <1>9 DEF IgnoredRight

\* Between its locked sections a checker leaves the check to others.
LEMMA CheckersApart ==
    ASSUME NEW t, NewName(t) \/ IgnoreName(t) \/ UnIgnoreName(t) \/ DeleteName(t)
    PROVE  phase = "idle" /\ UNCHANGED vars_L /\ UNCHANGED check
<1>1. CASE NewName(t)  BY <1>1 DEF NewName, Step, Idle
<1>2. CASE IgnoreName(t)
    <2>1. Step(t, "named", "ignored") /\ UNCHANGED vars_L /\ UNCHANGED check
        BY <1>2 DEF IgnoreName
    <2> QED  BY <2>1 DEF Step, Idle
<1>3. CASE UnIgnoreName(t)
    <2>1. Step(t, "reported", "unignored") /\ UNCHANGED vars_L /\ UNCHANGED check
        BY <1>3 DEF UnIgnoreName
    <2> QED  BY <2>1 DEF Step, Idle
<1>4. CASE DeleteName(t)  BY <1>4 DEF DeleteName, Step, Idle
<1> QED  BY <1>1, <1>2, <1>3, <1>4

LEMMA NextCaller ==
    ASSUME Phases, CallerThere, [Next]_vars PROVE CallerThere'
<1> USE HeapCheckerAssumption
<1>1. CASE UNCHANGED <<phase, caller>>  BY <1>1 DEF CallerThere
<1>2. CASE UNCHANGED vars \/ (UNCHANGED check /\ UNCHANGED caller)
    BY <1>1, <1>2 DEF vars, check, vars_L
<1>4. ASSUME NEW t \in Checkers, StartCheck(t) PROVE CallerThere'
    BY <1>4 DEF StartCheck, ListAllProcessThreads, CallerThere
<1>5. ASSUME NEW t \in Checkers,
             NewName(t) \/ IgnoreName(t) \/ UnIgnoreName(t) \/ DeleteName(t)
      PROVE  CallerThere'
    <2>1. UNCHANGED vars_L /\ UNCHANGED check
        BY <1>5, CheckersApart
    <2> QED  BY <1>2, <2>1 DEF vars_L
<1>6. CASE Scan \/ Failure \/ SignalHandler \/ Leave(result)
    <2>1. lister # "none" /\ caller' = caller
        BY <1>6 DEF Scan, NextPath, OpenDirectory, TooMany, NextPass, OtherDirectory, LastPass,
                    Visit, DetachThreads, Failure, SignalHandler, Leave
    <2>2. phase # "idle"  BY <2>1 DEF Phases
    <2> QED  BY <2>1, <2>2 DEF CallerThere
<1>7. CASE IgnoreLiveThreads \/ Allocate \/ MarkThreads \/ Completed \/ Listed \/ Marked
    <2>1. caller' = caller
        BY <1>7 DEF IgnoreLiveThreads, Allocate, MarkThreads, Completed, Listed, Marked, vars_L
    <2>2. phase # "idle"
        BY <1>7 DEF IgnoreLiveThreads, Allocate, MarkThreads, Completed, Listed, Marked
    <2> QED  BY <2>1, <2>2 DEF CallerThere
<1>8. CASE Dump  BY <1>8 DEF Dump, CallerThere
<1>9. CASE (Program \/ \E t \in Threads : checker[t] = "none" /\ Exit(t))
           /\ UNCHANGED <<draconian, own, check, dead>>
    <2>1. UNCHANGED check /\ UNCHANGED caller
        BY <1>9 DEF Program, CreateThread, DropLock, TakeLock, Exit
    <2> QED  BY <1>2, <2>1
<1> QED  BY <1>2, <1>4, <1>5, <1>6, <1>7, <1>8, <1>9 DEF Next, Check, Listing

LEMMA NextIgnored ==
    ASSUME Names, Phases, Stops, CallerThere, IgnoredRight, [Next]_vars
    PROVE  IgnoredRight'
<1> USE HeapCheckerAssumption
<1> DEFINE kept == <<phase, ignored, memory, stacks, registers, draconian, caller,
                     ignored_names>>
<1>1. CASE UNCHANGED kept
    <2>1. Reachable' = Reachable
        BY <1>1 DEF Reachable, Closed, Roots, OwnStack
    <2>2. {Name(t) : t \in ignored_names'} = {Name(t) : t \in ignored_names}  BY <1>1
    <2> QED  BY <1>1, <2>1, <2>2 DEF IgnoredRight
<1>2. CASE phase' # "marked"  BY <1>2 DEF IgnoredRight
<1>3. CASE UNCHANGED vars  BY <1>1, <1>3 DEF vars, vars_L, own, check, marking
<1>4. CASE (Program \/ \E t \in Threads : checker[t] = "none" /\ Exit(t))
           /\ UNCHANGED <<draconian, own, check, dead>>
    <2>1. caller' = caller
        BY <1>4 DEF Program, CreateThread, DropLock, TakeLock, Exit
    <2> QED  BY <1>1, <1>4, <2>1 DEF own, check, marking
<1>5. ASSUME NEW t \in Checkers,
             NewName(t) \/ IgnoreName(t) \/ StartCheck(t) \/ UnIgnoreName(t) \/ DeleteName(t)
      PROVE  IgnoredRight'
    <2>1. CASE StartCheck(t)  BY <1>2, <2>1 DEF StartCheck
    <2>2. CASE NewName(t) \/ IgnoreName(t) \/ UnIgnoreName(t) \/ DeleteName(t)
        <3>1. phase = "idle" /\ UNCHANGED check
            BY <2>2, CheckersApart
        <3> QED  BY <1>2, <3>1 DEF check
    <2> QED  BY <1>5, <2>1, <2>2
<1>6. CASE \E steps : Listing(steps)  BY <1>2, <1>6 DEF Listing
<1>7. CASE IgnoreLiveThreads \/ Allocate \/ Completed \/ Marked \/ Dump
    BY <1>2, <1>7 DEF IgnoreLiveThreads, Allocate, Completed, Marked, Dump
<1>8. CASE MarkThreads
    <2>1. PICK got \in SUBSET Others : \E found \in SUBSET got : Mark(found, got)
        BY <1>8 DEF MarkThreads
    <2>2. got \in SUBSET Threads  BY DEF Others, Stops
    <2>3. UNCHANGED <<caller, draconian, ignored_names>>  BY <1>8 DEF MarkThreads, vars_L, own
    <2>4. alive \subseteq Threads /\ caller \in Threads
        BY <1>8 DEF MarkThreads, Stops, CallerThere
    <2> QED  BY <2>1, <2>2, <2>3, <2>4, MarkRight
<1>9. CASE Listed
    <2>1. CASE phase' \in {"dump", "list"}  BY <1>2, <2>1
    <2>2. CASE Mark({}, {})
        <3>1. UNCHANGED <<caller, draconian, ignored_names>>  BY <1>9 DEF Listed, own
        <3>2. alive \subseteq Threads /\ caller \in Threads
            BY <1>9 DEF Listed, Stops, CallerThere
        <3> QED  BY <2>2, <3>1, <3>2, MarkRight
    <2> QED  BY <1>9, <2>1, <2>2 DEF Listed
<1> QED  BY <1>3, <1>4, <1>5, <1>6, <1>7, <1>8, <1>9 DEF Next, Check

-----------------------------------------------------------------------------
(* The theorems.                                                             *)

IInv == Names /\ Phases /\ Stops /\ CallerThere /\ IgnoredRight

\* The parts together are an invariant.
THEOREM HeapCheckerInvariance == Spec => []IInv
<1>1. Init => IInv
    BY InitNames, InitPhases, InitStops DEF IInv, Init, CallerThere, IgnoredRight
<1>2. IInv /\ [Next]_vars => IInv'
    BY NextNames, NextPhases, NextStops, NextCaller, NextIgnored DEF IInv
<1> QED  BY <1>1, <1>2, PTL DEF Spec

\* When the lister calls the callback, every thread of the program is stopped,
\* those too that were made meanwhile or let go between the directories, unless a
\* thread refused or exited before its turn, or /proc shows the process alone.
THEOREM AllStoppedHolds == Spec => []AllStopped
<1>1. IInv => AllStopped  BY DEF IInv, Stops
<1> QED  BY <1>1, HeapCheckerInvariance, PTL

\* However the lister ends, what is not a thread's is marked exactly once.
THEOREM MarkedOnceHolds == Spec => []MarkedOnce
<1>1. IInv => MarkedOnce  BY DEF IInv, Phases, MarkedOnce
<1> QED  BY <1>1, HeapCheckerInvariance, PTL

\* No check aborts over the name of a checker.
THEOREM NamesThereHolds == Spec => []NamesThere
<1>1. IInv => NamesThere  BY DEF IInv, Names, NamesThere
<1> QED  BY <1>1, HeapCheckerInvariance, PTL

\* Once all is marked, what the profile leaves out is what can be reached from
\* the stacks, the globals and what disabled code allocated, with the checkers'
\* names, in whichever process it was marked: every pointer was followed, none
\* that should not be.
THEOREM IgnoredRightHolds == Spec => []IgnoredRight
<1>1. IInv => IgnoredRight  BY DEF IInv
<1> QED  BY <1>1, HeapCheckerInvariance, PTL

===============================================================================
