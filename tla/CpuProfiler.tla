------------------------------ MODULE CpuProfiler ------------------------------
(***************************************************************************)
(* The CPU profiler (profiler.cpp): a handler of SIGPROF counts stack      *)
(* traces in a hash table, while threads start, stop and flush.            *)
(*                                                                         *)
(* state_lock is for Start, Stop and FlushTable; table_lock is what they   *)
(* share with the handler.  The signal may arrive at any thread, wherever  *)
(* it is, also in the profiler itself; it is blocked while its handler     *)
(* runs.  A procedure is cut at each lock and at each change of the        *)
(* handler, so that a signal can arrive between them.  evictions_ and      *)
(* total_bytes_, which are only printed, GetCurrentState, which only       *)
(* reads, and writes that fail (they exit) are left out.                   *)
(***************************************************************************)
EXTENDS Integers, Sequences, FiniteSets, SequencesExt

CONSTANTS Threads,
          Stacks,          \* stack traces
          Depth,           \* of each trace
          kBuckets,
          BucketOf,        \* the bucket a trace is hashed to
          kAssociativity, kBufferLength,
          MaxSamples,      \* bound: signals of one profile
          NoThread, None

\* The entries of the table in the order of their addresses, bucket by bucket.
NumEntries == kBuckets * kAssociativity
Bucket(s) == (BucketOf[s] - 1) * kAssociativity + 1 .. BucketOf[s] * kAssociativity
Tables == [1 .. NumEntries -> [stack : Stacks \cup {None}, count : Nat]]

ASSUME CpuProfilerAssumption ==
    /\ {kBuckets, kAssociativity, kBufferLength} \subseteq Nat \ {0}
    /\ MaxSamples \in Nat
    /\ Depth \in [Stacks -> Nat \ {0}]
    /\ BucketOf \in [Stacks -> 1 .. kBuckets]
    /\ 5 <= kBufferLength /\ \A s \in Stacks : Depth[s] + 2 <= kBufferLength
    /\ NoThread \notin Threads /\ None \notin Stacks
    /\ None \notin Tables

VARIABLES
    state_lock, table_lock,  \* their holders, or NoThread
    handler,                 \* of SIGPROF: "ignore" or "prof"
    out,                     \* out_ >= 0
    hash,                    \* the table, or None
    evict, num_evicted,      \* the records in the buffer, and the slots they take
    count,
    file,                    \* the records written
    pc,                      \* per thread, where it is in Start, Stop or FlushTable
    sample,                  \* per thread, the trace its handler has to count, or None
    crashed,                 \* the handler followed hash_ when it was NULL
    overrun, added           \* history: evict_ written past its end; samples by trace

locks   == <<state_lock, table_lock>>
table   == <<hash, count, added>>
output  == <<evict, num_evicted, file, overrun>>
vars    == <<locks, handler, out, table, output, pc, sample, crashed>>

Free     == [stack |-> None, count |-> 0]
EmptyTable == [i \in 1 .. NumEntries |-> Free]
Header   == [kind |-> "header", stack |-> None, count |-> 0]
Trailer  == [kind |-> "trailer", stack |-> None, count |-> 0]
Record(e) == [kind |-> "sample", stack |-> e.stack, count |-> e.count]

Init ==
    /\ state_lock = NoThread /\ table_lock = NoThread
    /\ handler = "ignore"
    /\ out = FALSE
    /\ hash = None /\ evict = <<>> /\ num_evicted = 0
    /\ count = 0
    /\ file = <<>>
    /\ pc = [t \in Threads |-> "run"]
    /\ sample = [t \in Threads |-> None]
    /\ crashed = FALSE
    /\ overrun = FALSE /\ added = [s \in Stacks |-> 0]

-----------------------------------------------------------------------------
(* The eviction buffer: operators from what is in it and in the file to what *)
(* is there afterwards.                                                      *)

Slots(r) == CASE r.kind = "header" -> 5
              [] r.kind = "trailer" -> 3
              [] OTHER -> Depth[r.stack] + 2

Output == [evict |-> evict, num_evicted |-> num_evicted, file |-> file, overrun |-> overrun]
OutputIs(o) ==
    /\ evict' = o.evict /\ num_evicted' = o.num_evicted
    /\ file' = o.file /\ overrun' = o.overrun

FlushEvicted(o) ==
    [evict |-> <<>>, num_evicted |-> 0, file |-> o.file \o o.evict, overrun |-> o.overrun]
Put(o, r) ==
    [evict |-> Append(o.evict, r), num_evicted |-> o.num_evicted + Slots(r), file |-> o.file,
     overrun |-> o.overrun \/ o.num_evicted + Slots(r) > kBufferLength]
MakeRoom(o, slots) == IF o.num_evicted + slots > kBufferLength THEN FlushEvicted(o) ELSE o

EvictForgetsCounts(o, e) == Put(MakeRoom(o, Depth[e.stack]), Record(e))
Evict(o, e) == Put(MakeRoom(o, Depth[e.stack] + 2), Record(e))

\* The loops over the table: what is there after n entries.
Evictions(o) ==
    LET after[n \in 0 .. NumEntries] ==
          IF n = 0 THEN o
          ELSE IF hash[n].count > 0 THEN Evict(after[n - 1], hash[n])
          ELSE after[n - 1]
    IN  after
EvictAll(o) == Evictions(o)[NumEntries]

-----------------------------------------------------------------------------
(* The signal                                                                *)

Runs(t) == sample[t] = None
Goes(t, from, to) == Runs(t) /\ pc[t] = from /\ pc' = [pc EXCEPT ![t] = to]

Pending == {t \in Threads : sample[t] # None}

\* prof_handler is called, and Add takes the stack trace.
Signal(t) ==
    /\ handler = "prof" /\ Runs(t)
    /\ count + Cardinality(Pending) < MaxSamples
    /\ \E s \in Stacks : sample' = [sample EXCEPT ![t] = s]
    /\ UNCHANGED <<locks, handler, out, table, output, pc, crashed>>

\* The entry that is least used, the first of them, makes room.
Victim(s) ==
    CHOOSE a \in Bucket(s) : \A i \in Bucket(s) :
        \/ hash[a].count < hash[i].count
        \/ hash[a].count = hash[i].count /\ a <= i

CountIn(a) ==
    /\ hash' = [hash EXCEPT ![a] = [stack |-> hash[a].stack, count |-> hash[a].count + 1]]
    /\ UNCHANGED output
ReplaceUncounted(a, s) ==
    hash' = [hash EXCEPT ![a] = [stack |-> s, count |-> 1]] /\ UNCHANGED output
Replace(a, s) ==
    /\ hash' = [hash EXCEPT ![a] = [stack |-> s, count |-> 1]]
    /\ OutputIs(IF hash[a].count > 0 THEN Evict(Output, hash[a]) ELSE Output)

\* The rest of Add, with table_lock held to the end.
Add(t) ==
    /\ ~ Runs(t) /\ table_lock = NoThread
    /\ hash # None
    /\ LET s == sample[t]
           matches == {a \in Bucket(s) : hash[a].stack = s}
       IN  /\ \/ \E a \in matches : CountIn(a)
              \/ matches = {} /\ Replace(Victim(s), s)
           /\ added' = [added EXCEPT ![s] = @ + 1]
    /\ count' = count + 1
    /\ sample' = [sample EXCEPT ![t] = None]
    /\ UNCHANGED <<locks, handler, out, pc, crashed>>

\* A handler that waited while Stop held table_lock.
AddAfterStop(t) ==
    /\ ~ Runs(t) /\ table_lock = NoThread
    /\ hash = None
    /\ crashed' = TRUE
    /\ UNCHANGED <<locks, handler, out, table, output, pc, sample>>

-----------------------------------------------------------------------------
(* Start, Stop and FlushTable                                                *)

LockState(t) == state_lock = NoThread /\ state_lock' = t

\* Start opens the file, truncating it; if it cannot, or if the profiler is
\* enabled, it returns.
Start(t) ==
    /\ Goes(t, "run", "start")
    /\ LockState(t) /\ ~ out
    /\ file' = <<>>
    /\ UNCHANGED <<table_lock, handler, out, table, evict, num_evicted, overrun, sample, crashed>>

Stop(t) ==
    /\ Goes(t, "run", "stop")
    /\ LockState(t)
    /\ UNCHANGED <<table_lock, handler, out, table, output, sample, crashed>>

FlushTable(t) ==
    /\ Goes(t, "run", "flush")
    /\ LockState(t) /\ out
    /\ UNCHANGED <<table_lock, handler, out, table, output, sample, crashed>>

IgnoreInStopOnly(t) ==
    /\ Goes(t, "stop", "stopping") \/ Goes(t, "flush", "flushing")
    /\ handler' = IF pc[t] = "stop" THEN "ignore" ELSE handler
    /\ UNCHANGED <<locks, out, table, output, sample, crashed>>
\* SetHandler(SIG_IGN) and SetHandler(prof_handler).
Ignore(t) ==
    /\ Goes(t, "stop", "stopping") \/ Goes(t, "flush", "flushing")
    /\ handler' = "ignore"
    /\ UNCHANGED <<locks, out, table, output, sample, crashed>>
Handle(t) ==
    /\ Goes(t, "started", "ready") \/ Goes(t, "flushed", "ready")
    /\ handler' = "prof"
    /\ UNCHANGED <<locks, out, table, output, sample, crashed>>

LockTable(t) ==
    /\ \/ Goes(t, "start", "start_table")
       \/ Goes(t, "stopping", "stop_table")
       \/ Goes(t, "flushing", "flush_table")
    /\ table_lock = NoThread /\ table_lock' = t
    /\ UNCHANGED <<state_lock, handler, out, table, output, sample, crashed>>

\* The new table, and the header in the buffer.
StartTable(t) ==
    /\ Goes(t, "start_table", "started")
    /\ out' = TRUE
    /\ hash' = EmptyTable
    /\ count' = 0 /\ added' = [s \in Stacks |-> 0]
    /\ OutputIs(Put([evict |-> <<>>, num_evicted |-> 0, file |-> file, overrun |-> overrun], Header))
    /\ table_lock' = NoThread
    /\ UNCHANGED <<state_lock, handler, sample, crashed>>

\* All entries and the trailer are written, and the table is deleted.
StopTable(t) ==
    /\ Goes(t, "stop_table", "run")
    /\ IF out
       THEN /\ OutputIs(FlushEvicted(Put(MakeRoom(EvictAll(Output), 3), Trailer)))
            /\ hash' = None
            /\ out' = FALSE
       ELSE UNCHANGED <<out, hash, output>>
    /\ table_lock' = NoThread /\ state_lock' = NoThread
    /\ UNCHANGED <<handler, count, added, sample, crashed>>

\* All entries are written and cleared.
FlushAll(t) ==
    /\ Goes(t, "flush_table", "flushed")
    /\ OutputIs(FlushEvicted(EvictAll(Output)))
    /\ hash' = EmptyTable
    /\ table_lock' = NoThread
    /\ UNCHANGED <<state_lock, handler, out, count, added, sample, crashed>>

UnlockState(t) ==
    /\ Goes(t, "ready", "run")
    /\ state_lock' = NoThread
    /\ UNCHANGED <<table_lock, handler, out, table, output, sample, crashed>>

-----------------------------------------------------------------------------

Next ==
    /\ ~ crashed
    /\ \E t \in Threads :
         \/ Signal(t) \/ Add(t) \/ AddAfterStop(t)
         \/ Start(t) \/ Stop(t) \/ FlushTable(t)
         \/ Ignore(t) \/ Handle(t) \/ LockTable(t) \/ UnlockState(t)
         \/ StartTable(t) \/ StopTable(t) \/ FlushAll(t)

Spec == Init /\ [][Next]_vars

-----------------------------------------------------------------------------
(* Properties                                                                *)

\* A sample is known by the entry or record that counts it, and its number there.
SamplesOf(entries, s) ==
    UNION {{i} \X (1 .. entries[i].count) : i \in {j \in DOMAIN entries : entries[j].stack = s}}
CountOf(entries, s) == Cardinality(SamplesOf(entries, s))

\* Each sample the handler counted is in the table, in the buffer or in the
\* file, once, through evictions, flushes and a full buffer; and when the
\* profile was stopped all are in the file.
SamplesConserved ==
    table_lock = NoThread /\ (out \/ state_lock = NoThread) =>
        /\ \A s \in Stacks :
             added[s] = (IF out THEN CountOf(hash, s) ELSE 0) + CountOf(file \o evict, s)
        /\ ~ out => evict = <<>>

\* The file of a finished profile is a header, samples and a trailer.  A sample
\* has a count, since a reader takes one of none for the trailer, and no record
\* was written past the end of evict_: the assertions of Evict.
ProfileReadable ==
    /\ ~ overrun
    /\ ~ out /\ state_lock = NoThread /\ file # <<>> =>
         /\ Len(file) >= 2 /\ Head(file) = Header /\ Last(file) = Trailer
         /\ \A i \in 2 .. Len(file) - 1 : file[i].kind = "sample" /\ file[i].count > 0

\* The handler takes table_lock from wherever the signal finds its thread: it
\* never interrupts the holder, which would wait for itself, and it is not
\* installed unless there is a table.
SignalsSafe ==
    /\ table_lock # NoThread => sample[table_lock] = None
    /\ handler = "prof" => hash # None /\ out

==============================================================================
