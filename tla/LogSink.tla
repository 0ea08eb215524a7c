------------------------------ MODULE LogSink ------------------------------
(***************************************************************************)
(* The log sink (supra_log): threads of several processes write one log.   *)
(* A line goes through the thread's writer buffer, takes the count of      *)
(* lines lost so far with it, waits for the in-process mutex and the lock  *)
(* file, may rotate the generations one rename at a time, and is appended. *)
(* Any of these steps may fail, and a process may die at any of them.      *)
(* Lines are numbered in the order they are appended.                      *)
(***************************************************************************)
EXTENDS Naturals, Sequences, FiniteSets, FiniteSetsExt, SequencesExt

CONSTANTS
  LogThreads,     \* threads that log
  ProcessOf,      \* ProcessOf[t]: the process t belongs to
  MaxBytes,       \* the size at which the current file is rotated, in lines
  Keep,           \* rotated generations kept
  MaxLines        \* bound: lines logged

ASSUME LogAssumption ==
  /\ MaxBytes \in Nat /\ Keep \in Nat /\ MaxLines \in Nat
  /\ "no thread" \notin LogThreads

VARIABLES
  generation,   \* generation[0] the current file, generation[i] path.i; Absent when not there
  lost_count,   \* lost_count[p]: Sink.dropped
  sink_lock,    \* the thread inside write_to_file, NoThread when none
  suppressed,   \* suppressed[p]: live StderrGuards
  log_thread,   \* log_thread[t]: where t is in write_line
  appended,     \* lines appended so far
  failed_lines, \* failed_lines[p]: lines a write_to_file reported an error for
  noticed,      \* noticed[p]: lines the notices in the log have announced as lost
  lines_begun

logVars == <<generation, lost_count, sink_lock, suppressed, log_thread, appended, failed_lines, noticed, lines_begun>>

Processes == {ProcessOf[t] : t \in LogThreads}
NoThread == "no thread"
Absent == <<0>>
Quiet == [pc |-> "quiet", lost |-> 0, index |-> 0]

LogTypeOK ==
  /\ DOMAIN generation = 0..Keep
  /\ sink_lock \in LogThreads \cup {NoThread}
  /\ \A p \in Processes : lost_count[p] \in 0..(2 * MaxLines) /\ suppressed[p] \in 0..1

\* open: the file exists, empty or with what an earlier run left (not numbered).
LogInit ==
  /\ generation = [i \in 0..Keep |-> IF i = 0 THEN <<>> ELSE Absent]
  /\ lost_count = [p \in Processes |-> 0] /\ sink_lock = NoThread
  /\ suppressed = [p \in Processes |-> 0]
  /\ log_thread = [t \in LogThreads |-> Quiet]
  /\ appended = 0 /\ failed_lines = [p \in Processes |-> 0] /\ noticed = [p \in Processes |-> 0]
  /\ lines_begun = 0

LogAt(t, pc) == log_thread[t].pc = pc
LogTo(t, new) == log_thread' = [log_thread EXCEPT ![t] = new]

(***************************************************************************)
(* write_line                                                              *)
(***************************************************************************)
\* The writer adapter hands a whole line over on flush or drop (SinkWriter::emit);
\* the count of lost lines is swapped out and travels with it.
Emit(t) ==
  /\ LogAt(t, "quiet") /\ lines_begun < MaxLines
  /\ lines_begun' = lines_begun + 1
  /\ LogTo(t, [pc |-> "wait", lost |-> lost_count[ProcessOf[t]], index |-> 0])
  /\ lost_count' = [lost_count EXCEPT ![ProcessOf[t]] = 0]
  /\ UNCHANGED <<generation, sink_lock, suppressed, appended, failed_lines, noticed>>

Payload(t) == IF log_thread[t].lost > 0 THEN 2 ELSE 1

\* Fault: the lock file is not taken.
AcquireLog_None(t) ==
  /\ LogAt(t, "wait")
  /\ sink_lock' = t
  /\ LET length == IF generation[0] = Absent THEN 0 ELSE Len(generation[0]) IN
     LogTo(t, IF length + Payload(t) > MaxBytes THEN [log_thread[t] EXCEPT !.pc = "rotate", !.index = Keep]
              ELSE [log_thread[t] EXCEPT !.pc = "append"])
  /\ UNCHANGED <<generation, lost_count, suppressed, appended, failed_lines, noticed, lines_begun>>

\* The mutex, then FileLock::acquire, then the length decides on a rotation.
AcquireLog(t) ==
  /\ LogAt(t, "wait") /\ sink_lock = NoThread
  /\ sink_lock' = t
  /\ LET length == IF generation[0] = Absent THEN 0 ELSE Len(generation[0]) IN
     LogTo(t, IF length + Payload(t) > MaxBytes THEN [log_thread[t] EXCEPT !.pc = "rotate", !.index = Keep]
              ELSE [log_thread[t] EXCEPT !.pc = "append"])
  /\ UNCHANGED <<generation, lost_count, suppressed, appended, failed_lines, noticed, lines_begun>>

\* Fault: the youngest generation is moved first.
RotateStep_Upwards(t) ==
  /\ LogAt(t, "rotate") /\ Keep > 0
  /\ LET i == Keep - log_thread[t].index IN
     /\ generation' = IF i < Keep /\ generation[i] # Absent
                      THEN [generation EXCEPT ![i + 1] = generation[i], ![i] = Absent] ELSE generation
     /\ LogTo(t, IF log_thread[t].index = 0 THEN [log_thread[t] EXCEPT !.pc = "append"]
                 ELSE [log_thread[t] EXCEPT !.index = @ - 1])
  /\ UNCHANGED <<lost_count, sink_lock, suppressed, appended, failed_lines, noticed, lines_begun>>

\* rotate, one file operation at a time: the oldest goes, then each generation
\* moves up, the oldest of them first, and at last the current file.
RotateStep(t) ==
  /\ LogAt(t, "rotate")
  /\ LET i == log_thread[t].index IN
     /\ generation' =
          CASE Keep = 0 -> [generation EXCEPT ![0] = <<>>]
            [] Keep > 0 /\ i = Keep -> [generation EXCEPT ![Keep] = Absent]
            [] Keep > 0 /\ i < Keep /\ generation[i] # Absent ->
                 [generation EXCEPT ![i + 1] = generation[i], ![i] = Absent]
            [] OTHER -> generation
     /\ LogTo(t, IF i = 0 THEN [log_thread[t] EXCEPT !.pc = "append", !.index = 0]
                 ELSE [log_thread[t] EXCEPT !.index = i - 1])
  /\ UNCHANGED <<lost_count, sink_lock, suppressed, appended, failed_lines, noticed, lines_begun>>

\* A rotation that fails is given up where it is; the line is appended all the same.
RotateFails(t) ==
  /\ LogAt(t, "rotate") /\ LogTo(t, [log_thread[t] EXCEPT !.pc = "append", !.index = 0])
  /\ UNCHANGED <<generation, lost_count, sink_lock, suppressed, appended, failed_lines, noticed, lines_begun>>

Unlocked1(t) == sink_lock' = IF sink_lock = t THEN NoThread ELSE sink_lock
\* open_append: the file as it stands, made when it is not there.
open_append(file) == IF file = Absent THEN <<>> ELSE file
Adds(n) ==
  /\ appended' = appended + n
  /\ generation' = [generation EXCEPT ![0] = open_append(@) \o [k \in 1..n |-> appended + k]]

\* The file is opened afresh under the lock and the payload appended: the notice
\* of what was lost, when something was, and the line.
Append1(t) ==
  /\ LogAt(t, "append") /\ Adds(Payload(t)) /\ Unlocked1(t)
  /\ noticed' = [noticed EXCEPT ![ProcessOf[t]] = @ + log_thread[t].lost]
  /\ LogTo(t, [Quiet EXCEPT !.pc = "mirror"])
  /\ UNCHANGED <<lost_count, suppressed, failed_lines, lines_begun>>

\* Fault: the count that travelled with the line is not put back.
AppendFails_Forgets(t) ==
  /\ log_thread[t].pc \in {"wait", "append"} /\ Unlocked1(t)
  /\ LET p == ProcessOf[t] IN
     /\ failed_lines' = [failed_lines EXCEPT ![p] = @ + 1]
     /\ lost_count' = [lost_count EXCEPT ![p] = @ + 1]
  /\ LogTo(t, [Quiet EXCEPT !.pc = "mirror"])
  /\ UNCHANGED <<generation, suppressed, appended, noticed, lines_begun>>

\* The lock file, the open or the write fails, the write maybe after the notice
\* was out: the count goes back, with this line.
AppendFails(t) ==
  /\ log_thread[t].pc \in {"wait", "append"} /\ Unlocked1(t)
  /\ LET p == ProcessOf[t] IN
     /\ failed_lines' = [failed_lines EXCEPT ![p] = @ + 1]
     /\ lost_count' = [lost_count EXCEPT ![p] = @ + log_thread[t].lost + 1]
     /\ \/ UNCHANGED <<generation, appended, noticed>>
        \/ /\ LogAt(t, "append") /\ Payload(t) = 2 /\ Adds(1)
           /\ noticed' = [noticed EXCEPT ![p] = @ + log_thread[t].lost]
  /\ LogTo(t, [Quiet EXCEPT !.pc = "mirror"])
  /\ UNCHANGED <<suppressed, lines_begun>>

\* mirrors_to_stderr is read, and only then stderr written.
Mirrors(t) ==
  /\ LogAt(t, "mirror")
  /\ LogTo(t, IF suppressed[ProcessOf[t]] = 0 THEN [Quiet EXCEPT !.pc = "stderr"] ELSE Quiet)
  /\ UNCHANGED <<generation, lost_count, sink_lock, suppressed, appended, failed_lines, noticed, lines_begun>>
WriteStderr(t) ==
  /\ LogAt(t, "stderr") /\ LogTo(t, Quiet)
  /\ UNCHANGED <<generation, lost_count, sink_lock, suppressed, appended, failed_lines, noticed, lines_begun>>

\* suppress_stderr and the drop of its guard.
Suppress(p) ==
  /\ suppressed' = [suppressed EXCEPT ![p] = 1 - @]
  /\ UNCHANGED <<generation, lost_count, sink_lock, log_thread, appended, failed_lines, noticed, lines_begun>>

\* A process dies: its threads are gone where they were, its lock is released,
\* and what it still owed a notice for is owed by nobody.
LogDies(p) ==
  /\ \E t \in LogThreads : ProcessOf[t] = p /\ ~LogAt(t, "quiet")
  /\ log_thread' = [t \in LogThreads |-> IF ProcessOf[t] = p THEN Quiet ELSE log_thread[t]]
  /\ sink_lock' = IF sink_lock # NoThread /\ ProcessOf[sink_lock] = p THEN NoThread ELSE sink_lock
  /\ lost_count' = [lost_count EXCEPT ![p] = 0] /\ failed_lines' = [failed_lines EXCEPT ![p] = 0]
  /\ noticed' = [noticed EXCEPT ![p] = 0] /\ suppressed' = [suppressed EXCEPT ![p] = 0]
  /\ UNCHANGED <<generation, appended, lines_begun>>

LogNext ==
  \/ \E t \in LogThreads :
       \/ Emit(t) \/ AcquireLog(t) \/ RotateStep(t) \/ RotateFails(t) \/ Append1(t)
       \/ AppendFails(t) \/ Mirrors(t) \/ WriteStderr(t)
  \/ \E p \in Processes : Suppress(p) \/ LogDies(p)

LogSpec == LogInit /\ [][LogNext]_logVars

(***************************************************************************)
(* Properties                                                              *)
(***************************************************************************)
Logged(i) == open_append(generation[i])

\* Rotation loses only the oldest lines: whatever interleaves, fails or dies, the
\* log, oldest file first, is a suffix of what was appended, in order, every line once.
LogIsSuffix ==
  /\ \A i \in 0..Keep : \A k, l \in DOMAIN Logged(i) : k < l => Logged(i)[k] < Logged(i)[l]
  /\ \A i, j \in 0..Keep : i < j =>
       \A newer \in Range(Logged(i)), older \in Range(Logged(j)) : older < newer
  /\ \A i \in 0..Keep : \A line \in Range(Logged(i)) :
       /\ line \in 1..appended
       /\ \A next \in line..appended : \E j \in 0..Keep : next \in Range(Logged(j))

\* The lost lines p's threads carry a count of, one by one.
Travelling(p) ==
  UNION {{t} \X (1..log_thread[t].lost) : t \in {u \in LogThreads : ProcessOf[u] = p}}

\* A lost line is reported: what write_line failed to write is in the counter,
\* travels with a line on its way, or has been announced in the log.
LossReported == \A p \in Processes :
  failed_lines[p] <= lost_count[p] + noticed[p] + Cardinality(Travelling(p))
=============================================================================
